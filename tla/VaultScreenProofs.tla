--------------------------- MODULE VaultScreenProofs ---------------------------
(***************************************************************************)
(* Theorems about VaultScreen, for any number of sites, calls and faults.  *)
(***************************************************************************)
EXTENDS VaultScreen, TLAPS

Kinds == {"list", "get", "delete", "save"}
TaskStages == {"sent", "handled", "listing", "listed", "lost", "over"}
Tasks == [kind : Kinds, site : Sites \cup {NoSite}, stage : TaskStages,
          got : SUBSET (Sites \cup Nat), forSelected : BOOLEAN, missed : SUBSET Nat]

Types ==
    /\ stored \in [Sites -> Nat]
    /\ tasks \in Seq(Tasks)
    /\ sites \subseteq Sites
    /\ loading \in BOOLEAN
    /\ panel \in {"list", "add", "view"}
    /\ selected \in [site : Sites, version : Nat] \cup {NoEntry}
    /\ saving \in 0..Len(tasks)
    /\ listOff \in BOOLEAN /\ viewOff \in BOOLEAN
    /\ faults \in Nat

(* Tasks of a kind pass through the stages of that kind, and those that    *)
(* are missed by others have been carried out.                             *)
StagesFit ==
    \A t \in Ids :
        /\ tasks[t].stage \in {"listing", "listed"} => tasks[t].kind = "save"
        /\ tasks[t].stage = "lost" => IsChange(t)
        /\ tasks[t].kind # "list" => tasks[t].site \in Sites
        /\ Loads(t, "handled", "listed") => tasks[t].got \subseteq Sites
        /\ \A u \in tasks[t].missed : u \in Ids /\ u # t /\ tasks[u].stage # "sent"

SavingFits == saving # 0 => tasks[saving].kind = "save"

(* A change of s that was made, and whose answer is not all here yet.      *)
Pending(u, s) == /\ IsChange(u) /\ tasks[u].site = s
                 /\ tasks[u].stage \in {"handled", "listing", "listed"}

(* What an answer lacks was changed after it was read.                     *)
ListsFit ==
    \A t \in Ids : Loads(t, "handled", "listed") =>
        \A s \in Sites : \/ s \in tasks[t].got <=> stored[s] # 0
                         \/ \E u \in tasks[t].missed : IsChange(u) /\ tasks[u].site = s

GetsFit ==
    \A t \in Ids : AtStage(t, "get", "handled") =>
        \A v \in tasks[t].got :
            /\ v \in Nat
            /\ \/ stored[tasks[t].site] = v
               \/ \E u \in tasks[t].missed : IsChange(u) /\ tasks[u].site = tasks[t].site

DeletesFit ==
    \A t \in Ids : AtStage(t, "delete", "handled") =>
        \/ stored[tasks[t].site] = 0
        \/ \E u \in tasks[t].missed : tasks[u].kind = "save" /\ tasks[u].site = tasks[t].site

(* Where list and vault differ, a change is not answered yet.              *)
ListExplained ==
    ~listOff => \A s \in Sites : \/ s \in sites <=> stored[s] # 0
                                 \/ \E u \in Ids : Pending(u, s)

(* The same for the entry shown; and a delete of it closes the view.       *)
ViewExplained ==
    selected # NoEntry /\ ~viewOff =>
        /\ panel = "view" => \/ stored[selected.site] = selected.version
                             \/ \E u \in Ids : Pending(u, selected.site)
        /\ \A t \in Ids : /\ tasks[t].kind = "delete" /\ tasks[t].site = selected.site
                          /\ tasks[t].stage \in {"sent", "handled"}
                          => tasks[t].forSelected

VInv == /\ Types /\ StagesFit /\ SavingFits
        /\ ListsFit /\ GetsFit /\ DeletesFit
        /\ ListExplained /\ ViewExplained /\ NeverStuck

-----------------------------------------------------------------------------
(* What the operators on tasks do, field by field.                         *)

LEMMA TaskFacts ==
    ASSUME Types
    PROVE  /\ Len(tasks) \in Nat
           /\ Len(tasks) + 1 \in Nat /\ Len(tasks) + 1 \notin Ids
           /\ Ids \subseteq Nat /\ Ids = 1..Len(tasks)
           /\ \A t \in Ids : tasks[t] \in Tasks
BY DEF Types, Ids

LEMMA BeginEffect ==
    ASSUME Types, NEW task \in Tasks, Begin(task)
    PROVE  /\ tasks' \in Seq(Tasks) /\ Len(tasks') = Len(tasks) + 1
           /\ Ids' = Ids \cup {Len(tasks) + 1}
           /\ tasks'[Len(tasks) + 1] = task
           /\ \A u \in Ids : tasks'[u] = tasks[u]
BY DEF Types, Ids, Begin

(* Task t becomes new, and all others stay.                                *)
Only(t, new) == /\ tasks' \in Seq(Tasks) /\ Len(tasks') = Len(tasks)
                /\ Ids' = Ids
                /\ tasks'[t] = new
                /\ \A u \in Ids : u # t => tasks'[u] = tasks[u]

LEMMA UpdateEffect ==
    ASSUME Types, NEW t \in Ids, NEW new \in Tasks, tasks' = [tasks EXCEPT ![t] = new]
    PROVE  Only(t, new)
BY DEF Types, Ids, Only

LEMMA ReadsEffect ==
    ASSUME Types, NEW t \in Ids, NEW answer \in SUBSET (Sites \cup Nat),
           NEW stage \in TaskStages, Reads(t, answer, stage)
    PROVE  Only(t, [tasks[t] EXCEPT !.got = answer, !.stage = stage, !.missed = {}])
<1>1. tasks[t] \in Tasks
  BY TaskFacts
<1>2. [tasks[t] EXCEPT !.got = answer, !.stage = stage, !.missed = {}] \in Tasks
  BY <1>1 DEF Tasks
<1>3. tasks' = [tasks EXCEPT ![t] = [tasks[t] EXCEPT !.got = answer, !.stage = stage, !.missed = {}]]
  BY DEF Reads, Types, Ids
<1> QED
  BY <1>2, <1>3, UpdateEffect

LEMMA EndsEffect ==
    ASSUME Types, NEW t \in Ids, Ends(t)
    PROVE  Only(t, [tasks[t] EXCEPT !.stage = "over", !.got = {}])
<1>1. tasks[t] \in Tasks
  BY TaskFacts
<1>2. [tasks[t] EXCEPT !.stage = "over", !.got = {}] \in Tasks
  BY <1>1 DEF Tasks, TaskStages
<1>3. tasks' = [tasks EXCEPT ![t] = [tasks[t] EXCEPT !.stage = "over", !.got = {}]]
  BY DEF Ends, Types, Ids
<1> QED
  BY <1>2, <1>3, UpdateEffect

LEMMA StageEffect ==
    ASSUME Types, NEW t \in Ids, NEW stage \in TaskStages,
           tasks' = [tasks EXCEPT ![t].stage = stage]
    PROVE  Only(t, [tasks[t] EXCEPT !.stage = stage])
<1>1. tasks[t] \in Tasks
  BY TaskFacts
<1>2. [tasks[t] EXCEPT !.stage = stage] \in Tasks
  BY <1>1 DEF Tasks
<1>3. tasks' = [tasks EXCEPT ![t] = [tasks[t] EXCEPT !.stage = stage]]
  BY DEF Types, Ids
<1> QED
  BY <1>2, <1>3, UpdateEffect

(* A change of the vault.                                                  *)
Misses(u) == tasks[u].stage \in {"handled", "listed"}

LEMMA ChangesEffect ==
    ASSUME Types, NEW t \in Ids, NEW stage \in TaskStages, Changes(t, stage)
    PROVE  /\ tasks' \in Seq(Tasks) /\ Len(tasks') = Len(tasks) /\ Ids' = Ids
           /\ tasks'[t] = [tasks[t] EXCEPT !.stage = stage]
           /\ \A u \in Ids : u # t =>
                 tasks'[u] = IF Misses(u)
                             THEN [tasks[u] EXCEPT !.missed = tasks[u].missed \cup {t}]
                             ELSE tasks[u]
<1>1. /\ t \in Nat /\ Len(tasks) \in Nat /\ Ids = 1..Len(tasks)
      /\ \A u \in Ids : tasks[u] \in Tasks
  BY TaskFacts
<1> DEFINE new(u) == IF u = t THEN [tasks[u] EXCEPT !.stage = stage]
                     ELSE IF Misses(u)
                     THEN [tasks[u] EXCEPT !.missed = tasks[u].missed \cup {t}]
                     ELSE tasks[u]
<1>2. tasks' = [u \in Ids |-> new(u)]
  BY DEF Changes, Misses
<1>3. ASSUME NEW u \in Ids PROVE new(u) \in Tasks
  BY <1>1 DEF Tasks
<1>4. tasks' \in [1..Len(tasks) -> Tasks]
  BY <1>1, <1>2, <1>3
<1>5. tasks' \in Seq(Tasks) /\ Len(tasks') = Len(tasks)
  BY <1>1, <1>4
<1> QED
  BY <1>2, <1>5 DEF Ids

-----------------------------------------------------------------------------
(* What answers hold, whichever task a step advances.                      *)

Fit == StagesFit /\ ListsFit /\ GetsFit /\ DeletesFit

(* One task advances: it reads its answer from the vault, or waits for no  *)
(* answer that it has to fit.                                              *)
ReadsNow(task) ==
    /\ task.missed = {}
    /\ task.kind \in {"list", "save"} => task.got = {s \in Sites : stored[s] # 0}
    /\ task.kind = "get" => task.got = {stored[task.site]} \ {0}
    /\ task.kind # "delete"

LEMMA FitUpdate ==
    ASSUME Types, Fit, UNCHANGED stored, NEW t \in Ids, NEW new \in Tasks, Only(t, new),
           new.kind = tasks[t].kind, new.site = tasks[t].site,
           new.missed \subseteq tasks[t].missed, new.stage # "sent",
           new.stage \in {"listing", "listed"} => new.kind = "save",
           new.stage = "lost" => new.kind \in {"delete", "save"},
           new.stage \in {"over", "listing", "lost"} \/ ReadsNow(new)
    PROVE  Fit'
<1> DEFINE Same(u) == tasks'[u].kind = tasks[u].kind /\ tasks'[u].site = tasks[u].site
<1>1. /\ Ids' = Ids /\ tasks'[t] = new
      /\ \A u \in Ids : u # t => tasks'[u] = tasks[u]
      /\ \A u \in Ids : Same(u)
      /\ \A u \in Ids : tasks[u].stage # "sent" => tasks'[u].stage # "sent"
  BY DEF Only
<1>2. \A u \in Ids : \A v \in tasks[u].missed : v \in Ids /\ v # u /\ tasks[v].stage # "sent"
  BY DEF Fit, StagesFit
<1>3. \A u \in Ids, v \in Ids : v \in tasks'[u].missed => v \in tasks[u].missed
  BY <1>1
<1>4. StagesFit'
  <2> SUFFICES ASSUME NEW u \in Ids
               PROVE  /\ tasks'[u].stage \in {"listing", "listed"} => tasks'[u].kind = "save"
                      /\ tasks'[u].stage = "lost" => tasks'[u].kind \in {"delete", "save"}
                      /\ tasks'[u].kind # "list" => tasks'[u].site \in Sites
                      /\ (Loads(u, "handled", "listed"))' => tasks'[u].got \subseteq Sites
                      /\ \A v \in tasks'[u].missed : v \in Ids /\ v # u /\ tasks'[v].stage # "sent"
    BY <1>1 DEF StagesFit, IsChange
  <2>1. /\ tasks'[u].stage \in {"listing", "listed"} => tasks'[u].kind = "save"
        /\ tasks'[u].stage = "lost" => tasks'[u].kind \in {"delete", "save"}
        /\ tasks'[u].kind # "list" => tasks'[u].site \in Sites
    BY <1>1 DEF Fit, StagesFit, IsChange
  <2>4. (Loads(u, "handled", "listed"))' => tasks'[u].got \subseteq Sites
    BY <1>1 DEF Fit, StagesFit, Loads, AtStage, ReadsNow
  <2>2. \A v \in tasks'[u].missed : v \in tasks[u].missed
    BY <1>1
  <2>3. \A v \in tasks'[u].missed : v \in Ids /\ v # u /\ tasks'[v].stage # "sent"
    BY <1>1, <1>2, <2>2
  <2> QED
    BY <2>1, <2>3, <2>4
<1>5. ListsFit'
  <2> SUFFICES ASSUME NEW u \in Ids, Loads(u, "handled", "listed")', NEW s \in Sites
               PROVE  \/ s \in tasks'[u].got <=> stored[s] # 0
                      \/ \E v \in tasks'[u].missed : IsChange(v)' /\ tasks'[v].site = s
    BY <1>1 DEF ListsFit
  <2>1. CASE u = t
    BY <1>1, <2>1 DEF ReadsNow, Loads, AtStage
  <2>2. CASE u # t
    <3>1. Loads(u, "handled", "listed") /\ tasks'[u] = tasks[u]
      BY <1>1, <2>2 DEF Loads, AtStage
    <3>2. \/ s \in tasks[u].got <=> stored[s] # 0
          \/ \E v \in tasks[u].missed : IsChange(v) /\ tasks[v].site = s
      BY <3>1 DEF Fit, ListsFit
    <3> QED
      BY <1>1, <1>2, <3>1, <3>2 DEF IsChange
  <2> QED
    BY <2>1, <2>2
<1>6. GetsFit'
  <2> SUFFICES ASSUME NEW u \in Ids, AtStage(u, "get", "handled")', NEW n \in tasks'[u].got
               PROVE  /\ n \in Nat
                      /\ \/ stored[tasks'[u].site] = n
                         \/ \E v \in tasks'[u].missed :
                                IsChange(v)' /\ tasks'[v].site = tasks'[u].site
    BY <1>1 DEF GetsFit, AtStage
  <2>1. CASE u = t
    <3>1. tasks[u].site \in Sites
      BY <1>1, <2>1 DEF Fit, StagesFit, AtStage
    <3> QED
      BY <1>1, <2>1, <3>1 DEF ReadsNow, AtStage, Types
  <2>2. CASE u # t
    <3>1. AtStage(u, "get", "handled") /\ tasks'[u] = tasks[u]
      BY <1>1, <2>2 DEF AtStage
    <3>2. /\ n \in Nat
          /\ \/ stored[tasks[u].site] = n
             \/ \E v \in tasks[u].missed : IsChange(v) /\ tasks[v].site = tasks[u].site
      BY <3>1 DEF Fit, GetsFit
    <3> QED
      BY <1>1, <1>2, <3>1, <3>2 DEF IsChange
  <2> QED
    BY <2>1, <2>2
<1>7. DeletesFit'
  <2> SUFFICES ASSUME NEW u \in Ids, AtStage(u, "delete", "handled")'
               PROVE  \/ stored[tasks'[u].site] = 0
                      \/ \E v \in tasks'[u].missed :
                             tasks'[v].kind = "save" /\ tasks'[v].site = tasks'[u].site
    BY <1>1 DEF DeletesFit, AtStage
  <2>1. u # t
    BY <1>1 DEF ReadsNow, AtStage
  <2>2. AtStage(u, "delete", "handled") /\ tasks'[u] = tasks[u]
    BY <1>1, <2>1 DEF AtStage
  <2>3. \/ stored[tasks[u].site] = 0
        \/ \E v \in tasks[u].missed : tasks[v].kind = "save" /\ tasks[v].site = tasks[u].site
    BY <2>2 DEF Fit, DeletesFit
  <2> QED
    BY <1>1, <1>2, <2>2, <2>3
<1> QED
  BY <1>4, <1>5, <1>6, <1>7 DEF Fit

(* A task is begun, and has no answer yet.                                 *)
LEMMA FitBegin ==
    ASSUME Types, Fit, UNCHANGED stored, NEW task \in Tasks, Begin(task),
           task.stage = "sent", task.missed = {}, task.kind # "list" => task.site \in Sites
    PROVE  Fit'
<1> DEFINE n == Len(tasks) + 1
<1>1. /\ Ids' = Ids \cup {n} /\ n \notin Ids /\ tasks'[n] = task
      /\ \A u \in Ids : tasks'[u] = tasks[u]
  BY BeginEffect, TaskFacts
<1>2. \A u \in Ids : \A v \in tasks[u].missed : v \in Ids /\ v # u /\ tasks[v].stage # "sent"
  BY DEF Fit, StagesFit
<1> HIDE DEF n
<1>3. StagesFit'
  BY <1>1, <1>2 DEF Fit, StagesFit, IsChange, Loads, AtStage
<1>4. ListsFit'
  BY <1>1, <1>2 DEF Fit, ListsFit, Loads, AtStage, IsChange
<1>5. GetsFit'
  BY <1>1, <1>2 DEF Fit, GetsFit, AtStage, IsChange
<1>6. DeletesFit'
  BY <1>1, <1>2 DEF Fit, DeletesFit, AtStage
<1> QED
  BY <1>3, <1>4, <1>5, <1>6 DEF Fit

(* A change is carried out: every answer under way misses it.              *)
LEMMA FitChange ==
    ASSUME Types, Fit, NEW t \in Ids, NEW stage \in {"handled", "over"}, Changes(t, stage),
           IsChange(t), tasks[t].stage \in {"sent", "lost"}
    PROVE  Fit' /\ stored' \in [Sites -> Nat]
<1>1. /\ Ids' = Ids /\ tasks'[t] = [tasks[t] EXCEPT !.stage = stage]
      /\ \A u \in Ids : u # t =>
            tasks'[u] = IF Misses(u) THEN [tasks[u] EXCEPT !.missed = tasks[u].missed \cup {t}]
                        ELSE tasks[u]
  BY ChangesEffect DEF TaskStages
<1>2. \A u \in Ids : tasks[u] \in Tasks
  BY TaskFacts
<1>3. ASSUME NEW u \in Ids
      PROVE  /\ tasks'[u].kind = tasks[u].kind /\ tasks'[u].site = tasks[u].site
             /\ tasks'[u].got = tasks[u].got
             /\ u # t => tasks'[u].stage = tasks[u].stage
             /\ \A v : v \in tasks[u].missed => v \in tasks'[u].missed
             /\ \A v : v \in tasks'[u].missed => v \in tasks[u].missed \/ (v = t /\ u # t)
             /\ u # t /\ Misses(u) => t \in tasks'[u].missed
  <2>1. CASE u = t
    BY <1>1, <1>2, <2>1 DEF Tasks
  <2>2. CASE u # t /\ Misses(u)
    <3>1. tasks'[u] = [tasks[u] EXCEPT !.missed = tasks[u].missed \cup {t}]
      BY <1>1, <2>2
    <3>2. tasks[u] \in Tasks
      BY <1>2
    <3>3. /\ tasks'[u].kind = tasks[u].kind /\ tasks'[u].site = tasks[u].site
          /\ tasks'[u].got = tasks[u].got /\ tasks'[u].stage = tasks[u].stage
          /\ tasks'[u].missed = tasks[u].missed \cup {t}
      BY <3>1, <3>2 DEF Tasks
    <3> QED
      BY <2>2, <3>3
  <2>3. CASE u # t /\ ~Misses(u)
    BY <1>1, <2>3
  <2> QED
    BY <2>1, <2>2, <2>3
<1>4. /\ tasks'[t].stage = stage /\ stage # "sent"
      /\ \A u \in Ids : (IsChange(u))' <=> IsChange(u)
  BY <1>1, <1>2, <1>3 DEF Tasks, IsChange
<1>5. tasks[t].site \in Sites /\ t \in Nat
  BY TaskFacts DEF Fit, StagesFit, IsChange
<1>6. /\ stored' \in [Sites -> Nat]
      /\ \A s \in Sites : s # tasks[t].site => stored'[s] = stored[s]
      /\ tasks[t].kind = "delete" => stored'[tasks[t].site] = 0
  BY <1>5 DEF Changes, Types
<1>7. \A u \in Ids : \A v \in tasks[u].missed : v \in Ids /\ v # u /\ tasks[v].stage # "sent"
  BY DEF Fit, StagesFit
<1>8. StagesFit'
  <2> SUFFICES ASSUME NEW u \in Ids
               PROVE  /\ tasks'[u].stage \in {"listing", "listed"} => tasks'[u].kind = "save"
                      /\ tasks'[u].stage = "lost" => IsChange(u)
                      /\ tasks'[u].kind # "list" => tasks'[u].site \in Sites
                      /\ (Loads(u, "handled", "listed"))' => tasks'[u].got \subseteq Sites
                      /\ \A v \in tasks'[u].missed : v \in Ids /\ v # u /\ tasks'[v].stage # "sent"
    BY <1>1, <1>4 DEF StagesFit
  <2>1. /\ tasks'[u].stage \in {"listing", "listed"} => tasks'[u].kind = "save"
        /\ tasks'[u].stage = "lost" => IsChange(u)
        /\ tasks'[u].kind # "list" => tasks'[u].site \in Sites
    BY <1>3, <1>4 DEF Fit, StagesFit
  <2>3. (Loads(u, "handled", "listed"))' => tasks'[u].got \subseteq Sites
    BY <1>3, <1>4 DEF Fit, StagesFit, Loads, AtStage, IsChange
  <2>2. ASSUME NEW v \in tasks'[u].missed PROVE v \in Ids /\ v # u /\ tasks'[v].stage # "sent"
    <3>1. v \in tasks[u].missed \/ (v = t /\ u # t)
      BY <1>3
    <3>2. v \in Ids /\ v # u
      BY <1>7, <3>1
    <3> QED
      BY <1>3, <1>4, <1>7, <3>1, <3>2
  <2> QED
    BY <2>1, <2>2, <2>3
<1>9. ListsFit'
  <2>1. SUFFICES ASSUME NEW u \in Ids, (Loads(u, "handled", "listed"))', NEW s \in Sites
                 PROVE  \/ s \in tasks'[u].got <=> stored'[s] # 0
                        \/ \E v \in tasks'[u].missed : (IsChange(v))' /\ tasks'[v].site = s
    BY <1>1 DEF ListsFit
  <2>2. u # t
    BY <1>3, <1>4, <2>1 DEF Loads, AtStage, IsChange
  <2>3. Loads(u, "handled", "listed") /\ Misses(u) /\ tasks'[u].got = tasks[u].got
    BY <1>3, <2>1, <2>2 DEF Loads, AtStage, Misses
  <2>4. \/ s \in tasks[u].got <=> stored[s] # 0
        \/ \E v \in tasks[u].missed : IsChange(v) /\ tasks[v].site = s
    BY <2>3 DEF Fit, ListsFit
  <2>5. CASE s = tasks[t].site
    BY <1>3, <1>4, <2>2, <2>3, <2>4, <2>5
  <2>6. CASE s # tasks[t].site /\ (s \in tasks[u].got <=> stored[s] # 0)
    BY <1>6, <2>3, <2>4, <2>6
  <2>7. CASE \E v \in tasks[u].missed : IsChange(v) /\ tasks[v].site = s
    <3>1. PICK v \in tasks[u].missed : IsChange(v) /\ tasks[v].site = s
      BY <2>7
    <3>2. v \in Ids /\ v \in tasks'[u].missed
      BY <1>3, <1>7
    <3> QED
      BY <1>3, <1>4, <2>3, <2>4, <3>1, <3>2
  <2> QED
    BY <2>4, <2>5, <2>6, <2>7
<1>10. GetsFit'
  <2>1. SUFFICES ASSUME NEW u \in Ids, (AtStage(u, "get", "handled"))', NEW n \in tasks'[u].got
                 PROVE  /\ n \in Nat
                        /\ \/ stored'[tasks'[u].site] = n
                           \/ \E v \in tasks'[u].missed :
                                  (IsChange(v))' /\ tasks'[v].site = tasks'[u].site
    BY <1>1 DEF GetsFit
  <2>2. u # t
    BY <1>3, <1>4, <2>1 DEF AtStage, IsChange
  <2>3. AtStage(u, "get", "handled") /\ Misses(u) /\ tasks[u].site \in Sites /\ n \in tasks[u].got
    BY <1>3, <2>1, <2>2 DEF AtStage, Misses, Fit, StagesFit
  <2>4. /\ n \in Nat
        /\ \/ stored[tasks[u].site] = n
           \/ \E v \in tasks[u].missed : IsChange(v) /\ tasks[v].site = tasks[u].site
    BY <2>3 DEF Fit, GetsFit
  <2>5. CASE tasks[u].site = tasks[t].site
    BY <1>3, <1>4, <2>2, <2>3, <2>4, <2>5
  <2>6. CASE tasks[u].site # tasks[t].site /\ stored[tasks[u].site] = n
    BY <1>3, <1>6, <2>3, <2>4, <2>6
  <2>7. CASE \E v \in tasks[u].missed : IsChange(v) /\ tasks[v].site = tasks[u].site
    <3>1. PICK v \in tasks[u].missed : IsChange(v) /\ tasks[v].site = tasks[u].site
      BY <2>7
    <3>2. v \in Ids /\ v \in tasks'[u].missed
      BY <1>3, <1>7
    <3> QED
      BY <1>3, <1>4, <2>4, <3>1, <3>2
  <2> QED
    BY <2>4, <2>5, <2>6, <2>7
<1>11. DeletesFit'
  <2>1. SUFFICES ASSUME NEW u \in Ids, (AtStage(u, "delete", "handled"))'
                 PROVE  \/ stored'[tasks'[u].site] = 0
                        \/ \E v \in tasks'[u].missed :
                               tasks'[v].kind = "save" /\ tasks'[v].site = tasks'[u].site
    BY <1>1 DEF DeletesFit
  <2>2. CASE u = t
    BY <1>3, <1>6, <2>1, <2>2 DEF AtStage
  <2>3. CASE u # t
    <3>1. AtStage(u, "delete", "handled") /\ Misses(u) /\ tasks[u].site \in Sites
      BY <1>3, <2>1, <2>3 DEF AtStage, Misses, Fit, StagesFit
    <3>2. \/ stored[tasks[u].site] = 0
          \/ \E v \in tasks[u].missed : tasks[v].kind = "save" /\ tasks[v].site = tasks[u].site
      BY <3>1 DEF Fit, DeletesFit
    <3>3. CASE tasks[u].site = tasks[t].site /\ tasks[t].kind = "delete"
      BY <1>3, <1>6, <3>3
    <3>4. CASE tasks[u].site = tasks[t].site /\ tasks[t].kind = "save"
      BY <1>3, <2>3, <3>1, <3>4
    <3>5. CASE tasks[u].site # tasks[t].site /\ stored[tasks[u].site] = 0
      BY <1>3, <1>6, <3>1, <3>5
    <3>6. CASE \E v \in tasks[u].missed : tasks[v].kind = "save" /\ tasks[v].site = tasks[u].site
      <4>1. PICK v \in tasks[u].missed : tasks[v].kind = "save" /\ tasks[v].site = tasks[u].site
        BY <3>6
      <4>2. v \in Ids /\ v \in tasks'[u].missed
        BY <1>3, <1>7
      <4> QED
        BY <1>3, <4>1, <4>2
    <3> QED
      BY <3>2, <3>3, <3>4, <3>5, <3>6 DEF IsChange
  <2> QED
    BY <2>2, <2>3
<1> QED
  BY <1>6, <1>8, <1>9, <1>10, <1>11 DEF Fit

-----------------------------------------------------------------------------
(* The invariant is inductive: one lemma for each kind of step.            *)

LEMMA VInvInit == ASSUME Init PROVE VInv
<1>1. /\ Len(tasks) = 1 /\ Ids = {1} /\ tasks[1] = Task("list", NoSite, FALSE)
      /\ Task("list", NoSite, FALSE) \in Tasks
  BY DEF Init, Ids, Task, Tasks, Kinds, TaskStages
<1>2. Types
  <2>1. stored \in [Sites -> Nat]
    BY DEF Init
  <2>2. tasks \in Seq(Tasks)
    <3>1. \A task \in Tasks : <<task>> \in Seq(Tasks)
      OBVIOUS
    <3> QED
      BY <1>1, <3>1 DEF Init
  <2>3. loading \in BOOLEAN /\ listOff \in BOOLEAN /\ viewOff \in BOOLEAN
    BY Zenon DEF Init
  <2>4. /\ sites \subseteq Sites /\ panel \in {"list", "add", "view"}
        /\ selected \in [site : Sites, version : Nat] \cup {NoEntry}
        /\ saving \in 0..Len(tasks) /\ faults \in Nat
    BY <1>1 DEF Init
  <2> QED
    BY <2>1, <2>2, <2>3, <2>4 DEF Types
<1>3. /\ tasks[1].kind = "list" /\ tasks[1].stage = "sent" /\ tasks[1].missed = {}
  BY <1>1 DEF Task
<1>4. StagesFit /\ ListsFit /\ GetsFit /\ DeletesFit
  BY <1>1, <1>3 DEF StagesFit, ListsFit, GetsFit, DeletesFit, Loads, AtStage
<1>5. SavingFits /\ ListExplained /\ ViewExplained /\ NeverStuck
  BY <1>1, <1>3 DEF Init, SavingFits, ListExplained, ViewExplained, NeverStuck, UnderWay
<1> QED
  BY <1>2, <1>4, <1>5 DEF VInv

(* A step of the user that begins a call.                                  *)
LEMMA BeginStep ==
    ASSUME VInv, NEW task \in Tasks, Begin(task), task.stage = "sent", task.missed = {},
           task.kind # "list" => task.site \in Sites,
           task.kind = "delete" /\ Selected(task.site) => task.forSelected,
           UNCHANGED <<stored, sites, panel, selected, listOff, viewOff, faults>>,
           loading' = loading \/ (loading' = TRUE /\ task.kind = "list"),
           saving' = saving \/ (saving' = Len(tasks) + 1 /\ task.kind = "save" /\ panel = "add")
    PROVE  VInv'
<1>0. PICK n : n = Len(tasks) + 1
  OBVIOUS
<1>1. /\ Types /\ Fit
  BY DEF VInv, Fit
<1>2. /\ Ids' = Ids \cup {n} /\ n \notin Ids /\ tasks'[n] = task /\ n \in Ids'
      /\ \A u \in Ids : tasks'[u] = tasks[u]
      /\ tasks' \in Seq(Tasks) /\ Len(tasks') = n /\ n \in Nat \ {0}
      /\ saving \in Ids \cup {0}
  BY <1>0, <1>1, BeginEffect, TaskFacts DEF Types, Ids
<1>3. Fit'
  BY <1>1, FitBegin
<1>4. Types'
  <2>1. saving' \in 0..n
    BY <1>0, <1>1, <1>2 DEF Types, Ids
  <2>2. loading' \in BOOLEAN
    BY <1>1 DEF Types
  <2> QED
    BY <1>1, <1>2, <2>1, <2>2 DEF Types
<1>5. \A u \in Ids : \A s : Pending(u, s) => (Pending(u, s))'
  BY <1>2 DEF Pending, IsChange
<1>6. \A u \in Ids : UnderWay(u) => (UnderWay(u))'
  BY <1>2 DEF UnderWay
<1>7. (UnderWay(n))'
  BY <1>2 DEF UnderWay
<1>8. SavingFits'
  BY <1>0, <1>2 DEF VInv, SavingFits
<1>9. ListExplained'
  BY <1>2, <1>5 DEF VInv, ListExplained
<1>10. ViewExplained'
  <2> SUFFICES ASSUME selected # NoEntry, ~viewOff
               PROVE  ViewExplained'
    BY DEF ViewExplained
  <2>1. panel = "view" => \/ stored[selected.site] = selected.version
                          \/ \E u \in Ids : Pending(u, selected.site)
    BY DEF VInv, ViewExplained
  <2>2. \A t \in Ids' : /\ tasks'[t].kind = "delete" /\ tasks'[t].site = selected.site
                        /\ tasks'[t].stage \in {"sent", "handled"}
                        => tasks'[t].forSelected
    BY <1>2 DEF VInv, ViewExplained, Selected
  <2>3. (\E u \in Ids : Pending(u, selected.site)) => (\E u \in Ids : Pending(u, selected.site))'
    BY <1>2, <1>5 DEF Pending, IsChange
  <2> QED
    BY <2>1, <2>2, <2>3 DEF ViewExplained
<1>11. NeverStuck'
  <2>1. loading' => \E t \in Ids' : (UnderWay(t))' /\ (tasks'[t].kind = "list" \/
                                                     tasks'[t].stage \in {"listing", "listed"})
    <3>1. CASE loading
      <4>1. PICK t \in Ids : UnderWay(t) /\ (tasks[t].kind = "list" \/
                                             tasks[t].stage \in {"listing", "listed"})
        BY <3>1 DEF VInv, NeverStuck
      <4> QED
        BY <1>2, <1>6, <4>1
    <3>2. CASE loading' /\ ~loading
      BY <1>2, <1>7, <3>2
    <3> QED
      BY <3>1, <3>2
  <2>2. saving' # 0 => panel' = "add" /\ tasks'[saving'].stage \notin {"lost", "over"}
    BY <1>0, <1>2 DEF VInv, NeverStuck, UnderWay
  <2> QED
    BY <2>1, <2>2 DEF NeverStuck, UnderWay
<1> QED
  BY <1>3, <1>4, <1>8, <1>9, <1>10, <1>11 DEF VInv, Fit

LEMMA BeginTasks ==
    ASSUME NEW s \in Sites, NEW k \in {"get", "save"}
    PROVE  /\ Task(k, s, FALSE) \in Tasks
           /\ Task(k, s, FALSE).kind = k /\ Task(k, s, FALSE).site = s
           /\ Task(k, s, FALSE).stage = "sent" /\ Task(k, s, FALSE).missed = {}
BY DEF Task, Tasks, Kinds, TaskStages

LEMMA UserBegins ==
    ASSUME VInv, Refresh \/ \E s \in Sites : OpenSite(s) \/ DeleteSite(s) \/ SaveEntry(s)
    PROVE  VInv'
<1>1. CASE Refresh
  <2>1. /\ Task("list", NoSite, FALSE) \in Tasks /\ Task("list", NoSite, FALSE).kind = "list"
        /\ Task("list", NoSite, FALSE).stage = "sent" /\ Task("list", NoSite, FALSE).missed = {}
    BY DEF Task, Tasks, Kinds, TaskStages
  <2> QED
    BY <1>1, <2>1, BeginStep DEF Refresh
<1>2. ASSUME NEW s \in Sites, OpenSite(s) PROVE VInv'
  <2>1. PICK task : task = Task("get", s, FALSE)
    OBVIOUS
  <2>2. /\ task \in Tasks /\ task.kind = "get" /\ task.site = s
        /\ task.stage = "sent" /\ task.missed = {}
    BY <2>1, BeginTasks
  <2> QED
    BY <1>2, <2>1, <2>2, BeginStep DEF OpenSite, screen
<1>3. ASSUME NEW s \in Sites, DeleteSite(s) PROVE VInv'
  <2>1. PICK b \in BOOLEAN : b = Selected(s)
    BY Zenon DEF Selected
  <2>2. PICK task : task = Task("delete", s, b)
    OBVIOUS
  <2>3. /\ task \in Tasks /\ task.kind = "delete" /\ task.site = s
        /\ task.stage = "sent" /\ task.missed = {}
    BY <2>2 DEF Task, Tasks, Kinds, TaskStages
  <2>4. task.kind = "delete" /\ Selected(task.site) => task.forSelected
    <3>1. task.forSelected = b
      BY <2>2 DEF Task
    <3> QED
      BY <2>1, <2>3, <3>1, Zenon
  <2>5. /\ Begin(task)
        /\ UNCHANGED <<stored, sites, panel, selected, listOff, viewOff, faults>>
        /\ loading' = loading \/ (loading' = TRUE /\ task.kind = "list")
        /\ saving' = saving \/ (saving' = Len(tasks) + 1 /\ task.kind = "save" /\ panel = "add")
    BY <1>3, <2>1, <2>2 DEF DeleteSite, screen
  <2>6. task.kind # "list" => task.site \in Sites
    BY <2>3
  <2> QED
    BY <2>3, <2>4, <2>5, <2>6, BeginStep, Zenon
<1>4. ASSUME NEW s \in Sites, SaveEntry(s) PROVE VInv'
  <2>1. PICK task : task = Task("save", s, FALSE)
    OBVIOUS
  <2>2. /\ task \in Tasks /\ task.kind = "save" /\ task.site = s
        /\ task.stage = "sent" /\ task.missed = {}
    BY <2>1, BeginTasks
  <2> QED
    BY <1>4, <2>1, <2>2, BeginStep DEF SaveEntry
<1> QED
  BY <1>1, <1>2, <1>3, <1>4

(* A step of the user that shows another panel.                            *)
LEMMA UserShows ==
    ASSUME VInv, ToggleAdd \/ CancelAdd \/ CloseView
    PROVE  VInv'
<1>1. /\ UNCHANGED <<stored, tasks, sites, loading, listOff, viewOff, faults>>
      /\ panel' \in {"list", "add"} /\ selected' \in {selected, NoEntry}
      /\ saving' \in {0, saving} /\ (saving' # 0 => panel' = "add" /\ saving' = saving)
  BY DEF ToggleAdd, CancelAdd, CloseView, SetPanel
<1>2. Types'
  BY <1>1 DEF VInv, Types
<1>3. Fit'
  BY <1>1 DEF VInv, Fit, StagesFit, ListsFit, GetsFit, DeletesFit, Ids, IsChange, Loads, AtStage
<1>4. SavingFits'
  BY <1>1 DEF VInv, SavingFits
<1>5. ListExplained'
  BY <1>1 DEF VInv, ListExplained, Pending, Ids, IsChange
<1>6. ViewExplained'
  BY <1>1 DEF VInv, ViewExplained, Pending, Ids, IsChange
<1>7. NeverStuck'
  BY <1>1 DEF VInv, NeverStuck, UnderWay, Ids
<1> QED
  BY <1>2, <1>3, <1>4, <1>5, <1>6, <1>7 DEF VInv, Fit

(* What every step of task t leaves of the tasks.                          *)
Advances(t, stage) ==
    /\ tasks' \in Seq(Tasks) /\ Len(tasks') = Len(tasks) /\ Ids' = Ids
    /\ \A u \in Ids : /\ tasks'[u].kind = tasks[u].kind /\ tasks'[u].site = tasks[u].site
                      /\ tasks'[u].forSelected = tasks[u].forSelected
                      /\ u # t => tasks'[u].stage = tasks[u].stage
    /\ tasks'[t].stage = stage

LEMMA ReadsAdvance ==
    ASSUME VInv, UNCHANGED stored, NEW t \in Ids, NEW answer \in SUBSET (Sites \cup Nat),
           NEW stage \in {"handled", "listed"}, Reads(t, answer, stage),
           tasks[t].kind \in {"list", "save"} => answer = {s \in Sites : stored[s] # 0},
           tasks[t].kind = "get" => answer = {stored[tasks[t].site]} \ {0},
           tasks[t].kind # "delete", stage = "listed" => tasks[t].kind = "save"
    PROVE  Fit' /\ Advances(t, stage)
<1>1. Types /\ Fit /\ tasks[t] \in Tasks
  BY TaskFacts DEF VInv, Fit
<1>2. PICK new : new = [tasks[t] EXCEPT !.got = answer, !.stage = stage, !.missed = {}]
  OBVIOUS
<1>3. /\ new \in Tasks
      /\ new.kind = tasks[t].kind /\ new.site = tasks[t].site
      /\ new.forSelected = tasks[t].forSelected
      /\ new.got = answer /\ new.stage = stage /\ new.missed = {}
  BY <1>1, <1>2, Zenon DEF Tasks, TaskStages
<1>4. Only(t, new)
  BY <1>1, <1>2, ReadsEffect, Zenon DEF TaskStages
<1>5. ReadsNow(new)
  BY <1>3 DEF ReadsNow
<1>6. Fit'
  BY <1>1, <1>3, <1>4, <1>5, FitUpdate
<1> QED
  BY <1>3, <1>4, <1>6 DEF Only, Advances

LEMMA EndsAdvance ==
    ASSUME VInv, UNCHANGED stored, NEW t \in Ids, Ends(t)
    PROVE  Fit' /\ Advances(t, "over")
<1>1. Types /\ Fit /\ tasks[t] \in Tasks
  BY TaskFacts DEF VInv, Fit
<1>2. PICK new : new = [tasks[t] EXCEPT !.stage = "over", !.got = {}]
  OBVIOUS
<1>3. /\ new \in Tasks
      /\ new.kind = tasks[t].kind /\ new.site = tasks[t].site
      /\ new.forSelected = tasks[t].forSelected
      /\ new.stage = "over" /\ new.missed = tasks[t].missed
  BY <1>1, <1>2 DEF Tasks, TaskStages
<1>4. Only(t, new)
  BY <1>1, <1>2, EndsEffect
<1>5. Fit'
  BY <1>1, <1>3, <1>4, FitUpdate
<1> QED
  BY <1>3, <1>4, <1>5 DEF Only, Advances

LEMMA StageAdvances ==
    ASSUME VInv, UNCHANGED stored, NEW t \in Ids, NEW stage \in {"listing", "lost"},
           tasks' = [tasks EXCEPT ![t].stage = stage],
           stage = "listing" => tasks[t].kind = "save", IsChange(t)
    PROVE  Fit' /\ Advances(t, stage)
<1>1. Types /\ Fit /\ tasks[t] \in Tasks
  BY TaskFacts DEF VInv, Fit
<1>2. PICK new : new = [tasks[t] EXCEPT !.stage = stage]
  OBVIOUS
<1>3. /\ new \in Tasks
      /\ new.kind = tasks[t].kind /\ new.site = tasks[t].site
      /\ new.forSelected = tasks[t].forSelected
      /\ new.stage = stage /\ new.missed = tasks[t].missed
  BY <1>1, <1>2 DEF Tasks, TaskStages
<1>4. Only(t, new)
  BY <1>1, <1>2, StageEffect DEF TaskStages
<1>5. Fit'
  BY <1>1, <1>3, <1>4, FitUpdate DEF IsChange
<1> QED
  BY <1>3, <1>4, <1>5 DEF Only, Advances

LEMMA ChangeAdvances ==
    ASSUME VInv, NEW t \in Ids, NEW stage \in {"handled", "over"}, Changes(t, stage),
           IsChange(t), tasks[t].stage \in {"sent", "lost"}
    PROVE  /\ Fit' /\ Advances(t, stage) /\ stored' \in [Sites -> Nat]
           /\ \A s \in Sites : s # tasks[t].site => stored'[s] = stored[s]
<1>1. Types /\ Fit /\ \A u \in Ids : tasks[u] \in Tasks
  BY TaskFacts DEF VInv, Fit
<1>2. /\ tasks' \in Seq(Tasks) /\ Len(tasks') = Len(tasks) /\ Ids' = Ids
      /\ tasks'[t] = [tasks[t] EXCEPT !.stage = stage]
      /\ \A u \in Ids : u # t =>
            tasks'[u] = IF Misses(u) THEN [tasks[u] EXCEPT !.missed = tasks[u].missed \cup {t}]
                        ELSE tasks[u]
  BY <1>1, ChangesEffect DEF TaskStages
<1>3. ASSUME NEW u \in Ids
      PROVE  /\ tasks'[u].kind = tasks[u].kind /\ tasks'[u].site = tasks[u].site
             /\ tasks'[u].forSelected = tasks[u].forSelected
             /\ u # t => tasks'[u].stage = tasks[u].stage
  <2>1. CASE u = t
    BY <1>1, <1>2, <2>1 DEF Tasks
  <2>2. CASE u # t /\ Misses(u)
    <3>1. tasks'[u] = [tasks[u] EXCEPT !.missed = tasks[u].missed \cup {t}] /\ tasks[u] \in Tasks
      BY <1>1, <1>2, <2>2
    <3> QED
      BY <2>2, <3>1 DEF Tasks
  <2>3. CASE u # t /\ ~Misses(u)
    BY <1>2, <2>3
  <2> QED
    BY <2>1, <2>2, <2>3
<1>4. tasks'[t].stage = stage
  BY <1>1, <1>2 DEF Tasks
<1>5. Fit' /\ stored' \in [Sites -> Nat]
  BY <1>1, FitChange
<1>6. \A s \in Sites : s # tasks[t].site => stored'[s] = stored[s]
  BY <1>1 DEF Changes, Types
<1> QED
  BY <1>2, <1>3, <1>4, <1>5, <1>6 DEF Advances

(* The calls other than t are as pending, and as much under way, as they   *)
(* were.                                                                   *)
LEMMA OthersStay ==
    ASSUME NEW t \in Ids, NEW stage, Advances(t, stage), NEW u \in Ids, u # t
    PROVE  /\ \A s : Pending(u, s) => (Pending(u, s))'
           /\ UnderWay(u) => (UnderWay(u))'
BY DEF Advances, Pending, IsChange, UnderWay

LEMMA SavingStays ==
    ASSUME VInv, NEW t \in Ids, NEW stage, Advances(t, stage), saving' \in {0, saving}
    PROVE  SavingFits' /\ saving' \in 0..Len(tasks')
<1>1. saving \in 0..Len(tasks) /\ Len(tasks) \in Nat /\ Ids = 1..Len(tasks)
  BY TaskFacts DEF VInv, Types
<1>2. saving' \in 0..Len(tasks')
  BY <1>1 DEF Advances
<1>3. SavingFits'
  BY <1>1 DEF VInv, SavingFits, Advances
<1> QED
  BY <1>2, <1>3

(* A read by the gateway moves nothing on the screen.                      *)
LEMMA ReadStep ==
    ASSUME VInv, NEW t \in Ids, NEW stage \in {"handled", "listed"},
           Fit', Advances(t, stage), UNCHANGED <<stored, screen, listOff, viewOff, faults>>,
           tasks[t].stage \in {"sent", "listing"}, tasks[t].kind # "delete",
           tasks[t].stage = "listing" => stage = "listed",
           tasks[t].kind = "save" => tasks[t].stage = "listing"
    PROVE  VInv'
<1>1. UNCHANGED <<sites, loading, panel, selected, saving>> /\ Ids' = Ids
  BY DEF screen, Advances
<1>2. SavingFits' /\ saving' \in 0..Len(tasks')
  BY <1>1, SavingStays
<1>3. Types'
  BY <1>1, <1>2 DEF VInv, Types, Advances
<1>4. \A u \in Ids : /\ \A s : Pending(u, s) => (Pending(u, s))'
                     /\ UnderWay(u) => (UnderWay(u))'
  <2>1. /\ \A s : Pending(t, s) => (Pending(t, s))'
        /\ UnderWay(t) => (UnderWay(t))'
    BY DEF Advances, Pending, IsChange, UnderWay
  <2> QED
    BY <2>1, OthersStay
<1>5. ListExplained'
  BY <1>1, <1>4 DEF VInv, ListExplained
<1>6. ViewExplained'
  <2> SUFFICES ASSUME selected # NoEntry, ~viewOff
               PROVE  ViewExplained'
    BY <1>1 DEF ViewExplained
  <2>1. panel' = "view" => \/ stored'[selected'.site] = selected'.version
                           \/ \E u \in Ids' : (Pending(u, selected.site))'
    BY <1>1, <1>4 DEF VInv, ViewExplained
  <2>2. \A u \in Ids' : /\ tasks'[u].kind = "delete" /\ tasks'[u].site = selected'.site
                        /\ tasks'[u].stage \in {"sent", "handled"}
                        => tasks'[u].forSelected
    BY <1>1 DEF VInv, ViewExplained, Advances
  <2> QED
    BY <1>1, <2>1, <2>2 DEF ViewExplained
<1>7. NeverStuck'
  <2>1. ASSUME loading
        PROVE  \E u \in Ids : (UnderWay(u))' /\ (tasks'[u].kind = "list" \/
                                                 tasks'[u].stage \in {"listing", "listed"})
    <3>1. PICK u \in Ids : UnderWay(u) /\ (tasks[u].kind = "list" \/
                                           tasks[u].stage \in {"listing", "listed"})
      BY <2>1 DEF VInv, NeverStuck
    <3> QED
      BY <1>4, <3>1 DEF Advances
  <2>2. saving # 0 => panel = "add" /\ (UnderWay(saving))'
    BY <1>1, <1>4, TaskFacts DEF VInv, NeverStuck, Types
  <2> QED
    BY <1>1, <2>1, <2>2 DEF NeverStuck
<1> QED
  BY <1>2, <1>3, <1>5, <1>6, <1>7 DEF VInv, Fit

LEMMA GatewayReads ==
    ASSUME VInv, NEW t \in Ids, HandleList(t) \/ HandleGet(t)
    PROVE  VInv'
<1>1. CASE HandleList(t)
  <2>1. PICK answer : answer = {s \in Sites : stored[s] # 0}
    OBVIOUS
  <2>2. PICK stage : stage = IF tasks[t].kind = "list" THEN "handled" ELSE "listed"
    OBVIOUS
  <2>3. UNCHANGED <<stored, screen, listOff, viewOff, faults>> /\ Reads(t, answer, stage)
    BY <1>1, <2>1, <2>2 DEF HandleList
  <2>4. /\ answer \in SUBSET (Sites \cup Nat) /\ stage \in {"handled", "listed"}
        /\ tasks[t].kind \in {"list", "save"}
        /\ stage = "listed" => tasks[t].kind = "save"
        /\ tasks[t].stage \in {"sent", "listing"}
        /\ tasks[t].stage = "listing" => stage = "listed"
        /\ tasks[t].kind = "save" => tasks[t].stage = "listing"
    BY <1>1, <2>1, <2>2 DEF HandleList, Loads, AtStage, VInv, StagesFit
  <2>5. Fit' /\ Advances(t, stage)
    BY <2>1, <2>3, <2>4, ReadsAdvance
  <2> QED
    BY <2>3, <2>4, <2>5, ReadStep
<1>2. CASE HandleGet(t)
  <2>1. PICK answer : answer = {stored[tasks[t].site]} \ {0}
    OBVIOUS
  <2>2. UNCHANGED <<stored, screen, listOff, viewOff, faults>> /\ Reads(t, answer, "handled")
    BY <1>2, <2>1 DEF HandleGet
  <2>3. tasks[t].kind = "get" /\ tasks[t].stage = "sent" /\ tasks[t].site \in Sites
    BY <1>2 DEF HandleGet, AtStage, VInv, StagesFit
  <2>4. answer \in SUBSET (Sites \cup Nat)
    BY <2>1, <2>3 DEF VInv, Types
  <2>5. Fit' /\ Advances(t, "handled")
    BY <2>1, <2>2, <2>3, <2>4, ReadsAdvance
  <2> QED
    BY <2>2, <2>3, <2>5, ReadStep
<1> QED
  BY <1>1, <1>2

(* A change of the vault: its site differs from what is shown until it is  *)
(* answered.                                                               *)
LEMMA GatewayChanges ==
    ASSUME VInv, NEW t \in Ids, HandleChange(t)
    PROVE  VInv'
<1>1. /\ UNCHANGED <<sites, loading, panel, selected, saving, listOff, viewOff, faults>>
      /\ IsChange(t) /\ tasks[t].stage = "sent" /\ Changes(t, "handled")
  BY DEF HandleChange, screen, AtStage, IsChange
<1>2. /\ Fit' /\ Advances(t, "handled") /\ stored' \in [Sites -> Nat]
      /\ \A s \in Sites : s # tasks[t].site => stored'[s] = stored[s]
  BY <1>1, ChangeAdvances
<1>3. Ids' = Ids
  BY <1>2 DEF Advances
<1>4. SavingFits' /\ saving' \in 0..Len(tasks')
  BY <1>1, <1>2, SavingStays
<1>5. Types'
  BY <1>1, <1>2, <1>4 DEF VInv, Types, Advances
<1>6. \A u \in Ids : /\ \A s : Pending(u, s) => (Pending(u, s))'
                     /\ UnderWay(u) => (UnderWay(u))'
  <2>1. /\ \A s : ~Pending(t, s)
        /\ UnderWay(t) => (UnderWay(t))'
    BY <1>1, <1>2 DEF Advances, Pending, UnderWay
  <2> QED
    BY <1>2, <2>1, OthersStay
<1>7. \A s : s = tasks[t].site => (Pending(t, s))'
  BY <1>1, <1>2 DEF Pending, IsChange, Advances
<1>8. ListExplained'
  BY <1>1, <1>2, <1>3, <1>6, <1>7 DEF VInv, ListExplained
<1>9. ViewExplained'
  <2> SUFFICES ASSUME selected # NoEntry, ~viewOff
               PROVE  ViewExplained'
    BY <1>1 DEF ViewExplained
  <2>1. selected.site \in Sites
    BY DEF VInv, Types
  <2>2. panel = "view" => \/ stored'[selected.site] = selected.version
                          \/ \E u \in Ids : (Pending(u, selected.site))'
    <3> SUFFICES ASSUME panel = "view", stored'[selected.site] # selected.version
                 PROVE  \E u \in Ids : (Pending(u, selected.site))'
      OBVIOUS
    <3>1. CASE selected.site = tasks[t].site
      BY <1>1, <1>7, <3>1 DEF Pending
    <3>2. CASE selected.site # tasks[t].site
      <4>1. PICK u \in Ids : Pending(u, selected.site)
        BY <1>2, <2>1, <3>2 DEF VInv, ViewExplained
      <4> QED
        BY <1>1, <1>6, <4>1 DEF Pending
    <3> QED
      BY <3>1, <3>2
  <2>3. \A u \in Ids : /\ tasks'[u].kind = "delete" /\ tasks'[u].site = selected.site
                       /\ tasks'[u].stage \in {"sent", "handled"}
                       => tasks'[u].forSelected
    BY <1>1, <1>2 DEF VInv, ViewExplained, Advances
  <2> QED
    BY <1>1, <1>3, <2>2, <2>3 DEF ViewExplained
<1>10. NeverStuck'
  <2>1. ASSUME loading
        PROVE  \E u \in Ids : (UnderWay(u))' /\ (tasks'[u].kind = "list" \/
                                                 tasks'[u].stage \in {"listing", "listed"})
    <3>1. PICK u \in Ids : UnderWay(u) /\ (tasks[u].kind = "list" \/
                                           tasks[u].stage \in {"listing", "listed"})
      BY <2>1 DEF VInv, NeverStuck
    <3> QED
      BY <1>1, <1>2, <1>6, <3>1 DEF Advances
  <2>2. saving # 0 => panel = "add" /\ (UnderWay(saving))'
    BY <1>1, <1>6, TaskFacts DEF VInv, NeverStuck, Types
  <2> QED
    BY <1>1, <1>3, <2>1, <2>2 DEF NeverStuck
<1> QED
  BY <1>2, <1>4, <1>5, <1>8, <1>9, <1>10 DEF VInv, Fit

(* A lost request arrives.                                                 *)
LEMMA LostChanges ==
    ASSUME VInv, NEW t \in Ids, HandleLost(t)
    PROVE  VInv'
<1>1. /\ UNCHANGED <<sites, loading, panel, selected, saving, faults>>
      /\ IsChange(t) /\ tasks[t].stage = "lost" /\ Changes(t, "over")
      /\ listOff' = TRUE /\ viewOff' = (viewOff \/ Selected(tasks[t].site))
  BY DEF HandleLost, screen, VInv, StagesFit
<1>2. /\ Fit' /\ Advances(t, "over") /\ stored' \in [Sites -> Nat]
      /\ \A s \in Sites : s # tasks[t].site => stored'[s] = stored[s]
  BY <1>1, ChangeAdvances
<1>3. Ids' = Ids
  BY <1>2 DEF Advances
<1>4. SavingFits' /\ saving' \in 0..Len(tasks')
  BY <1>1, <1>2, SavingStays
<1>5. Types'
  <2>1. listOff' \in BOOLEAN /\ viewOff' \in BOOLEAN
    BY <1>1
  <2> QED
    BY <1>1, <1>2, <1>4, <2>1 DEF VInv, Types, Advances
<1>6. \A u \in Ids : /\ \A s : Pending(u, s) => (Pending(u, s))'
                     /\ UnderWay(u) => (UnderWay(u))'
  <2>1. /\ \A s : ~Pending(t, s)
        /\ ~UnderWay(t)
    BY <1>1 DEF Pending, UnderWay
  <2> QED
    BY <1>2, <2>1, OthersStay
<1>7. ListExplained'
  BY <1>1 DEF ListExplained
<1>8. ViewExplained'
  <2> SUFFICES ASSUME selected # NoEntry, ~viewOff, ~Selected(tasks[t].site)
               PROVE  ViewExplained'
    BY <1>1 DEF ViewExplained
  <2>1. selected.site \in Sites /\ selected.site # tasks[t].site
    BY DEF VInv, Types, Selected
  <2>2. panel = "view" => \/ stored'[selected.site] = selected.version
                          \/ \E u \in Ids : (Pending(u, selected.site))'
    <3> SUFFICES ASSUME panel = "view", stored'[selected.site] # selected.version
                 PROVE  \E u \in Ids : (Pending(u, selected.site))'
      OBVIOUS
    <3>1. PICK u \in Ids : Pending(u, selected.site)
      BY <1>2, <2>1 DEF VInv, ViewExplained
    <3> QED
      BY <1>1, <1>6, <3>1 DEF Pending
  <2>3. \A u \in Ids : /\ tasks'[u].kind = "delete" /\ tasks'[u].site = selected.site
                       /\ tasks'[u].stage \in {"sent", "handled"}
                       => tasks'[u].forSelected
    BY <1>1, <1>2, <2>1 DEF VInv, ViewExplained, Advances
  <2> QED
    BY <1>1, <1>3, <2>2, <2>3 DEF ViewExplained
<1>9. NeverStuck'
  <2>1. ASSUME loading
        PROVE  \E u \in Ids : (UnderWay(u))' /\ (tasks'[u].kind = "list" \/
                                                 tasks'[u].stage \in {"listing", "listed"})
    <3>1. PICK u \in Ids : UnderWay(u) /\ (tasks[u].kind = "list" \/
                                           tasks[u].stage \in {"listing", "listed"})
      BY <2>1 DEF VInv, NeverStuck
    <3> QED
      BY <1>1, <1>2, <1>6, <3>1 DEF Advances, UnderWay
  <2>2. saving # 0 => panel = "add" /\ (UnderWay(saving))'
    BY <1>1, <1>6, TaskFacts DEF VInv, NeverStuck, Types
  <2> QED
    BY <1>1, <1>3, <2>1, <2>2 DEF NeverStuck
<1> QED
  BY <1>2, <1>4, <1>5, <1>7, <1>8, <1>9 DEF VInv, Fit

(* A list that is shown has every change but those still to be answered.   *)
LEMMA ListShown ==
    ASSUME VInv, NEW t \in Ids, ListAnswered(t)
    PROVE  VInv'
<1>1. /\ UNCHANGED <<stored, selected, viewOff, faults>>
      /\ Loads(t, "handled", "listed") /\ Ends(t)
      /\ sites' = tasks[t].got /\ loading' = FALSE /\ listOff' = Late(t)
      /\ \/ tasks[t].kind = "save" /\ panel' = "list" /\ saving' = 0
         \/ tasks[t].kind = "list" /\ panel' = panel /\ saving' = saving
  BY DEF ListAnswered, AnswerSites, SetPanel, Loads, AtStage
<1>2. Fit' /\ Advances(t, "over") /\ Ids' = Ids
  BY <1>1, EndsAdvance DEF Advances
<1>3. SavingFits' /\ saving' \in 0..Len(tasks')
  BY <1>1, <1>2, SavingStays
<1>4. Types'
  <2>1. loading' \in BOOLEAN /\ listOff' \in BOOLEAN
    BY <1>1, Zenon DEF Late
  <2>2. sites' \subseteq Sites
    BY <1>1 DEF VInv, StagesFit
  <2> QED
    BY <1>1, <1>2, <1>3, <2>1, <2>2 DEF VInv, Types, Advances
<1>5. ListExplained'
  <2> SUFFICES ASSUME ~Late(t), NEW s \in Sites, ~(s \in sites' <=> stored'[s] # 0)
               PROVE  \E u \in Ids : (Pending(u, s))'
    BY <1>1, <1>2 DEF ListExplained
  <2>1. PICK u \in tasks[t].missed : IsChange(u) /\ tasks[u].site = s
    BY <1>1 DEF VInv, ListsFit
  <2>2. u \in Ids /\ u # t /\ tasks[u].stage = "handled"
    BY <1>1 DEF VInv, StagesFit, Late
  <2>3. Pending(u, s)
    BY <2>1, <2>2 DEF Pending
  <2> QED
    BY <1>2, <2>2, <2>3, OthersStay
<1>6. ViewExplained'
  <2> SUFFICES ASSUME selected # NoEntry, ~viewOff
               PROVE  ViewExplained'
    BY <1>1 DEF ViewExplained
  <2>1. panel' = "view" => \/ stored[selected.site] = selected.version
                           \/ \E u \in Ids : (Pending(u, selected.site))'
    <3> SUFFICES ASSUME panel' = "view", stored[selected.site] # selected.version
                 PROVE  \E u \in Ids : (Pending(u, selected.site))'
      OBVIOUS
    <3>1. tasks[t].kind = "list" /\ panel = "view"
      BY <1>1
    <3>2. PICK u \in Ids : Pending(u, selected.site)
      BY <3>1 DEF VInv, ViewExplained
    <3>3. u # t
      BY <3>1, <3>2 DEF Pending, IsChange
    <3>4. PICK s : s = selected.site
      OBVIOUS
    <3>5. (Pending(u, s))'
      BY <1>2, <3>2, <3>3, <3>4, OthersStay
    <3> QED
      BY <1>1, <3>4, <3>5
  <2>2. \A u \in Ids : /\ tasks'[u].kind = "delete" /\ tasks'[u].site = selected.site
                       /\ tasks'[u].stage \in {"sent", "handled"}
                       => tasks'[u].forSelected
    BY <1>1, <1>2 DEF VInv, ViewExplained, Advances
  <2> QED
    BY <1>1, <1>2, <2>1, <2>2 DEF ViewExplained
<1>7. NeverStuck'
  <2>1. ASSUME saving' # 0 PROVE panel' = "add" /\ (UnderWay(saving))'
    <3>1. tasks[t].kind = "list" /\ saving # 0 /\ saving' = saving
      BY <1>1, <2>1
    <3>2. saving # t /\ saving \in Ids /\ UnderWay(saving) /\ panel = "add"
      BY <3>1, TaskFacts DEF VInv, SavingFits, NeverStuck, Types
    <3> QED
      BY <1>1, <1>2, <3>1, <3>2, OthersStay
  <2> QED
    BY <1>1, <2>1 DEF NeverStuck
<1> QED
  BY <1>2, <1>3, <1>4, <1>5, <1>6, <1>7 DEF VInv, Fit

(* What loading and saving wait for is another call than t.                *)
LEMMA WaitsKept ==
    ASSUME VInv, NEW t \in Ids, NEW stage, Advances(t, stage),
           loading' => loading, saving' \in {0, saving}, saving' # 0 => panel' = panel,
           loading' => ~(tasks[t].kind = "list" \/ tasks[t].stage \in {"listing", "listed"}),
           saving' # t
    PROVE  NeverStuck'
<1>1. ASSUME loading'
      PROVE  \E u \in Ids : (UnderWay(u))' /\ (tasks'[u].kind = "list" \/
                                               tasks'[u].stage \in {"listing", "listed"})
  <2>1. PICK u \in Ids : UnderWay(u) /\ (tasks[u].kind = "list" \/
                                         tasks[u].stage \in {"listing", "listed"})
    BY <1>1 DEF VInv, NeverStuck
  <2>2. u # t
    BY <1>1, <2>1
  <2> QED
    BY <2>1, <2>2, OthersStay DEF Advances
<1>2. ASSUME saving' # 0 PROVE panel' = "add" /\ (UnderWay(saving))'
  <2>1. saving' = saving /\ saving # t /\ saving \in Ids /\ UnderWay(saving) /\ panel = "add"
    BY <1>2, TaskFacts DEF VInv, NeverStuck, Types
  <2> QED
    BY <1>2, <2>1, OthersStay
<1>3. Ids' = Ids
  BY DEF Advances
<1> QED
  BY <1>1, <1>2, <1>3 DEF NeverStuck

(* An entry that is shown is the vault's, unless viewOff says otherwise.   *)
LEMMA EntryShown ==
    ASSUME VInv, NEW t \in Ids, GetAnswered(t)
    PROVE  VInv'
<1>1. /\ UNCHANGED <<stored, sites, loading, listOff, faults>> /\ Ends(t)
      /\ tasks[t].kind = "get" /\ tasks[t].stage = "handled"
  BY DEF GetAnswered, AtStage
<1>2. Fit' /\ Advances(t, "over") /\ Ids' = Ids
  BY <1>1, EndsAdvance DEF Advances
<1>3. tasks[t].site \in Sites
  BY <1>1 DEF VInv, StagesFit
<1>4. \/ UNCHANGED <<panel, selected, saving, viewOff>>
      \/ /\ panel' = "view" /\ saving' = 0
         /\ \E v \in tasks[t].got : selected' = [site |-> tasks[t].site, version |-> v]
         /\ viewOff' = \E u \in Ids :
                /\ IsChange(u) /\ tasks[u].site = tasks[t].site
                /\ tasks[u].stage \in {"sent", "handled"} \/ u \in tasks[t].missed
  BY DEF GetAnswered, SetPanel
<1>5. SavingFits' /\ saving' \in 0..Len(tasks')
  <2>1. saving' \in {0, saving}
    BY <1>4
  <2> QED
    BY <1>2, <2>1, SavingStays
<1>6. \A v \in tasks[t].got :
          /\ v \in Nat
          /\ \/ stored[tasks[t].site] = v
             \/ \E u \in tasks[t].missed : IsChange(u) /\ tasks[u].site = tasks[t].site
  BY <1>1 DEF VInv, GetsFit, AtStage
<1>7. Types'
  <2>1. viewOff' \in BOOLEAN
    <3>1. CASE viewOff' = viewOff
      BY <3>1 DEF VInv, Types
    <3>2. CASE viewOff' = \E u \in Ids :
                /\ IsChange(u) /\ tasks[u].site = tasks[t].site
                /\ tasks[u].stage \in {"sent", "handled"} \/ u \in tasks[t].missed
      BY <3>2, Zenon
    <3>3. viewOff' = viewOff \/ (viewOff' = \E u \in Ids :
                /\ IsChange(u) /\ tasks[u].site = tasks[t].site
                /\ tasks[u].stage \in {"sent", "handled"} \/ u \in tasks[t].missed)
      BY <1>4
    <3> QED
      BY <3>1, <3>2, <3>3, Zenon
  <2>2. selected' \in [site : Sites, version : Nat] \cup {NoEntry}
    <3>1. CASE selected' = selected
      BY <3>1 DEF VInv, Types
    <3>2. CASE \E v \in tasks[t].got : selected' = [site |-> tasks[t].site, version |-> v]
      <4>1. PICK v \in tasks[t].got : selected' = [site |-> tasks[t].site, version |-> v]
        BY <3>2
      <4>2. v \in Nat
        BY <1>6
      <4> QED
        BY <1>3, <4>1, <4>2
    <3> QED
      BY <1>4, <3>1, <3>2
  <2>3. panel' \in {"list", "add", "view"}
    BY <1>4 DEF VInv, Types
  <2> QED
    BY <1>1, <1>2, <1>5, <2>1, <2>2, <2>3 DEF VInv, Types, Advances
<1>8. ListExplained'
  <2> SUFFICES ASSUME ~listOff, NEW s \in Sites, ~(s \in sites <=> stored[s] # 0)
               PROVE  \E u \in Ids : (Pending(u, s))'
    BY <1>1, <1>2 DEF ListExplained
  <2>1. PICK u \in Ids : Pending(u, s)
    BY DEF VInv, ListExplained
  <2>2. u # t
    BY <1>1, <2>1 DEF Pending, IsChange
  <2> QED
    BY <1>2, <2>1, <2>2, OthersStay
<1>9. ViewExplained'
  <2>1. CASE UNCHANGED <<panel, selected, saving, viewOff>>
    <3> SUFFICES ASSUME selected # NoEntry, ~viewOff
                 PROVE  ViewExplained'
      BY <2>1 DEF ViewExplained
    <3>1. PICK s : s = selected.site
      OBVIOUS
    <3>2. panel = "view" => \/ stored[s] = selected.version
                            \/ \E u \in Ids : (Pending(u, s))'
      <4> SUFFICES ASSUME panel = "view", stored[s] # selected.version
                   PROVE  \E u \in Ids : (Pending(u, s))'
        OBVIOUS
      <4>1. PICK u \in Ids : Pending(u, s)
        BY <3>1 DEF VInv, ViewExplained
      <4>2. u # t
        BY <1>1, <4>1 DEF Pending, IsChange
      <4> QED
        BY <1>2, <4>1, <4>2, OthersStay
    <3>3. \A u \in Ids : /\ tasks'[u].kind = "delete" /\ tasks'[u].site = selected.site
                         /\ tasks'[u].stage \in {"sent", "handled"}
                         => tasks'[u].forSelected
      BY <1>1, <1>2 DEF VInv, ViewExplained, Advances
    <3> QED
      BY <1>1, <1>2, <2>1, <3>1, <3>2, <3>3 DEF ViewExplained
  <2>2. CASE ~UNCHANGED <<panel, selected, saving, viewOff>>
    <3> SUFFICES ASSUME ~viewOff'
                 PROVE  ViewExplained'
      BY DEF ViewExplained
    <3>1. PICK v \in tasks[t].got : selected' = [site |-> tasks[t].site, version |-> v]
      BY <1>4, <2>2
    <3>2. ~ \E u \in Ids : /\ IsChange(u) /\ tasks[u].site = tasks[t].site
                           /\ tasks[u].stage \in {"sent", "handled"} \/ u \in tasks[t].missed
      BY <1>4, <2>2
    <3>3. stored[tasks[t].site] = v
      BY <1>6, <3>2 DEF VInv, StagesFit
    <3>4. selected'.site = tasks[t].site /\ selected'.version = v
      BY <3>1
    <3>5. \A u \in Ids : ~ /\ tasks'[u].kind = "delete" /\ tasks'[u].site = tasks[t].site
                           /\ tasks'[u].stage \in {"sent", "handled"}
      BY <1>2, <3>2 DEF Advances, IsChange
    <3> QED
      BY <1>1, <1>2, <3>3, <3>4, <3>5 DEF ViewExplained
  <2> QED
    BY <2>1, <2>2
<1>10. NeverStuck'
  <2>1. saving # t /\ t # 0
    BY <1>1, TaskFacts DEF VInv, SavingFits
  <2>2. saving' \in {0, saving} /\ (saving' # 0 => panel' = panel) /\ saving' # t
    BY <1>4, <2>1
  <2> QED
    BY <1>1, <1>2, <2>2, WaitsKept
<1> QED
  BY <1>2, <1>5, <1>7, <1>8, <1>9, <1>10 DEF VInv, Fit

(* A deleted site leaves the list; it closes the view of what was selected *)
(* when it was asked for.                                                  *)
LEMMA DeleteShown ==
    ASSUME VInv, NEW t \in Ids, DeleteAnswered(t)
    PROVE  VInv'
<1>1. /\ UNCHANGED <<stored, loading, viewOff, faults>> /\ Ends(t)
      /\ tasks[t].kind = "delete" /\ tasks[t].stage = "handled"
      /\ sites' = sites \ {tasks[t].site}
  BY DEF DeleteAnswered, AtStage, SitesAfterDelete
<1>2. Fit' /\ Advances(t, "over") /\ Ids' = Ids
  BY <1>1, EndsAdvance DEF Advances
<1>3. \/ tasks[t].forSelected /\ selected' = NoEntry /\ panel' = "list" /\ saving' = 0
      \/ ~tasks[t].forSelected /\ selected' = selected /\ panel' = panel /\ saving' = saving
  BY DEF DeleteAnswered, ClosesView, SetPanel
<1>4. listOff' <=> \/ listOff
                   \/ \E u \in tasks[t].missed : /\ tasks[u].kind = "save"
                                                 /\ tasks[u].site = tasks[t].site
  BY Zenon DEF DeleteAnswered
<1>5. SavingFits' /\ saving' \in 0..Len(tasks')
  BY <1>2, <1>3, SavingStays
<1>6. Types'
  <2>1. listOff' \in BOOLEAN
    BY Zenon DEF DeleteAnswered
  <2>2. /\ selected' \in [site : Sites, version : Nat] \cup {NoEntry}
        /\ panel' \in {"list", "add", "view"} /\ sites' \subseteq Sites
    BY <1>1, <1>3 DEF VInv, Types
  <2> QED
    BY <1>1, <1>2, <1>5, <2>1, <2>2 DEF VInv, Types, Advances
<1>7. ListExplained'
  <2> SUFFICES ASSUME ~listOff', NEW s \in Sites, ~(s \in sites' <=> stored[s] # 0)
               PROVE  \E u \in Ids : (Pending(u, s))'
    BY <1>1, <1>2 DEF ListExplained
  <2>1. stored[tasks[t].site] = 0 /\ ~listOff
    BY <1>1, <1>4 DEF VInv, DeletesFit, AtStage
  <2>2. s # tasks[t].site
    BY <1>1, <2>1
  <2>3. PICK u \in Ids : Pending(u, s)
    BY <1>1, <2>1, <2>2 DEF VInv, ListExplained
  <2>4. u # t
    BY <2>2, <2>3 DEF Pending
  <2> QED
    BY <1>2, <2>3, <2>4, OthersStay
<1>8. ViewExplained'
  <2> SUFFICES ASSUME selected' # NoEntry, ~viewOff
               PROVE  ViewExplained'
    BY <1>1 DEF ViewExplained
  <2>1. ~tasks[t].forSelected /\ selected' = selected /\ panel' = panel
    BY <1>3
  <2>2. selected.site # tasks[t].site
    BY <1>1, <2>1 DEF VInv, ViewExplained
  <2>3. PICK s : s = selected.site
    OBVIOUS
  <2>4. panel = "view" => \/ stored[s] = selected.version
                          \/ \E u \in Ids : (Pending(u, s))'
    <3> SUFFICES ASSUME panel = "view", stored[s] # selected.version
                 PROVE  \E u \in Ids : (Pending(u, s))'
      OBVIOUS
    <3>1. PICK u \in Ids : Pending(u, s)
      BY <2>1, <2>3 DEF VInv, ViewExplained
    <3>2. u # t
      BY <2>2, <2>3, <3>1 DEF Pending
    <3> QED
      BY <1>2, <3>1, <3>2, OthersStay
  <2>5. \A u \in Ids : /\ tasks'[u].kind = "delete" /\ tasks'[u].site = selected.site
                       /\ tasks'[u].stage \in {"sent", "handled"}
                       => tasks'[u].forSelected
    BY <1>1, <1>2, <2>1 DEF VInv, ViewExplained, Advances
  <2> QED
    BY <1>1, <1>2, <2>1, <2>3, <2>4, <2>5 DEF ViewExplained
<1>9. NeverStuck'
  <2>1. saving # t /\ t # 0
    BY <1>1, TaskFacts DEF VInv, SavingFits
  <2>2. saving' \in {0, saving} /\ (saving' # 0 => panel' = panel) /\ saving' # t
    BY <1>3, <2>1
  <2> QED
    BY <1>1, <1>2, <2>2, WaitsKept
<1> QED
  BY <1>2, <1>5, <1>6, <1>7, <1>8, <1>9 DEF VInv, Fit

(* A save that is answered stays pending until its list is shown.          *)
LEMMA SaveShown ==
    ASSUME VInv, NEW t \in Ids, SaveAnswered(t)
    PROVE  VInv'
<1>1. /\ UNCHANGED <<stored, sites, panel, selected, saving, listOff, viewOff, faults>>
      /\ loading' = TRUE /\ tasks' = [tasks EXCEPT ![t].stage = "listing"]
      /\ tasks[t].kind = "save" /\ tasks[t].stage = "handled"
  BY DEF SaveAnswered, AtStage
<1>2. Fit' /\ Advances(t, "listing") /\ Ids' = Ids
  BY <1>1, StageAdvances DEF Advances, IsChange
<1>3. SavingFits' /\ saving' \in 0..Len(tasks')
  BY <1>1, <1>2, SavingStays
<1>4. Types'
  BY <1>1, <1>2, <1>3 DEF VInv, Types, Advances
<1>5. \A u \in Ids : /\ \A s : Pending(u, s) => (Pending(u, s))'
                     /\ UnderWay(u) => (UnderWay(u))'
  <2>1. /\ \A s : Pending(t, s) => (Pending(t, s))'
        /\ (UnderWay(t))'
    BY <1>2 DEF Advances, Pending, IsChange, UnderWay
  <2> QED
    BY <1>2, <2>1, OthersStay
<1>6. ListExplained'
  BY <1>1, <1>2, <1>5 DEF VInv, ListExplained
<1>7. ViewExplained'
  <2> SUFFICES ASSUME selected # NoEntry, ~viewOff
               PROVE  ViewExplained'
    BY <1>1 DEF ViewExplained
  <2>1. PICK s : s = selected.site
    OBVIOUS
  <2>2. panel = "view" => \/ stored[s] = selected.version
                          \/ \E u \in Ids : (Pending(u, s))'
    BY <1>5, <2>1 DEF VInv, ViewExplained
  <2>3. \A u \in Ids : /\ tasks'[u].kind = "delete" /\ tasks'[u].site = selected.site
                       /\ tasks'[u].stage \in {"sent", "handled"}
                       => tasks'[u].forSelected
    BY <1>1, <1>2 DEF VInv, ViewExplained, Advances
  <2> QED
    BY <1>1, <1>2, <2>1, <2>2, <2>3 DEF ViewExplained
<1>8. NeverStuck'
  <2>1. (UnderWay(t))' /\ tasks'[t].stage = "listing"
    BY <1>2 DEF Advances, UnderWay
  <2>2. saving # 0 => panel = "add" /\ (UnderWay(saving))'
    BY <1>1, <1>5, TaskFacts DEF VInv, NeverStuck, Types
  <2> QED
    BY <1>1, <1>2, <2>1, <2>2 DEF NeverStuck
<1> QED
  BY <1>2, <1>3, <1>4, <1>6, <1>7, <1>8 DEF VInv, Fit

(* A call that fails: a change that may have been made is one that list    *)
(* and view may lack.                                                      *)
LEMMA CallFails ==
    ASSUME VInv, NEW t \in Ids, Fails(t)
    PROVE  VInv'
<1> DEFINE load == tasks[t].kind = "list" \/ tasks[t].stage \in {"listing", "listed"}
           done == tasks[t].stage \notin {"sent", "listing"}
<1>1. /\ UNCHANGED <<stored, sites, selected>> /\ tasks[t].stage \notin {"lost", "over"}
      /\ faults' = faults + 1
      /\ load => loading' = FALSE
      /\ ~load => loading' = loading
  BY DEF Fails, LoadingAfterFail
<1>2. PICK stage \in {"over", "lost"} : Fit' /\ Advances(t, stage) /\ Ids' = Ids
  <2>1. CASE Ends(t)
    BY <1>1, <2>1, EndsAdvance DEF Advances
  <2>2. CASE IsChange(t) /\ tasks[t].stage = "sent" /\ tasks' = [tasks EXCEPT ![t].stage = "lost"]
    <3>1. Fit' /\ Advances(t, "lost")
      BY <1>1, <2>2, StageAdvances
    <3> QED
      BY <3>1 DEF Advances
  <2> QED
    BY <2>1, <2>2 DEF Fails
<1>3. \/ load /\ tasks[t].kind = "save" /\ panel' = "list" /\ saving' = 0
      \/ panel' = panel /\ saving' = 0 /\ ~(load /\ tasks[t].kind = "save")
      \/ /\ panel' = panel /\ saving' = saving /\ ~(load /\ tasks[t].kind = "save")
         /\ ~(saving = t /\ ~load)
  BY DEF Fails, SetPanel
<1>4. /\ listOff' <=> listOff \/ (IsChange(t) /\ (load \/ done))
      /\ viewOff' <=> viewOff \/ (IsChange(t) /\ done /\ Selected(tasks[t].site))
  BY Zenon DEF Fails
<1>5. SavingFits' /\ saving' \in 0..Len(tasks')
  BY <1>2, <1>3, SavingStays
<1>6. Types'
  <2>1. loading' \in BOOLEAN /\ listOff' \in BOOLEAN /\ viewOff' \in BOOLEAN
    <3>1. loading' \in BOOLEAN
      BY <1>1 DEF VInv, Types
    <3>2. listOff' \in BOOLEAN /\ viewOff' \in BOOLEAN
      BY Zenon DEF Fails
    <3> QED
      BY <3>1, <3>2
  <2>2. panel' \in {"list", "add", "view"}
    BY <1>3 DEF VInv, Types
  <2> QED
    BY <1>1, <1>2, <1>5, <2>1, <2>2 DEF VInv, Types, Advances
<1>7. ListExplained'
  <2> SUFFICES ASSUME ~listOff', NEW s \in Sites, ~(s \in sites <=> stored[s] # 0)
               PROVE  \E u \in Ids : (Pending(u, s))'
    BY <1>1, <1>2 DEF ListExplained
  <2>1. PICK u \in Ids : Pending(u, s)
    BY <1>4 DEF VInv, ListExplained
  <2>2. u # t
    BY <1>4, <2>1 DEF Pending
  <2> QED
    BY <1>2, <2>1, <2>2, OthersStay
<1>8. ViewExplained'
  <2> SUFFICES ASSUME selected # NoEntry, ~viewOff'
               PROVE  ViewExplained'
    BY <1>1 DEF ViewExplained
  <2>1. PICK s : s = selected.site
    OBVIOUS
  <2>2. panel' = "view" => \/ stored[s] = selected.version
                           \/ \E u \in Ids : (Pending(u, s))'
    <3> SUFFICES ASSUME panel' = "view", stored[s] # selected.version
                 PROVE  \E u \in Ids : (Pending(u, s))'
      OBVIOUS
    <3>1. panel = "view" /\ ~(load /\ tasks[t].kind = "save") /\ ~viewOff
      BY <1>3, <1>4
    <3>2. PICK u \in Ids : Pending(u, s)
      BY <2>1, <3>1 DEF VInv, ViewExplained
    <3>3. u # t
      <4>1. SUFFICES ASSUME u = t PROVE FALSE
        OBVIOUS
      <4>2. IsChange(t) /\ tasks[t].site = s /\ tasks[t].stage \in {"handled", "listing", "listed"}
        BY <3>2, <4>1 DEF Pending
      <4>3. tasks[t].stage = "handled"
        BY <3>1, <4>2 DEF VInv, StagesFit
      <4>4. Selected(tasks[t].site)
        BY <2>1, <4>2 DEF Selected
      <4> QED
        BY <1>4, <4>2, <4>3, <4>4
    <3> QED
      BY <1>2, <3>2, <3>3, OthersStay
  <2>3. \A u \in Ids : /\ tasks'[u].kind = "delete" /\ tasks'[u].site = selected.site
                       /\ tasks'[u].stage \in {"sent", "handled"}
                       => tasks'[u].forSelected
    BY <1>1, <1>2, <1>4 DEF VInv, ViewExplained, Advances
  <2> QED
    BY <1>1, <1>2, <2>1, <2>2, <2>3 DEF ViewExplained
<1>9. NeverStuck'
  <2>1. t # 0
    BY TaskFacts DEF VInv
  <2>2. saving = t => tasks[t].kind = "save"
    BY <2>1 DEF VInv, SavingFits
  <2>3. saving' # t
    BY <1>3, <2>1, <2>2
  <2>4. /\ loading' => loading /\ ~load
        /\ saving' \in {0, saving} /\ (saving' # 0 => panel' = panel)
    BY <1>1, <1>3
  <2> QED
    BY <1>2, <2>3, <2>4, WaitsKept
<1> QED
  BY <1>2, <1>5, <1>6, <1>7, <1>8, <1>9 DEF VInv, Fit

-----------------------------------------------------------------------------
LEMMA VInvStep == ASSUME VInv, [Next]_vars PROVE VInv'
<1>1. CASE UNCHANGED vars
  <2>1. UNCHANGED <<stored, tasks, sites, loading, panel, selected, saving, listOff, viewOff, faults>>
    BY <1>1 DEF vars, screen
  <2> QED
    BY <2>1 DEF VInv, Types, StagesFit, SavingFits, ListsFit, GetsFit, DeletesFit,
                ListExplained, ViewExplained, NeverStuck, Ids, IsChange, Loads, AtStage,
                Pending, UnderWay
<1>2. CASE Next
  BY <1>2, UserBegins, UserShows, GatewayReads, GatewayChanges, LostChanges, ListShown,
     EntryShown, DeleteShown, SaveShown, CallFails DEF Next
<1> QED
  BY <1>1, <1>2

(* VInv holds in every state: what differs between the screen and the      *)
(* vault is explained by a call under way or by listOff and viewOff.       *)
THEOREM VInvCorrect == Spec => []VInv
<1>1. Init => VInv
  BY VInvInit
<1>2. VInv /\ [Next]_vars => VInv'
  BY VInvStep
<1> QED
  BY <1>1, <1>2, PTL DEF Spec

(* With nothing under way the list shows the sites of the vault, unless a  *)
(* change it lacks was answered before it or lost: loadSites, deleteSite   *)
(* and onSave in any order of answers.                                     *)
THEOREM ListRightCorrect == Spec => []ListRight
<1>1. VInv => ListRight
  <2> SUFFICES ASSUME VInv, Idle, ~listOff
               PROVE  sites = {s \in Sites : stored[s] # 0}
    BY DEF ListRight
  <2>1. \A u \in Ids : \A s : ~Pending(u, s)
    BY DEF Idle, UnderWay, Pending
  <2>2. \A s \in Sites : s \in sites <=> stored[s] # 0
    BY <2>1 DEF VInv, ListExplained
  <2> QED
    BY <2>2 DEF VInv, Types
<1> QED
  BY <1>1, VInvCorrect, PTL

(* The entry shown is the vault's, or a change of it is under way.         *)
THEOREM ViewRightCorrect == Spec => []ViewRight
<1>1. VInv => ViewRight
  BY DEF VInv, ViewExplained, ViewRight, Pending, UnderWay
<1> QED
  BY <1>1, VInvCorrect, PTL

(* Loading is shown only while a list is on its way, saving only while the *)
(* save of the form is.                                                    *)
THEOREM NeverStuckCorrect == Spec => []NeverStuck
<1>1. VInv => NeverStuck
  BY DEF VInv
<1> QED
  BY <1>1, VInvCorrect, PTL
===============================================================================
