---------------------------- MODULE VaultScreen ----------------------------
(***************************************************************************)
(* The screen of the web UI that lists, shows, adds and deletes entries    *)
(* (web/src/components/VaultScreen.tsx), with several requests under way   *)
(* at a time.  A request is sent, the gateway carries it out on the vault  *)
(* in one step, and the answer comes any time later, in any order; or the  *)
(* request fails, and a connection that broke may have carried it all the  *)
(* same.                                                                   *)
(*                                                                         *)
(* A version of an entry is the number of the request that saved it.       *)
(***************************************************************************)
EXTENDS Integers, Sequences

CONSTANTS Sites,
          NoEntry,
          NoSite,
          MaxTasks, MaxFaults   \* bounds

ASSUME ScreenAssumption == /\ NoEntry \notin [site : Sites, version : Nat]
                           /\ NoSite \notin Sites
                           /\ MaxTasks \in Nat /\ MaxFaults \in Nat

VARIABLES
    stored,    \* the vault: the version of each site's entry, 0 when it has none
    tasks,     \* the calls of loadSites, openSite, deleteSite and onSave so far
    sites, loading, panel, selected,   \* VaultScreen's state
    saving,    \* AddPanel's state: the save it waits for, or 0
    listOff,   \* the list has missed a change
    viewOff,   \* the entry shown overlapped with a change of it
    faults

screen == <<sites, loading, panel, selected, saving>>
vars == <<stored, tasks, screen, listOff, viewOff, faults>>

(* forSelected is what deleteSite's closure knows of the selection; missed *)
(* has the changes of the vault since the task's answer was read from it.  *)
Task(k, s, sel) == [kind |-> k, site |-> s, stage |-> "sent", got |-> {},
                    forSelected |-> sel, missed |-> {}]
Ids == 1..Len(tasks)

Init ==
    /\ stored \in [Sites -> {0, 1}]
    /\ tasks = << Task("list", NoSite, FALSE) >>
    /\ sites = {} /\ loading = TRUE /\ panel = "list" /\ selected = NoEntry
    /\ saving = 0
    /\ listOff = TRUE /\ viewOff = FALSE
    /\ faults = 0

-----------------------------------------------------------------------------
(* What the user can do.                                                   *)

Begin(task) == Len(tasks) < MaxTasks /\ tasks' = Append(tasks, task)

(* The form is gone when another panel is shown.                           *)
SetPanel(p) == panel' = p /\ saving' = IF p = "add" THEN saving ELSE 0

Listed(s) == ~loading /\ s \in sites
Viewed(s) == panel = "view" /\ selected # NoEntry /\ selected.site = s
Selected(s) == selected # NoEntry /\ selected.site = s

Refresh ==
    /\ Begin(Task("list", NoSite, FALSE))
    /\ loading' = TRUE
    /\ UNCHANGED <<stored, sites, panel, selected, saving, listOff, viewOff, faults>>

OpenSite(s) ==
    /\ Listed(s)
    /\ Begin(Task("get", s, FALSE))
    /\ UNCHANGED <<stored, screen, listOff, viewOff, faults>>

DeleteSite(s) ==
    /\ Listed(s) \/ Viewed(s)
    /\ Begin(Task("delete", s, Selected(s)))
    /\ UNCHANGED <<stored, screen, listOff, viewOff, faults>>

(* The + button.                                                           *)
ToggleAdd ==
    /\ SetPanel(IF panel = "add" THEN "list" ELSE "add")
    /\ UNCHANGED <<stored, tasks, sites, loading, selected, listOff, viewOff, faults>>

CancelAdd ==
    /\ panel = "add"
    /\ SetPanel("list")
    /\ UNCHANGED <<stored, tasks, sites, loading, selected, listOff, viewOff, faults>>

SaveEntry(s) ==
    /\ panel = "add" /\ saving = 0
    /\ Begin(Task("save", s, FALSE))
    /\ saving' = Len(tasks) + 1
    /\ UNCHANGED <<stored, sites, loading, panel, selected, listOff, viewOff, faults>>

CloseView ==
    /\ panel = "view" /\ selected # NoEntry
    /\ selected' = NoEntry
    /\ SetPanel("list")
    /\ UNCHANGED <<stored, tasks, sites, loading, listOff, viewOff, faults>>

-----------------------------------------------------------------------------
(* The gateway.                                                            *)

AtStage(t, kind, stage) == tasks[t].kind = kind /\ tasks[t].stage = stage
Loads(t, sent, stage) == AtStage(t, "list", sent) \/ AtStage(t, "save", stage)

Reads(t, answer, stage) ==
    tasks' = [tasks EXCEPT ![t].got = answer, ![t].stage = stage, ![t].missed = {}]

HandleList(t) ==
    /\ Loads(t, "sent", "listing")
    /\ Reads(t, {s \in Sites : stored[s] # 0},
             IF tasks[t].kind = "list" THEN "handled" ELSE "listed")
    /\ UNCHANGED <<stored, screen, listOff, viewOff, faults>>

HandleGet(t) ==
    /\ AtStage(t, "get", "sent")
    /\ Reads(t, {stored[tasks[t].site]} \ {0}, "handled")
    /\ UNCHANGED <<stored, screen, listOff, viewOff, faults>>

(* Every task whose answer is under way now lacks this change.             *)
Changes(t, stage) ==
    /\ stored' = [stored EXCEPT ![tasks[t].site] =
                     IF tasks[t].kind = "delete" THEN 0 ELSE t]
    /\ tasks' = [u \in Ids |->
           IF u = t THEN [tasks[u] EXCEPT !.stage = stage]
           ELSE IF tasks[u].stage \in {"handled", "listed"}
           THEN [tasks[u] EXCEPT !.missed = @ \cup {t}]
           ELSE tasks[u]]

HandleChange(t) ==
    /\ AtStage(t, "delete", "sent") \/ AtStage(t, "save", "sent")
    /\ Changes(t, "handled")
    /\ UNCHANGED <<screen, listOff, viewOff, faults>>

(* A request whose connection broke arrives, and nobody waits for it.      *)
HandleLost(t) ==
    /\ tasks[t].stage = "lost"
    /\ Changes(t, "over")
    /\ listOff' = TRUE
    /\ viewOff' = (viewOff \/ Selected(tasks[t].site))
    /\ UNCHANGED <<screen, faults>>

-----------------------------------------------------------------------------
(* The answers, and what the awaiting function does then.                  *)

Ends(t) == tasks' = [tasks EXCEPT ![t].stage = "over", ![t].got = {}]
IsChange(u) == tasks[u].kind \in {"delete", "save"}

(* A change the answer does not have, and whose own answer has been here.  *)
Late(t) == \E u \in tasks[t].missed : tasks[u].stage \notin {"sent", "handled"}

MergedSites(t) == sites \cup tasks[t].got
AnswerSites(t) == tasks[t].got

(* loadSites; in a save, setPanel comes next.                              *)
ListAnswered(t) ==
    /\ Loads(t, "handled", "listed")
    /\ Ends(t)
    /\ sites' = AnswerSites(t)
    /\ loading' = FALSE
    /\ IF tasks[t].kind = "save" THEN SetPanel("list") ELSE UNCHANGED <<panel, saving>>
    /\ listOff' = Late(t)
    /\ UNCHANGED <<stored, selected, viewOff, faults>>

(* openSite; a site that is not there is an error.                         *)
GetAnswered(t) ==
    /\ AtStage(t, "get", "handled")
    /\ Ends(t)
    /\ \/ tasks[t].got = {} /\ UNCHANGED <<panel, selected, saving, viewOff>>
       \/ \E v \in tasks[t].got :
            /\ selected' = [site |-> tasks[t].site, version |-> v]
            /\ SetPanel("view")
            /\ viewOff' = \E u \in Ids :
                   /\ IsChange(u) /\ tasks[u].site = tasks[t].site
                   /\ tasks[u].stage \in {"sent", "handled"} \/ u \in tasks[t].missed
    /\ UNCHANGED <<stored, sites, loading, listOff, faults>>

SitesAfterDelete(t) == sites \ {tasks[t].site}
NeverCloses(t) == FALSE
ClosesView(t) == tasks[t].forSelected

(* deleteSite.                                                             *)
DeleteAnswered(t) ==
    /\ AtStage(t, "delete", "handled")
    /\ Ends(t)
    /\ sites' = SitesAfterDelete(t)
    /\ IF ClosesView(t)
       THEN selected' = NoEntry /\ SetPanel("list")
       ELSE UNCHANGED <<panel, selected, saving>>
    /\ listOff' = (listOff \/ \E u \in tasks[t].missed :
                                 /\ tasks[u].kind = "save"
                                 /\ tasks[u].site = tasks[t].site)
    /\ UNCHANGED <<stored, loading, viewOff, faults>>

(* onSave goes on with loadSites.                                          *)
SaveAnswered(t) ==
    /\ AtStage(t, "save", "handled")
    /\ tasks' = [tasks EXCEPT ![t].stage = "listing"]
    /\ loading' = TRUE
    /\ UNCHANGED <<stored, sites, panel, selected, saving, listOff, viewOff, faults>>

LoadingStays == loading
LoadingAfterFail == FALSE

(* A request is refused, or its connection breaks: loadSites is done in    *)
(* any case, a form whose save fails can be used again.                    *)
Fails(t) ==
    /\ tasks[t].stage \notin {"lost", "over"}
    /\ faults < MaxFaults /\ faults' = faults + 1
    /\ \/ Ends(t)
       \/ IsChange(t) /\ tasks[t].stage = "sent" /\ tasks' = [tasks EXCEPT ![t].stage = "lost"]
    /\ LET load == tasks[t].kind = "list" \/ tasks[t].stage \in {"listing", "listed"}
           done == tasks[t].stage \notin {"sent", "listing"}
       IN  /\ loading' = IF load THEN LoadingAfterFail ELSE loading
           /\ CASE load /\ tasks[t].kind = "save" -> SetPanel("list")
                [] saving = t /\ ~load -> saving' = 0 /\ UNCHANGED panel
                [] OTHER -> UNCHANGED <<panel, saving>>
           /\ listOff' = (listOff \/ (IsChange(t) /\ (load \/ done)))
           /\ viewOff' = (viewOff \/ (IsChange(t) /\ done /\ Selected(tasks[t].site)))
    /\ UNCHANGED <<stored, sites, selected>>

Next ==
    \/ Refresh \/ ToggleAdd \/ CancelAdd \/ CloseView
    \/ \E s \in Sites : OpenSite(s) \/ DeleteSite(s) \/ SaveEntry(s)
    \/ \E t \in Ids :
        \/ HandleList(t) \/ HandleGet(t) \/ HandleChange(t) \/ HandleLost(t)
        \/ ListAnswered(t) \/ GetAnswered(t) \/ DeleteAnswered(t) \/ SaveAnswered(t)
        \/ Fails(t)

Spec == Init /\ [][Next]_vars

-----------------------------------------------------------------------------
UnderWay(t) == tasks[t].stage \notin {"lost", "over"}
Idle == \A t \in Ids : ~UnderWay(t)

(* When nothing is under way, the list has the sites of the vault, in      *)
(* whatever order requests and answers crossed, unless a list came after   *)
(* the answer to a change it does not have, a delete was answered after    *)
(* the site had been saved anew, or the answer to a change was lost, and   *)
(* the list has not been loaded since.                                     *)
ListRight == Idle /\ ~listOff => sites = {s \in Sites : stored[s] # 0}

(* The entry shown is the one the vault has, unless a change of it was     *)
(* under way when it was shown, or the answer to one was lost.             *)
ViewRight ==
    panel = "view" /\ selected # NoEntry /\ ~viewOff =>
        \/ stored[selected.site] = selected.version
        \/ \E t \in Ids : IsChange(t) /\ UnderWay(t) /\ tasks[t].site = selected.site

(* The list is shown as loading only while a list is on its way, and a     *)
(* form as saving only while its save is, whatever fails.                  *)
NeverStuck ==
    /\ loading => \E t \in Ids : UnderWay(t) /\ (tasks[t].kind = "list" \/
                                                 tasks[t].stage \in {"listing", "listed"})
    /\ saving # 0 => panel = "add" /\ UnderWay(saving)
=============================================================================
