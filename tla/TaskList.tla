------------------------------ MODULE TaskList ------------------------------
(***************************************************************************)
(* The task list of a workspace: tasks.json, the panel of the UI that shows*)
(* and edits it, and the tools of the agents (TodoWrite, TaskUpdate, the   *)
(* plan of ExitPlanMode) that load, change and save it from threads of     *)
(* their own.  The file is not locked, and a save is a truncation and a    *)
(* write.  The panel writes its whole memory back; it reloads the file when*)
(* the modification time is not the one it last saw, and after a TodoWrite.*)
(*                                                                         *)
(* A list is a forest with dependencies; its titles, states and order are  *)
(* left out.  The time of the file is a counter of its changes.            *)
(***************************************************************************)
EXTENDS Naturals, FiniteSets

CONSTANTS
  Task,      \* bound: the ids that a run can draw
  NoTask,
  Start,     \* the tasks that an earlier session has left
  MaxCalls,  \* bound: calls of the tools
  MaxKeys    \* bound: changes made in the panel

ASSUME NoTaskAssumption == NoTask \notin Task
ASSUME StartAssumption  == Start \subseteq Task
ASSUME BoundsAssumption == MaxCalls \in Nat /\ MaxKeys \in Nat

Call == 1..MaxCalls

List == [nodes : SUBSET Task, roots : SUBSET Task, parent : [Task -> Task \cup {NoTask}],
         children : [Task -> SUBSET Task], dependencies : [Task -> SUBSET Task],
         blocks : [Task -> SUBSET Task]]

VARIABLES
  panel,     \* UI: the list in memory
  ui,        \* UI: where it is with the file
  editing,   \* UI: a title or a description is being edited
  seen,      \* UI: the time of the file that it last noted
  keys,      \* UI: changes made so far
  results,   \* messages about a TodoWrite on their way to the UI
  state,     \* the file is whole, truncated, or of two writes
  text,      \* the list in it, when last whole
  time,      \* its modification time
  pc,        \* where each call is
  list,      \* the list that each call holds
  used,      \* ids drawn so far
  saved,     \* history variable: when text was written
  read,      \* history variable: which text the panel and each call started from
  missed,    \* history variable: the file changed while the panel noted its time
  own,       \* history variable: what each writer's own change adds or removes
  overtaken, \* history variable: a list was saved over one its writer had not read
  surprised  \* history variable: tasks that came or went with no change to ask for it

file  == <<state, text, time, saved>>
user  == <<panel, ui, editing, seen, keys>>
calls == <<pc, list>>
fate  == <<overtaken, surprised>>
vars == <<file, user, calls, results, used, read, missed, own, fate>>

Panel  == 0
Writer == Call \cup {Panel}

TypeOK ==
  /\ panel \in List /\ text \in List /\ list \in [Call -> List]
  /\ ui \in {"idle", "writing", "noting"}
  /\ editing \in BOOLEAN
  /\ state \in {"whole", "torn", "broken"}
  /\ time \in Nat /\ seen \in Nat /\ saved \in Nat
  /\ keys \in 0..MaxKeys /\ results \in Nat
  /\ pc \in [Call -> {"idle", "loaded", "todo", "change", "done"}]
  /\ used \in SUBSET Task /\ surprised \in SUBSET Task
  /\ read \in [Writer -> Nat] /\ own \in [Writer -> SUBSET Task]
  /\ missed \in BOOLEAN /\ overtaken \in BOOLEAN
-----------------------------------------------------------------------------
(* Lists (TaskGraph, TaskManager).                                         *)

Empty(f) == [t \in Task |-> f]

Flat(S) ==
  [nodes |-> S, roots |-> S, parent |-> Empty(NoTask), children |-> Empty({}),
   dependencies |-> Empty({}), blocks |-> Empty({})]

(* The task and everything below it: what the search along the children    *)
(* from it reaches.                                                         *)
Closed(g, S) == \A p \in S : g.children[p] \subseteq S
Below(g, t) == {x \in Task : \A S \in SUBSET Task : t \in S /\ Closed(g, S) => x \in S}

(* move_task to a place under p, or among the roots.                        *)
MoveTask(g, t, p) ==
  [g EXCEPT !.parent[t] = p,
            !.roots = IF p = NoTask THEN g.roots \cup {t} ELSE g.roots \ {t},
            !.children = [q \in Task |->
               IF q = p THEN g.children[q] \cup {t} ELSE g.children[q] \ {t}]]

MayMove(g, t, p) == p = NoTask \/ p \in g.nodes \ Below(g, t)

AddTask(g, t, p) == MoveTask([g EXCEPT !.nodes = @ \cup {t}], t, p)

(* Tasks that are gone take their own links with them; the links of others  *)
(* to them are cleaned, except for blocks.                                  *)
Remove(g, S) ==
  [nodes |-> g.nodes \ S,
   roots |-> g.roots \ S,
   parent |-> [t \in Task |-> IF t \in S THEN NoTask ELSE g.parent[t]],
   children |-> [t \in Task |-> IF t \in S THEN {} ELSE g.children[t] \ S],
   dependencies |-> [t \in Task |-> IF t \in S THEN {} ELSE g.dependencies[t] \ S],
   blocks |-> [t \in Task |-> IF t \in S THEN {} ELSE g.blocks[t]]]

(* Mutant: what is below a deleted task is left to be repaired.             *)
DeleteAlone(g, t) == Remove(g, {t})

DeleteTask(g, t) == Remove(g, Below(g, t))

(* A plan: its head with the items below it, or items alone.                *)
WithPlan(g, h, S) ==
  LET items == S \ {h} IN
  [g EXCEPT !.nodes = @ \cup S,
            !.roots = @ \cup (IF h = NoTask THEN S ELSE {h}),
            !.parent = [t \in Task |-> IF t \in items THEN h ELSE g.parent[t]],
            !.children = [t \in Task |-> IF t = h THEN items ELSE g.children[t]]]

(* Links to what is not there go; who names a parent is its child; who has  *)
(* no parent and is nobody's child is a root.                                *)
Repair(g) ==
  LET parent == [t \in Task |-> IF g.parent[t] \in g.nodes THEN g.parent[t] ELSE NoTask]
      children == [p \in Task |-> (g.children[p] \cap g.nodes)
                                    \cup {t \in g.nodes : parent[t] = p}]
      child == UNION {children[p] : p \in g.nodes}
  IN  [g EXCEPT !.parent = parent,
                !.children = children,
                !.dependencies = [t \in Task |-> g.dependencies[t] \cap g.nodes],
                !.roots = {t \in g.nodes : parent[t] = NoTask /\ t \notin child}
                            \cup (g.roots \cap g.nodes)]
-----------------------------------------------------------------------------
(* An earlier session has left a plan or tasks of their own.                *)
Init ==
  /\ \E h \in Start \cup {NoTask} : panel = WithPlan(Flat({}), h, Start)
  /\ ui = "idle" /\ editing = FALSE
  /\ seen = 1 /\ keys = 0 /\ results = 0
  /\ state = "whole" /\ text = panel /\ time = 1 /\ saved = 1
  /\ pc = [c \in Call |-> "idle"] /\ list = [c \in Call |-> Flat({})]
  /\ used = Start
  /\ read = [w \in Writer |-> 1] /\ own = [w \in Writer |-> {}]
  /\ missed = FALSE /\ overtaken = FALSE /\ surprised = {}

(* Saving (save_to_file) truncates the file and writes the repaired list.   *)
(* When another has written since the truncation, the end of his list may   *)
(* stay behind the new one.                                                 *)
Truncate ==
  /\ state' = "torn" /\ time' = time + 1
  /\ UNCHANGED <<text, saved>>

(* A writer overtakes another when the list he started from is not the one   *)
(* he replaces.                                                             *)
Write(w, g) ==
  /\ state' \in (IF state = "torn" THEN {"whole"} ELSE {"whole", "broken"})
  /\ text' = g /\ time' = time + 1 /\ saved' = time'
  /\ overtaken' = (overtaken \/ read[w] # saved)
  /\ surprised' = surprised \cup (((text.nodes \ g.nodes) \cup (g.nodes \ text.nodes)) \ own[w])
-----------------------------------------------------------------------------
(* The tools.  A file that cannot be parsed is an empty list to them.        *)

Unread == 0

Load(c) ==
  /\ pc[c] = "idle"
  /\ pc' = [pc EXCEPT ![c] = "loaded"]
  /\ list' = [list EXCEPT ![c] = IF state = "whole" THEN Repair(text) ELSE Flat({})]
  /\ read' = [read EXCEPT ![c] = IF state = "whole" THEN saved ELSE Unread]
  /\ UNCHANGED <<file, user, results, used, missed, own, fate>>

(* The panel may be about to note the time of the file.                     *)
Disturb == missed' = (missed \/ ui = "noting")

Change(c, kind, g, change) ==
  /\ pc[c] = "loaded"
  /\ pc' = [pc EXCEPT ![c] = kind]
  /\ list' = [list EXCEPT ![c] = Repair(g)]
  /\ own' = [own EXCEPT ![c] = change]
  /\ Truncate /\ Disturb
  /\ UNCHANGED <<user, results, fate>>

(* TodoWrite replaces the whole list by new tasks; by none when all of its  *)
(* items are completed.                                                     *)
TodoWrite(c) ==
  \E S \in SUBSET (Task \ used) :
    /\ Change(c, "todo", Flat(S), Task)
    /\ used' = used \cup S
    /\ read' = [read EXCEPT ![c] = saved]

(* Mutant: only the task itself is changed.                                  *)
BlockedByAlone(g, t, S) == [g EXCEPT !.dependencies[t] = @ \cup S]

(* add_blocks and add_blocked_by: new links with their reverse links, the    *)
(* latter on tasks that exist.                                               *)
Blocks(g, t, S) ==
  LET new == S \ g.blocks[t] IN
  [g EXCEPT !.blocks[t] = @ \cup new,
            !.dependencies = [d \in Task |-> IF d \in new \cap g.nodes
                                             THEN g.dependencies[d] \cup {t}
                                             ELSE g.dependencies[d]]]

BlockedBy(g, t, S) ==
  LET new == S \ g.dependencies[t] IN
  [g EXCEPT !.dependencies[t] = @ \cup new,
            !.blocks = [d \in Task |-> IF d \in new \cap g.nodes
                                       THEN g.blocks[d] \cup {t} ELSE g.blocks[d]]]

(* A completed task goes from the dependencies of those it blocks.           *)
Complete(g, t) ==
  [g EXCEPT !.dependencies = [d \in Task |-> IF d \in g.blocks[t]
                                             THEN g.dependencies[d] \ {t}
                                             ELSE g.dependencies[d]]]

(* TaskUpdate: the ids it is given may be of tasks that are gone.  A call    *)
(* with several is like several calls.                                      *)
Few == {{}} \cup {{t} : t \in used}

TaskUpdate(c) ==
  /\ \E t \in list[c].nodes, S \in Few, R \in Few, completed \in BOOLEAN :
       /\ S = {} \/ R = {}
       /\ LET g == BlockedBy(Blocks(list[c], t, S), t, R) IN
          Change(c, "change", IF completed THEN Complete(g, t) ELSE g, {})
  /\ UNCHANGED <<used, read>>

(* The plan of ExitPlanMode becomes a task with its items below it or, in an *)
(* empty list, tasks of their own.                                          *)
SeedPlan(c) ==
  \E S \in SUBSET (Task \ used) :
    /\ S # {}
    /\ \E h \in S \cup {NoTask} :
         /\ h = NoTask => list[c].nodes = {}
         /\ Change(c, "change", WithPlan(list[c], h, S), S)
    /\ used' = used \cup S
    /\ UNCHANGED read

(* Nothing to do: the task is not there, the plan is known.                  *)
NoChange(c) ==
  /\ pc[c] = "loaded"
  /\ pc' = [pc EXCEPT ![c] = "done"]
  /\ list' = [list EXCEPT ![c] = Flat({})]
  /\ UNCHANGED <<file, user, results, used, read, missed, own, fate>>

(* The UI hears twice of a TodoWrite: ReloadTasks and the result.            *)
Save(c) ==
  /\ pc[c] \in {"todo", "change"}
  /\ Write(c, list[c]) /\ Disturb
  /\ pc' = [pc EXCEPT ![c] = "done"]
  /\ list' = [list EXCEPT ![c] = Flat({})]
  /\ own' = [own EXCEPT ![c] = {}]
  /\ results' = IF pc[c] = "todo" THEN results + 2 ELSE results
  /\ UNCHANGED <<user, used, read>>
-----------------------------------------------------------------------------
(* The panel, in the UI loop.                                              *)

(* Mutant: a file that cannot be read is an empty list.                     *)
ReloadOrEmpty ==
  /\ panel' = IF state = "whole" THEN Repair(text) ELSE Flat({})
  /\ ui' = "noting" /\ missed' = FALSE
  /\ read' = [read EXCEPT ![Panel] = IF state = "whole" THEN saved ELSE @]
  /\ own' = [own EXCEPT ![Panel] = {}]

(* A file that cannot be read leaves the memory.                            *)
Reload ==
  IF state = "whole"
  THEN /\ panel' = Repair(text)
       /\ ui' = "noting" /\ missed' = FALSE
       /\ read' = [read EXCEPT ![Panel] = saved]
       /\ own' = [own EXCEPT ![Panel] = {}]
  ELSE UNCHANGED <<panel, ui, missed, read, own>>

(* Once a second, unless a title is being edited (reload_if_stale).         *)
Tick ==
  /\ ui = "idle" /\ ~editing /\ seen # time
  /\ Reload
  /\ UNCHANGED <<file, editing, seen, keys, calls, results, used, fate>>

(* Ctrl+T and /tasks: hiding the panel ends the edit, showing it reloads.    *)
Open ==
  /\ ui = "idle"
  /\ editing' = FALSE
  /\ Reload
  /\ UNCHANGED <<file, seen, keys, calls, results, used, fate>>

(* A TodoWrite reloads in any case (ReloadTasks, handle_tool_result).        *)
TakeResult ==
  /\ ui = "idle" /\ results > 0
  /\ results' = results - 1
  /\ Reload
  /\ UNCHANGED <<file, editing, seen, keys, calls, used, fate>>

(* The time is noted after the list was read or written.                    *)
NoteTime ==
  /\ ui = "noting"
  /\ ui' = "idle" /\ seen' = time
  /\ UNCHANGED <<file, panel, editing, keys, calls, results, used, read, missed, own, fate>>

(* A key changes the list in memory, and all of it is saved.                *)
ChangePanel(g, change) ==
  /\ ui = "idle" /\ keys < MaxKeys
  /\ keys' = keys + 1
  /\ panel' = g /\ ui' = "writing"
  /\ own' = [own EXCEPT ![Panel] = change]
  /\ Truncate
  /\ UNCHANGED <<seen, calls, results, read, missed, fate>>

(* indent: under a sibling above; outdent: beside the parent; up and down:   *)
(* where it is.                                                             *)
Siblings(g, t) == IF g.parent[t] = NoTask THEN g.roots ELSE g.children[g.parent[t]]

MoveSelected ==
  /\ ~editing
  /\ \E t \in panel.nodes :
       LET above  == panel.parent[t]
           others == Siblings(panel, t) \ {t}
           outer  == IF above = NoTask THEN {} ELSE {panel.parent[above]}
       IN \E p \in others \cup outer \cup (IF others = {} THEN {} ELSE {above}) :
            ChangePanel(IF MayMove(panel, t, p) THEN MoveTask(panel, t, p) ELSE panel, {})
  /\ UNCHANGED <<editing, used>>

(* Mutant: the list is not saved.                                            *)
DeleteUnsaved ==
  /\ ui = "idle" /\ ~editing
  /\ \E t \in panel.nodes : panel' = DeleteTask(panel, t)
  /\ UNCHANGED <<file, ui, editing, seen, keys, calls, results, used, read, missed, own, fate>>

DeleteSelected ==
  /\ ~editing
  /\ \E t \in panel.nodes : ChangePanel(DeleteTask(panel, t), Below(panel, t))
  /\ UNCHANGED <<editing, used>>

AddNewTask ==
  /\ ~editing
  /\ \E t \in Task \ used, p \in {panel.parent[s] : s \in panel.nodes} \cup {NoTask} :
       /\ ChangePanel(AddTask(panel, t, p), {t})
       /\ used' = used \cup {t}
  /\ UNCHANGED editing

(* Priority, completion and skipping: the links stay.                       *)
Toggle ==
  /\ ~editing
  /\ ChangePanel(panel, {})
  /\ UNCHANGED <<editing, used>>

EnterEdit ==
  /\ ui = "idle" /\ ~editing /\ panel.nodes # {}
  /\ editing' = TRUE
  /\ UNCHANGED <<file, panel, ui, seen, keys, calls, results, used, read, missed, own, fate>>

(* The title goes into the task, if it is still there; the list is saved.    *)
SubmitEdit ==
  /\ editing
  /\ ChangePanel(panel, {})
  /\ editing' = FALSE
  /\ UNCHANGED used

CancelEdit ==
  /\ ui = "idle" /\ editing
  /\ editing' = FALSE
  /\ UNCHANGED <<file, panel, ui, seen, keys, calls, results, used, read, missed, own, fate>>

SavePanel ==
  /\ ui = "writing"
  /\ Write(Panel, Repair(panel))
  /\ ui' = "noting" /\ missed' = FALSE
  /\ read' = [read EXCEPT ![Panel] = saved']
  /\ UNCHANGED <<panel, editing, seen, keys, calls, results, used, own>>
-----------------------------------------------------------------------------
ToolNext(c) ==
  \/ Load(c) \/ TodoWrite(c) \/ TaskUpdate(c) \/ SeedPlan(c) \/ NoChange(c) \/ Save(c)

PanelNext ==
  \/ Tick \/ Open \/ TakeResult \/ NoteTime
  \/ MoveSelected \/ DeleteSelected \/ AddNewTask \/ Toggle
  \/ EnterEdit \/ SubmitEdit \/ CancelEdit \/ SavePanel

Next == PanelNext \/ \E c \in Call : ToolNext(c)

Spec == Init /\ [][Next]_vars
-----------------------------------------------------------------------------
Lists == {panel, text} \cup {list[c] : c \in Call}

(* Every task of a list can be reached from one root in one way, so that the *)
(* panel and TaskList show each once, in every list that anybody holds.       *)
Forest(g) ==
  /\ g.roots = {t \in g.nodes : g.parent[t] = NoTask}
  /\ \A t \in Task : g.children[t] = {x \in g.nodes : g.parent[x] = t}
  /\ \A t \in g.nodes : g.parent[t] \in g.nodes \cup {NoTask}
  /\ \A S \in SUBSET g.nodes : S # {} => \E t \in S : g.parent[t] \notin S

EveryTaskIsListedOnce == \A g \in Lists : Forest(g)

(* A task that depends on another is among those the other blocks: when it   *)
(* is completed, TaskUpdate finds all that wait for it, whoever deleted,      *)
(* moved or linked tasks in between.                                         *)
CompletionFindsAllWaiting ==
  \A g \in Lists : \A t \in g.nodes : \A d \in g.dependencies[t] : t \in g.blocks[d]

(* When the panel takes the time of the file for the one it noted, it shows  *)
(* what is in the file, unless the file changed while it noted the time.      *)
PanelShowsTheFile ==
  ui = "idle" /\ seen = time /\ state = "whole" /\ ~missed => panel = text

(* No task comes or goes but by a change that asks for it, unless a writer    *)
(* replaced a list he had not read.                                          *)
TasksAreKept == ~overtaken => surprised = {}
=============================================================================
