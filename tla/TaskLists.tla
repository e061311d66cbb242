----------------------------- MODULE TaskLists -----------------------------
(***************************************************************************)
(* TaskListService of src/src/tasks/tasklist.ts over the files of          *)
(* TaskStorage.  Every task and every list is a file; an operation reads   *)
(* whole files, changes what it read and writes it back, and the locks     *)
(* that TaskStorage offers are never taken.  A call is the writes that it  *)
(* will make of what it has read, and what it will read after them.        *)
(*                                                                         *)
(* Reads with no write between them are taken in one step.  Of a task the  *)
(* model has the status and the dependencies; updateTask, assignments and  *)
(* the status of a list are left out.                                      *)
(***************************************************************************)
EXTENDS Integers, Sequences, FiniteSets, SequencesExt

CONSTANTS
  Tasks, Lists,
  Default,         \* the list that storage has from the start
  MaxCalls,        \* bound: calls of users that wait for each other
  MaxOverlapping,  \* bound: users whose calls overlap, and the calls of them
  Never, Deleted   \* a file that was never written, and one that was removed

Task == [status : {"open", "in-progress", "blocked", "done"}, dependsOn : SUBSET Tasks, blocks : SUBSET Tasks]

ASSUME NamesAssumption == IsFiniteSet(Tasks) /\ IsFiniteSet(Lists) /\ Tasks \cap Lists = {} /\ Default \in Lists
ASSUME NeverAssumption == Never # Deleted /\ Never \notin Task /\ Deleted \notin Task
ASSUME CallsAssumption == MaxCalls \in Nat /\ MaxOverlapping \in 1..MaxCalls

VARIABLES
  files,     \* of each task its record, of each list its tasks
  pending,   \* of each user, what is left of its call
  begun,     \* how many calls there have been
  excused,   \* (history) the tasks that the code is known to leave behind
  inTurn     \* (users) whether they wait for each other; it never changes

vars == <<files, pending, begun, excused, inTurn>>

Users == 1..MaxOverlapping

Idle == [writes |-> <<>>, todo |-> <<>>]
Quiet == \A w \in Users : pending[w] = Idle
NewTask(deps) == [status |-> "open", dependsOn |-> deps, blocks |-> {}]

\* Some tasks were created before, in the default list.
Init ==
  /\ \E old \in SUBSET Tasks :
       files = [f \in Tasks \cup Lists |->
         IF f \in old THEN NewTask({}) ELSE IF f \in Tasks THEN Never ELSE [tasks |-> IF f = Default THEN old ELSE {}]]
  /\ pending = [w \in Users |-> Idle]
  /\ begun = 0
  /\ excused = {}
  /\ inTurn \in BOOLEAN

-----------------------------------------------------------------------------
Exists(t) == files[t] \notin {Never, Deleted}
Done(t) == Exists(t) /\ files[t].status = "done"

\* checkDependencies.
DependenciesExist(t) == \A d \in files[t].dependsOn : Exists(d)
Satisfied(t) == \A d \in files[t].dependsOn : Done(d)

Save(f, content) == <<[file |-> f, content |-> content]>>
\* A list with and without a task.
With(l, t) == Save(l, [tasks |-> files[l].tasks \cup {t}])
Without(l, t) == Save(l, [tasks |-> files[l].tasks \ {t}])
On(t) == {l \in Lists : t \in files[l].tasks}
Marked(t, status) == Save(t, [files[t] EXCEPT !.status = status])
If(condition, seq) == IF condition THEN seq ELSE <<>>

\* What is to be read later of each of some tasks, in some order.
Each(what, order, t) == [i \in DOMAIN order |-> [do |-> what, task |-> order[i], other |-> t]]

\* A call begins, with the writes that follow its first reads.
Begins(w, writes, todo) ==
  /\ pending[w] = Idle
  /\ begun < (IF inTurn THEN MaxCalls ELSE MaxOverlapping) /\ begun' = begun + 1
  /\ inTurn => w = 1
  /\ pending' = [pending EXCEPT ![w] = [writes |-> writes, todo |-> todo]]
  /\ UNCHANGED <<files, inTurn>>

\* Identifiers are never used again.
Fresh(t) == files[t] = Never /\ \A w \in Users : \A i \in DOMAIN pending[w].writes : pending[w].writes[i].file # t

CreateTask(w, l, t, deps) ==
  /\ Fresh(t)
  /\ \A d \in deps : Exists(d)
  /\ \E order \in SetToSeqs(deps) :
       Begins(w, Save(t, NewTask(deps)) \o With(l, t), Each("link", order, t))
  /\ UNCHANGED excused

\* startTask; it throws when a dependency is not done.
StartTask(w, t) ==
  /\ Exists(t) /\ Satisfied(t)
  /\ Begins(w, Marked(t, "in-progress"), <<>>)
  /\ UNCHANGED excused

\* completeTask, and then the tasks that it blocks.
CompleteTask(w, t) ==
  /\ Exists(t)
  /\ \E order \in SetToSeqs(files[t].blocks) : Begins(w, Marked(t, "done"), Each("unblock", order, t))
  /\ UNCHANGED excused

\* blockTask, of a caller with reasons of its own.
BlockTask(w, t) ==
  /\ Exists(t)
  /\ Begins(w, Marked(t, "blocked"), <<>>)
  /\ excused' = excused \cup {<<t, "held">>}

BlocksIt(t, d) == If(~Done(d), Each("block", <<t>>, d))

\* The checks of addDependency, which look for a circle of two tasks only.
CanDepend(t, d) == t # d /\ t \notin files[d].dependsOn

\* addDependency: the task and the dependency are read, then both written.
AddDependency(w, t, d) ==
  /\ Exists(t) /\ Exists(d) /\ CanDepend(t, d)
  /\ d \notin files[t].dependsOn
  /\ Begins(w,
       Save(t, [files[t] EXCEPT !.dependsOn = @ \cup {d}])
         \o If(t \notin files[d].blocks, Save(d, [files[d] EXCEPT !.blocks = @ \cup {t}])),
       BlocksIt(t, d))
  /\ UNCHANGED excused

RemoveDependency(w, t, d) ==
  /\ Exists(t) /\ d \in files[t].dependsOn
  /\ Begins(w,
       Save(t, [files[t] EXCEPT !.dependsOn = @ \ {d}])
         \o If(Exists(d), Save(d, [files[d] EXCEPT !.blocks = @ \ {t}])),
       If(files[t].status = "blocked", Each("unblock", <<t>>, d)))
  /\ UNCHANGED excused

\* deleteTask: its dependencies, the tasks that it blocks, which stay
\* blocked, its lists, and its file.
DeleteTask(w, t) ==
  /\ Exists(t)
  /\ \E dependsOn \in SetToSeqs(files[t].dependsOn), blocks \in SetToSeqs(files[t].blocks) :
       Begins(w, <<>>, Each("unlink", dependsOn, t) \o Each("undepend", blocks, t) \o Each("drop", <<t>>, t))
  /\ excused' = excused \cup {<<b, "held">> : b \in files[t].blocks}

\* moveTask: the lists are read before any is written, so a task that is
\* moved to the list that has it is in none afterwards; the task is written
\* back as it was read.
MovesTo(t, l, old) ==
  If(old \in On(t), Without(old, t)) \o If(l \notin On(t), With(l, t))

MoveTask(w, t, l) ==
  /\ Exists(t)
  /\ \E old \in Lists :
       /\ old \in On(t) \/ On(t) = {}
       /\ Begins(w, MovesTo(t, l, old) \o Save(t, files[t]), <<>>)
  /\ excused' = IF l \in On(t) THEN excused \cup {<<t, "moved">>} ELSE excused

-----------------------------------------------------------------------------
\* The next write of a call.
Write(w) ==
  /\ pending[w].writes # <<>>
  /\ LET next == Head(pending[w].writes)
     IN  files' = [files EXCEPT ![next.file] = next.content]
  /\ pending' = [pending EXCEPT ![w].writes = Tail(@)]
  /\ UNCHANGED <<begun, excused, inTurn>>

\* The writes that a call makes of what it reads next.
NotLinked(d, t) == <<>>                      \* mutant: the other side is not told
Linked(d, t) == If(Exists(d) /\ t \notin files[d].blocks, Save(d, [files[d] EXCEPT !.blocks = @ \cup {t}]))
Unlinked(d, t) == If(Exists(d), Save(d, [files[d] EXCEPT !.blocks = @ \ {t}]))
Undepended(b, t) == If(Exists(b), Save(b, [files[b] EXCEPT !.dependsOn = @ \ {t}]))
Blocked(t) == If(Exists(t), Marked(t, "blocked"))
Unblocked(b) == If(Exists(b) /\ files[b].status = "blocked", Marked(b, IF Satisfied(b) THEN "open" ELSE "blocked"))
Erased(t) == Save(t, Deleted)                \* mutant: the lists are not looked at
Dropped(t) ==
  LET on == SetToSeq(On(t))
  IN  [i \in DOMAIN on |-> [file |-> on[i], content |-> [tasks |-> files[on[i]].tasks \ {t}]]] \o Save(t, Deleted)

Rest(todo) == Tail(todo)

Read(w) ==
  /\ pending[w].writes = <<>> /\ pending[w].todo # <<>>
  /\ LET next == Head(pending[w].todo)
         writes == CASE next.do = "link" -> Linked(next.task, next.other)
                     [] next.do = "unlink" -> Unlinked(next.task, next.other)
                     [] next.do = "undepend" -> Undepended(next.task, next.other)
                     [] next.do = "block" -> Blocked(next.task)
                     [] next.do = "unblock" -> Unblocked(next.task)
                     [] next.do = "drop" -> Dropped(next.task)
     IN  pending' = [pending EXCEPT ![w] = [writes |-> writes, todo |-> Rest(@.todo)]]
  /\ UNCHANGED <<files, begun, excused, inTurn>>

Step(w) == Write(w) \/ Read(w)

Next ==
  \E w \in Users :
    \/ \E t \in Tasks, l \in Lists, deps \in SUBSET Tasks : CreateTask(w, l, t, deps)
    \/ \E t \in Tasks : StartTask(w, t) \/ CompleteTask(w, t) \/ BlockTask(w, t) \/ DeleteTask(w, t)
    \/ \E t, d \in Tasks : AddDependency(w, t, d) \/ RemoveDependency(w, t, d)
    \/ \E t \in Tasks, l \in Lists : MoveTask(w, t, l)
    \/ Step(w)

Spec == Init /\ [][Next]_vars

-----------------------------------------------------------------------------
\* The state keeps its type, and no task depends on itself.
TypeOK ==
  /\ \A t \in Tasks : files[t] \in Task \cup {Never, Deleted} /\ (Exists(t) => t \notin files[t].dependsOn)
  /\ \A l \in Lists : files[l] \in [tasks : SUBSET Tasks]
  /\ \A w \in Users : \A i \in DOMAIN pending[w].todo : pending[w].todo[i].task \in Tasks
  /\ begun \in 0..MaxCalls

Settled == inTurn /\ Quiet

\* Where calls do not overlap, a task lists its dependencies exactly where
\* they list it as blocked, and none that was deleted, after any sequence of
\* calls.
LinksAgree ==
  Settled => \A t \in Tasks : Exists(t) =>
    /\ DependenciesExist(t)
    /\ \A d \in Tasks : Exists(d) => (d \in files[t].dependsOn <=> t \in files[d].blocks)

\* Where calls do not overlap, a blocked task waits for one that is not done,
\* unless a caller blocked it or what it waited for was deleted.
BlockedHasCause ==
  Settled => \A t \in Tasks : Exists(t) /\ files[t].status = "blocked" =>
    <<t, "held">> \in excused \/ ~Satisfied(t)

\* Where calls do not overlap, a task is in one list, and a list has tasks
\* that exist, unless a task was moved to the list that it was in.
InOneList ==
  Settled => \A t \in Tasks :
    \/ Cardinality(On(t)) = IF Exists(t) THEN 1 ELSE 0
    \/ <<t, "moved">> \in excused /\ On(t) = {}

\* The lists and the statuses of tasks, after any sequence of calls.
ListsKept == TypeOK /\ InOneList /\ BlockedHasCause
=============================================================================
