------------------------------ MODULE TaskQueue ------------------------------
(***************************************************************************)
(* What the "sequential tasks management" of the Configurator promises     *)
(* (src/UNS/Configurator/Configurator.h): the requests it receives are     *)
(* executed one at a time and in the order in which they came, services    *)
(* change state only on behalf of the task in process, and a task is over  *)
(* only when every service it touched has reached its state. Once the      *)
(* process is closing, the requests that are left are dropped and the      *)
(* services go down, whether or not the task that closes it is over.       *)
(***************************************************************************)
EXTENDS Naturals, Sequences

CONSTANTS Tasks, None

VARIABLES
    pending,   \* the tasks that have come and have not been started
    current,   \* the task in process, or None
    busy,      \* some service is on its way from one state to another
    closing    \* the process is to stop

taskVars == <<pending, current, busy, closing>>

TaskTypeOK ==
    /\ pending \in Seq(Tasks)
    /\ current \in Tasks \cup {None}
    /\ busy \in BOOLEAN
    /\ closing \in BOOLEAN

\* No service is on its way while no task is in process.
QuietBetweenTasks == current = None /\ ~closing => ~busy

TaskInit ==
    /\ pending \in Seq(Tasks)
    /\ current = None
    /\ ~busy
    /\ closing = FALSE

Submit ==
    /\ \E t \in Tasks : pending' = Append(pending, t)
    /\ UNCHANGED <<current, busy, closing>>

\* The oldest task starts; it may itself submit a task.
Start ==
    /\ ~closing
    /\ pending # <<>>
    /\ current' = Head(pending)
    /\ \/ pending' = Tail(pending)
       \/ \E t \in Tasks : pending' = Append(Tail(pending), t)
    /\ busy' \in BOOLEAN
    /\ closing' \in BOOLEAN

StartWhenIdle == current = None /\ Start

\* Services change state for the current task, or because the process closes.
Work ==
    /\ current # None \/ closing
    /\ busy' \in BOOLEAN
    /\ UNCHANGED <<pending, current>>
    /\ closing' \in {closing, TRUE}

Finish ==
    /\ current # None
    /\ closing \/ ~busy
    /\ UNCHANGED busy
    /\ current' = None
    /\ UNCHANGED <<pending, closing>>

\* The next task starts in the step that ends the one before it.
FinishAndStart == current # None /\ ~busy /\ Start

\* A request is dropped, whatever its place, with the end of the current task
\* if that comes in the same step.
Drop ==
    /\ closing
    /\ \E i \in DOMAIN pending :
          pending' = SubSeq(pending, 1, i - 1)
                     \o SubSeq(pending, i + 1, Len(pending))
    /\ current' \in {current, None}
    /\ UNCHANGED <<busy, closing>>

TaskNext ==
    \/ Submit \/ StartWhenIdle \/ Work \/ Finish \/ FinishAndStart \/ Drop

TaskSpec == TaskInit /\ [][TaskNext]_taskVars
==============================================================================
