---------------------- MODULE ConfiguratorTasksProofs -----------------------
(***************************************************************************)
(* Proofs about the tasks of Configurator where no service fails to start  *)
(* and nobody suspends, resumes or removes the device (CalmWorld): the     *)
(* invariant Sane (CalmSane), and from it DependenciesLoaded,              *)
(* LockedIsAnswered and EndedIsClean; then the refinement of TaskQueue     *)
(* (TasksInOrder).                                                         *)
(*                                                                         *)
(* The order of the first part is that of the code's calls, from the       *)
(* inside out: the batch commands that load and unload, the operations on  *)
(* all services, the switch of ExecuteTask, the status of a service, the   *)
(* end of a task. The second part starts with lists of tasks, goes on with *)
(* what leaves the waiting tasks and the one in process alone, which is    *)
(* most of the functions, and ends with the steps of TaskQueue.            *)
(***************************************************************************)
EXTENDS ConfiguratorProofs

-----------------------------------------------------------------------------
(* Batch commands that load                                                *)

\* What is in the prerequisites and the list that is left.
LEMMA ItemsConcat ==
    ASSUME NEW S, NEW p \in Seq(S), NEW q \in Seq(S)
    PROVE  Items(p \o q) \subseteq Items(p) \cup Items(q)
<1> SUFFICES ASSUME NEW x \in Items(p \o q) PROVE x \in Items(p) \cup Items(q)
  OBVIOUS
<1>1. /\ DOMAIN p = 1..Len(p) /\ DOMAIN q = 1..Len(q) /\ Len(p) \in Nat /\ Len(q) \in Nat
      /\ DOMAIN (p \o q) = 1..(Len(p) + Len(q))
      /\ \A i \in 1..(Len(p) + Len(q)) : (p \o q)[i] = IF i <= Len(p) THEN p[i] ELSE q[i - Len(p)]
  OBVIOUS
<1>2. PICK i \in 1..(Len(p) + Len(q)) : x = (p \o q)[i]
  BY <1>1 DEF Items
<1>3. CASE i <= Len(p)
  BY <1>1, <1>2, <1>3 DEF Items
<1>4. CASE ~(i <= Len(p))
  <2>1. i - Len(p) \in 1..Len(q) /\ x = q[i - Len(p)]
    BY <1>1, <1>2, <1>4
  <2> QED BY <1>1, <2>1 DEF Items
<1> QED BY <1>3, <1>4

\* The tasks that the proofs tell apart.
LEMMA TasksDiffer ==
    /\ Begin # On /\ Begin # Off /\ On # Off /\ Begin # Change("AMT", TRUE)
    /\ Begin # Change("PFW", TRUE) /\ On # Change("AMT", TRUE) /\ On # Change("PFW", TRUE)
    /\ Change("PFW", TRUE) # Change("AMT", TRUE) /\ Off \notin LoadTasks
    /\ Begin # Task("STOP") /\ On # Task("STOP") /\ Off # Task("STOP")
<1>1. \A c, v : Begin # Change(c, v)
  BY DEF Begin, Task, Change
<1>2. \A c, v, d, u : Change(c, v) = Change(d, u) => c = d /\ v = u
  BY DEF Change
<1>3. \A c, v : Task("STOP") # Change(c, v)
  BY DEF Task, Change
<1>4. Begin # Task("STOP")
  BY DEF Begin, Task
<1> QED BY <1>1, <1>2, <1>3, <1>4 DEF On, Off, LoadTasks

\* Their scopes, spelled out.
LEMMA Scopes ==
    /\ Scope(Begin) = Service \ {"AmtEnableLast", "WaitingForPfwLast"}
    /\ Scope(Change("AMT", TRUE)) = {"PowerOperations", "TimeSync", "AmtEnableLast"}
    /\ Scope(Change("PFW", TRUE)) = {"TimeSync", "WaitingForPfwLast"}
    /\ Scope(On) = {"TimeSync"}
  BY TasksDiffer, Zenon DEF Scope

\* The batch b was started in the state l by the task t.
Under(l, t, b) ==
    /\ Good(b.l, t) /\ Mailed(l.queue[CONF], b.l.queue[CONF])
    /\ b.l.loaded = l.loaded /\ Frame(l, b.l)

\* A visit keeps what the batch began with.
LEMMA UnderVisit ==
    ASSUME NEW l, NEW t, NEW b \in Batches, b.list # <<>>, Under(l, t, b),
           NEW w \in Worlds, w.bad = {},
           NEW s, s = Head(b.list),
           Visitable(b, t, s)
    PROVE  LET c == Visit(b, w, "load") IN
           c \in Batches /\ Under(l, t, c) /\ Visited(b, c, s)
<1> DEFINE c == Visit(b, w, "load")
<1>1. /\ Good(b.l, t) /\ Mailed(l.queue[CONF], b.l.queue[CONF]) /\ b.l.loaded = l.loaded
      /\ Frame(l, b.l)
  BY DEF Under
<1>2. /\ c \in Batches /\ Good(c.l, t) /\ Mailed(b.l.queue[CONF], c.l.queue[CONF])
      /\ c.l.loaded = b.l.loaded /\ Visited(b, c, s) /\ Frame(b.l, c.l)
  BY <1>1, LoadVisit
<1> HIDE DEF c
<1>3. Under(l, t, c)
  BY <1>1, <1>2, MailedTransitive, FrameTransitive DEF Under
<1> QED BY <1>2, <1>3 DEF c

\* The batch that has not begun.
LEMMA UnderStart ==
    ASSUME NEW l, NEW t, Good(l, t), NEW list \in Seq(Service)
    PROVE  LET b == BatchOf(l, list) IN
           /\ b \in Batches /\ Under(l, t, b) /\ b.l = l /\ b.list = list
           /\ b.ret = "NOTHING_TO_DO" /\ b.seen = {}
<1> DEFINE b == BatchOf(l, list)
<1>1. b.l = l /\ b.list = list /\ b.ret = "NOTHING_TO_DO" /\ b.seen = {}
  BY DEF BatchOf
<1>2. b \in Batches
  BY DEF BatchOf, Batches, Ret, Good
<1> HIDE DEF b
<1>3. Frame(l, b.l)
  BY <1>1 DEF Frame
<1>4. Under(l, t, b)
  BY <1>1, <1>3, MailedSame DEF Under
<1> QED BY <1>1, <1>2, <1>4 DEF b

\* The batch of the scan: everything waits but the first service and the
\* one that has no place in the mount order.
LEMMA ScanBatch ==
    ASSUME NEW l, Good(l, Begin), l.loaded = {}, l.locked = {}, l.waiting["load"] = {},
           ~l.onToggle, NEW w \in Worlds, w.bad = {},
           NEW list \in Seq(Service), list # <<>>, Items(list) \subseteq l.toLoad,
           NEW r, r = Execute(l, w, list, "load")
    PROVE  r \in Batches /\ Under(l, Begin, r) /\ r.ret = "SUCCESS"
<1> DEFINE Stage(b) ==
              /\ b \in Batches /\ Under(l, Begin, b) /\ b.ret # "FAILURE"
              /\ b.l.toLoad = l.toLoad /\ Items(b.list) \subseteq l.toLoad
              /\ b.l.locked \subseteq {"First", "HostChanges"}
              /\ b.l.waiting["load"] \cap {"First", "HostChanges"} = {}
           I == {b \in Batches : Stage(b) /\ b.ret = "SUCCESS"}
<1>1. /\ l \in States /\ "load" \in Op /\ Base \subseteq l.toLoad /\ Loading(l, Begin)
      /\ l.toLoad \subseteq Service
  BY StateSets DEF Good, Op
<1>2. l.toLoad \subseteq Scope(Begin) /\ Begin # On
  <2>1. Begin # On
    BY DEF Begin, On, Task, Change
  <2>2. Scope(Begin) = Service \ {"AmtEnableLast", "WaitingForPfwLast"}
    BY Scopes
  <2>3. Extra \subseteq Scope(Begin)
    BY <2>2, Services DEF Extra
  <2> QED BY <1>1, <2>1, <2>2, <2>3 DEF Loading
<1>3. ASSUME NEW b, Stage(b), b.list # <<>>,
             b.ret = "SUCCESS" \/ (b.l.locked = {})
      PROVE  Visit(b, w, "load") \in I
  <2> DEFINE s == Head(b.list)
             c == Visit(b, w, "load")
  <2>1. b.list \in Seq(Service) /\ s \in l.toLoad /\ b.l.loaded = {} /\ b.l
           \in States /\ Items(Tail(b.list)) \subseteq l.toLoad
        /\ ~b.l.onToggle /\ Tail(b.list) \in Seq(Service) /\ s \in Service
    <3>1. b.list \in Seq(Service) /\ b.l \in States
      BY <1>3 DEF Batches
    <3>2. /\ Items(b.list) = {s} \cup Items(Tail(b.list))
          /\ Tail(b.list) \in Seq(Service) /\ s \in Service
      BY <1>3, <3>1, ItemsTail
    <3> QED BY <1>3, <3>1, <3>2 DEF Under, Frame
  <2>2. ReadyToOperation(b.l, s, "load") => s \in {"First", "HostChanges"}
    <3>1. Prerequisites(b.l, s, "load") = {t \in l.toLoad : Before(t, s)}
      BY <1>3, <2>1, LoadPrerequisites
    <3>2. "First" \in l.toLoad
      BY <1>1 DEF Base
    <3>3. s \notin {"First", "HostChanges"} => "First" \in Prerequisites(b.l, s, "load")
      BY <1>1, <2>1, <3>1, <3>2, MountFacts
    <3> QED BY <2>1, <3>3, LoadPrerequisites
  <2>3. s \in {"First", "HostChanges"} => ReadyToOperation(b.l, s, "load")
    BY <2>1, LoadPrerequisites, MountFacts
  <2>4. c \in Batches /\ Under(l, Begin, c) /\ Visited(b, c, s)
    <3>1. Visitable(b, Begin, s)
      BY <1>2, <1>3, <2>1, <2>2 DEF Visitable
    <3> QED BY <1>3, <3>1, UnderVisit
  <2>5. /\ GetPrerequisites(b.l, s, "load") \in Seq(Service)
        /\ Items(GetPrerequisites(b.l, s, "load")) \subseteq l.toLoad
    <3>1. /\ Items(GetPrerequisites(b.l, s, "load")) = Prerequisites(b.l, s, "load")
          /\ GetPrerequisites(b.l, s, "load") \in Seq(Service)
      BY <2>1, PrerequisitesItems
    <3>2. Prerequisites(b.l, s, "load") \subseteq b.l.toLoad
      BY DEF Prerequisites
    <3> QED BY <1>3, <3>1, <3>2
  <2>6. Items(GetPrerequisites(b.l, s, "load") \o Tail(b.list)) \subseteq l.toLoad
    <3> DEFINE p == GetPrerequisites(b.l, s, "load")
               q == Tail(b.list)
    <3>1. /\ p \in Seq(Service) /\ q \in Seq(Service) /\ Items(p) \subseteq l.toLoad
          /\ Items(q) \subseteq l.toLoad
      BY <2>1, <2>5
    <3> HIDE DEF p, q
    <3>2. Items(p \o q) \subseteq Items(p) \cup Items(q)
      BY <3>1, ItemsConcat
    <3>3. Items(p \o q) \subseteq l.toLoad
      BY <3>1, <3>2
    <3> QED BY <3>3 DEF p, q
  <2> HIDE DEF c, s
  <2>7. s # "TimeSync" \/ ~ReadyToOperation(b.l, s, "load")
    BY <2>2
  <2>8. Stage(c) /\ c.ret = "SUCCESS"
    BY <1>3, <2>1, <2>2, <2>3, <2>4, <2>6, <2>7 DEF Visited
  <2> QED BY <2>4, <2>8 DEF c
<1> DEFINE start == BatchOf(l, list)
<1>4. /\ start \in Batches /\ Under(l, Begin, start) /\ start.l = l /\ start.list = list
      /\ start.ret = "NOTHING_TO_DO"
  BY UnderStart
<1> HIDE DEF start
<1>5. Stage(start)
  BY <1>4
<1>6. Iteration(start, w, "load") \in I
  <2> HIDE DEF I, Stage
  <2> QED BY <1>3, <1>4, <1>5 DEF Iteration
<1>7. \A b \in I : b.list # <<>> => Visit(b, w, "load") \in I
  <2> SUFFICES ASSUME NEW b \in I, b.list # <<>> PROVE Visit(b, w, "load") \in I
    OBVIOUS
  <2>1. Stage(b) /\ b.ret = "SUCCESS"
    OBVIOUS
  <2> HIDE DEF I, Stage
  <2> QED BY <1>3, <2>1
<1>8. I \subseteq Batches
  OBVIOUS
<1> HIDE DEF I
<1>9. r \in I
  BY <1>1, <1>6, <1>7, <1>8, ExecuteRule DEF start
<1> QED BY <1>9 DEF I

\* A batch command passes over s: it is locked or already as it should be.
PassedOver(l, s, op) == s \in l.locked \/ DoneCriteria(l, s, op)

\* A visit that leaves the result at NOTHING_TO_DO passed over the service.
LEMMA VisitIdle ==
    ASSUME NEW b \in Batches, b.list # <<>>, NEW w, NEW op, NEW c, c = Visit(b, w, op),
           c.ret = "NOTHING_TO_DO"
    PROVE  /\ b.ret = "NOTHING_TO_DO" /\ c.l = b.l /\ c.list = Tail(b.list)
           /\ PassedOver(b.l, Head(b.list), op)
<1> DEFINE l == b.l
           s == Head(b.list)
           done == s \in l.locked \/ DoneCriteria(l, s, op)
           ready == ReadyToOperation(l, s, op)
           todo == IF b.ret = "FAILURE" THEN "FAILURE" ELSE "SUCCESS"
<1>1. b = [l |-> b.l, list |-> b.list, ret |-> b.ret, seen |-> b.seen]
  BY DEF Batches
<1>2. todo # "NOTHING_TO_DO"
  OBVIOUS
<1>3. CASE done
  <2>1. c = [b EXCEPT !.list = Tail(b.list)]
    BY <1>3 DEF Visit
  <2>2. c.l = b.l /\ c.list = Tail(b.list) /\ c.ret = b.ret
    BY <1>1, <2>1
  <2> QED BY <1>3, <2>2 DEF PassedOver
<1>4. CASE ~done /\ ready
  <2> DEFINE r == DoOperation([l EXCEPT !.locked = @ \cup {s}], w, s, op)
  <2>1. c = [l    |-> IF r.ok THEN r.l ELSE [r.l EXCEPT !.locked = @ \ {s}],
               list |-> Tail(b.list),
               ret  |-> IF r.ok THEN todo ELSE "FAILURE",
               seen |-> IF r.ok THEN {} ELSE b.seen]
    BY <1>4 DEF Visit
  <2> HIDE DEF r, todo
  <2>2. c.ret = IF r.ok THEN todo ELSE "FAILURE"
    BY <2>1
  <2> QED BY <1>2, <2>2
<1>5. CASE ~done /\ ~ready /\ s \in b.seen
  <2>1. c = [b EXCEPT !.list = Tail(b.list), !.ret = todo]
    BY <1>5 DEF Visit
  <2> HIDE DEF todo
  <2>2. c.ret = todo
    BY <1>1, <2>1
  <2> QED BY <1>2, <2>2
<1>6. CASE ~done /\ ~ready /\ s \notin b.seen
  <2>1. c = [l    |-> [l EXCEPT !.waiting[op] = @ \cup {s}],
               list |-> GetPrerequisites(l, s, op) \o Tail(b.list),
               ret  |-> todo,
               seen |-> b.seen \cup {s}]
    BY <1>6 DEF Visit
  <2> HIDE DEF todo
  <2>2. c.ret = todo
    BY <2>1
  <2> QED BY <1>2, <2>2
<1> QED BY <1>3, <1>4, <1>5, <1>6

\* A batch command that returns NOTHING_TO_DO did nothing, because all its
\* services are passed over. The list is not longer than the number of visits,
\* so every service was visited.
LEMMA NothingToDo ==
    ASSUME NEW l \in States, NEW list \in Seq(Service), Len(list) <= 11,
           NEW w \in Worlds, NEW op \in Op,
           Execute(l, w, list, op).ret = "NOTHING_TO_DO"
    PROVE  /\ Execute(l, w, list, op).l = l
           /\ \A s \in Items(list) : PassedOver(l, s, op)
<1> DEFINE start == BatchOf(l, list)
           f == Visits(start, w, op)
           Left(b) == {s \in Items(list) : ~PassedOver(l, s, op)} \subseteq Items(b.list)
           P(n) == /\ f[n] \in Batches
                   /\ f[n].ret = "NOTHING_TO_DO" =>
                         /\ f[n].l = l /\ Left(f[n])
                         /\ f[n].list = <<>> \/ Len(f[n].list) + n <= Len(list)
           T == {n \in Nat : P(n)}
<1>1. start \in Batches /\ start.l = l /\ start.list = list
  BY DEF BatchOf, Batches, Ret
<1>2. f[0] = start /\ \A n \in Nat : f[n + 1] = Iteration(f[n], w, op)
  BY <1>1, VisitsSteps
<1>3. Execute(l, w, list, op) = f[MaxVisits]
  BY DEF Execute, BatchOf
<1> HIDE DEF f, start
<1>4. 0 \in T
  <2>1. f[0] \in Batches /\ f[0].l = l /\ Left(f[0])
    BY <1>1, <1>2
  <2>2. Len(f[0].list) + 0 <= Len(list)
    <3>1. Len(list) \in Nat
      OBVIOUS
    <3>2. f[0].list = list
      BY <1>1, <1>2
    <3>3. \A k \in Nat : k + 0 <= k
      OBVIOUS
    <3> QED BY <3>1, <3>2, <3>3
  <2>3. P(0)
    BY <2>1, <2>2
  <2> HIDE DEF P
  <2> QED BY <2>3
<1>5. ASSUME NEW n \in T PROVE n + 1 \in T
  <2>1. n \in Nat /\ P(n)
    OBVIOUS
  <2> DEFINE b == f[n]
             c == f[n + 1]
  <2>2. c = Iteration(b, w, op) /\ b \in Batches
    BY <1>2, <2>1
  <2>3. CASE b.list = <<>>
    <3>1. c = b
      BY <2>2, <2>3 DEF Iteration
    <3>2. P(n + 1)
      BY <2>1, <2>3, <3>1
    <3> HIDE DEF P
    <3> QED BY <2>1, <3>2
  <2>4. CASE b.list # <<>>
    <3>1. c = Visit(b, w, op)
      BY <2>2, <2>4 DEF Iteration
    <3>2. c \in Batches
      BY <2>2, <2>4, <3>1, VisitSound
    <3>3. ASSUME c.ret = "NOTHING_TO_DO"
          PROVE  c.l = l /\ Left(c) /\ (c.list = <<>> \/ Len(c.list) + (n + 1) <= Len(list))
      <4>1. /\ b.ret = "NOTHING_TO_DO" /\ c.l = b.l /\ c.list = Tail(b.list)
            /\ PassedOver(b.l, Head(b.list), op)
        BY <2>2, <2>4, <3>1, <3>3, VisitIdle
      <4>2. b.l = l /\ Left(b) /\ Len(b.list) + n <= Len(list)
        BY <2>1, <2>4, <4>1
      <4>3. b.list \in Seq(Service)
        BY <2>2 DEF Batches
      <4>4. Items(b.list) = {Head(b.list)} \cup Items(Tail(b.list))
        BY <2>4, <4>3, ItemsTail
      <4>5. Left(c)
        BY <4>1, <4>2, <4>4
      <4>6. Len(Tail(b.list)) = Len(b.list) - 1 /\ Len(b.list) \in Nat /\ Len(list) \in Nat
        BY <2>4, <4>3
      <4>7. Len(c.list) + (n + 1) <= Len(list)
        <5>1. \A i, j, k \in Nat : i + j <= k => (i - 1) + (j + 1) <= k
          OBVIOUS
        <5>2. Len(c.list) = Len(b.list) - 1
          BY <4>1, <4>6
        <5> QED BY <2>1, <4>2, <4>6, <5>1, <5>2
      <4> QED BY <4>1, <4>2, <4>5, <4>7
    <3>4. P(n + 1)
      BY <3>2, <3>3
    <3> HIDE DEF P
    <3> QED BY <2>1, <3>4
  <2> QED BY <2>3, <2>4
<1>6. \A n \in Nat : n \in T
  <2> HIDE DEF T
  <2>1. T \subseteq Nat
    BY DEF T
  <2> QED BY <1>4, <1>5, <2>1, Induction
<1>7. P(MaxVisits) /\ MaxVisits \in Nat /\ MaxVisits >= 11
  BY <1>6, EveryServiceVisited
<1> DEFINE b == f[MaxVisits]
<1>8. b.ret = "NOTHING_TO_DO" /\ b \in Batches /\ b.l = l /\ Left(b)
      /\ (b.list = <<>> \/ Len(b.list) + MaxVisits <= Len(list))
  BY <1>3, <1>7
<1>9. b.list \in Seq(Service)
  BY <1>8 DEF Batches
<1> HIDE DEF b
<1>10. b.list = <<>>
  <2>1. Len(b.list) \in Nat /\ Len(list) \in Nat
    BY <1>9
  <2>2. Len(b.list) = 0 => b.list = <<>>
    BY <1>9
  <2> QED BY <1>7, <1>8, <2>1, <2>2
<1>11. Items(b.list) = {}
  BY <1>10 DEF Items
<1> QED BY <1>3, <1>8, <1>11 DEF b

\* A service that is ready is started, or is left out.
LEMMA ReadyVisited ==
    ASSUME NEW b, NEW c, NEW s, Visited(b, c, s), ReadyToOperation(b.l, s, "load"),
           ~b.l.onToggle, b.ret # "FAILURE", c.l.loaded = b.l.loaded
    PROVE  /\ c.list = Tail(b.list) /\ c.ret # "FAILURE" /\ c.l.waiting = b.l.waiting
           /\ b.l.locked \subseteq c.l.locked /\ c.l.locked \subseteq b.l.locked \cup {s}
           /\ \/ c.l.toLoad = b.l.toLoad /\ s \in c.l.locked \cup c.l.loaded
              \/ c.l.toLoad = b.l.toLoad \ {s} /\ s = "TimeSync"
           /\ s \notin b.l.locked \cup b.l.loaded => c.ret = "SUCCESS"
  BY DEF Visited

\* While a later task loads, the firmware's services are ready as soon as the
\* basic ones are loaded, and the marker behind them.
LEMMA NextToLoad ==
    ASSUME NEW l, NEW t, l \in States, Loading(l, t),
           t \in {Change("AMT", TRUE), Change("PFW", TRUE), On}
    PROVE  /\ ReadyToOperation(l, "TimeSync", "load")
           /\ ReadyToOperation(l, "PowerOperations", "load")
           /\ \A z \in {"AmtEnableLast", "WaitingForPfwLast"} :
                 Prerequisites(l, z, "load") \subseteq l.loaded
                    \cup {"PowerOperations", "TimeSync"}
<1>1. Scope(t) \subseteq {"PowerOperations", "TimeSync", "AmtEnableLast", "WaitingForPfwLast"}
  BY Scopes
<1>2. l.toLoad \ l.loaded
         \subseteq {"PowerOperations", "TimeSync", "AmtEnableLast",
            "WaitingForPfwLast", "HostChanges"}
  BY <1>1 DEF Loading, Extra
<1>3. l.toLoad \subseteq Service
  BY StateSets
<1>4. ASSUME NEW s \in {"TimeSync", "PowerOperations"} PROVE ReadyToOperation(l, s, "load")
  <2>1. {x \in l.toLoad : Before(x, s)} \subseteq l.loaded
    BY <1>2, <1>3, MountFacts
  <2> QED BY <2>1, LoadPrerequisites
<1>5. ASSUME NEW z \in {"AmtEnableLast", "WaitingForPfwLast"}
      PROVE  Prerequisites(l, z, "load") \subseteq l.loaded \cup {"PowerOperations", "TimeSync"}
  <2>1. {x \in l.toLoad : Before(x, z)} \subseteq l.loaded \cup {"PowerOperations", "TimeSync"}
    BY <1>2, <1>3, MountFacts
  <2> QED BY <2>1, LoadPrerequisites
<1> QED BY <1>4, <1>5

\* The batches of AMT_ENABLE_CONF and of PFW_ENABLE_CONF.
Later(t, z, list) ==
    \/ /\ t = Change("AMT", TRUE) /\ z = "AmtEnableLast"
       /\ list = <<"PowerOperations", "TimeSync", z>>
    \/ t = Change("PFW", TRUE) /\ z = "WaitingForPfwLast" /\ list = <<"TimeSync", z>>

\* What the two lists have in common.
LEMMA LaterFacts ==
    ASSUME NEW t, NEW z, NEW list, Later(t, z, list)
    PROVE  /\ t \in {Change("AMT", TRUE), Change("PFW", TRUE), On} /\ t # On
           /\ z \in {"AmtEnableLast", "WaitingForPfwLast"} /\ list \in Seq(Service)
           /\ Scope(t) = Items(list) /\ list # <<>> /\ Len(list) <= 11 /\ z \in Items(list)
           /\ "TimeSync" \in Items(list)
           /\ \/ list = <<"PowerOperations", "TimeSync", z>>
              \/ list = <<"TimeSync", z>> /\ "PowerOperations" \notin Scope(t)
<1>1. CASE t = Change("AMT", TRUE)
  <2>1. /\ z = "AmtEnableLast" /\ list = <<"PowerOperations", "TimeSync", "AmtEnableLast">>
    BY <1>1, TasksDiffer DEF Later
  <2>2. /\ Items(list) = {"PowerOperations", "TimeSync", "AmtEnableLast"}
        /\ list \in Seq(Service) /\ Len(list) <= 11 /\ list # <<>>
    BY <2>1, Services DEF Items
  <2>3. Scope(t) = Items(list)
    BY <1>1, <2>2, Scopes
  <2>4. t \in {Change("AMT", TRUE), Change("PFW", TRUE), On} /\ t # On
    BY <1>1, TasksDiffer
  <2>5. /\ z \in Items(list) /\ "TimeSync" \in Items(list)
        /\ z \in {"AmtEnableLast", "WaitingForPfwLast"}
    BY <2>1, <2>2
  <2>6. \/ list = <<"PowerOperations", "TimeSync", z>>
        \/ list = <<"TimeSync", z>> /\ "PowerOperations" \notin Scope(t)
    BY <2>1, <2>2, <2>3
  <2> QED BY <2>2, <2>3, <2>4, <2>5, <2>6
<1>2. CASE t = Change("PFW", TRUE)
  <2>1. /\ z = "WaitingForPfwLast" /\ list = <<"TimeSync", "WaitingForPfwLast">>
    BY <1>2, TasksDiffer DEF Later
  <2>2. /\ Items(list) = {"TimeSync", "WaitingForPfwLast"} /\ list \in Seq(Service)
        /\ Len(list) <= 11 /\ list # <<>>
    BY <2>1, Services DEF Items
  <2>3. Scope(t) = Items(list)
    BY <1>2, <2>2, Scopes
  <2>4. t \in {Change("AMT", TRUE), Change("PFW", TRUE), On} /\ t # On
    BY <1>2, TasksDiffer
  <2>5. /\ z \in Items(list) /\ "TimeSync" \in Items(list)
        /\ z \in {"AmtEnableLast", "WaitingForPfwLast"}
    BY <2>1, <2>2
  <2>6. \/ list = <<"PowerOperations", "TimeSync", z>>
        \/ list = <<"TimeSync", z>> /\ "PowerOperations" \notin Scope(t)
    BY <2>1, <2>2, <2>3
  <2> QED BY <2>2, <2>3, <2>4, <2>5, <2>6
<1> QED BY <1>1, <1>2 DEF Later

\* The batch of a later task does not fail, and returns NOTHING_TO_DO only when
\* everything is loaded. Then LoadNow ends the task, and otherwise the status
\* of a service will.
LEMMA LaterBatch ==
    ASSUME NEW l, NEW t, Good(l, t), l.locked = {}, l.waiting["load"] = {}, ~l.onToggle,
           NEW w \in Worlds, w.bad = {}, NEW z, NEW list, Later(t, z, list),
           Items(list) \subseteq l.toLoad,
           NEW r, r = Execute(l, w, list, "load")
    PROVE  /\ r \in Batches /\ Under(l, t, r) /\ r.ret # "FAILURE"
           /\ r.ret = "NOTHING_TO_DO" => r.l = l /\ Items(list) \subseteq l.loaded
<1> DEFINE Settled1(b, x) == x \in b.l.toLoad => x \in b.l.loaded \cup b.l.locked
           PO == "PowerOperations"
           TS == "TimeSync"
           Basic(b) == /\ b \in Batches /\ Under(l, t, b) /\ b.ret # "FAILURE"
           Stage(b) ==
              \/ /\ b.list = <<PO, TS, z>> /\ b.l.waiting["load"] = {}
                 /\ Items(list) \subseteq b.l.toLoad /\ PO \in Scope(t)
              \/ /\ b.list = <<TS, z>> /\ b.l.waiting["load"] = {}
                 /\ Items(list) \subseteq b.l.toLoad /\ Settled1(b, PO)
              \/ /\ b.list = <<z>> /\ b.l.waiting["load"] = {} /\ z \in b.l.toLoad
                 /\ Settled1(b, PO) /\ Settled1(b, TS)
              \/ Items(b.list) \subseteq (b.l.loaded \cup b.l.locked) \ {"HostChanges"}
           I == {b \in Batches : Basic(b) /\ Stage(b)}
<1>1. /\ t \in {Change("AMT", TRUE), Change("PFW", TRUE), On} /\ t # On
      /\ z \in {"AmtEnableLast", "WaitingForPfwLast"} /\ list \in Seq(Service)
      /\ Scope(t) = Items(list) /\ list # <<>> /\ Len(list) <= 11 /\ z \in Items(list)
      /\ "TimeSync" \in Items(list)
      /\ \/ list = <<"PowerOperations", "TimeSync", z>>
         \/ list = <<"TimeSync", z>> /\ "PowerOperations" \notin Scope(t)
  BY LaterFacts
<1>2. l \in States /\ "load" \in Op
  BY DEF Good, Op
<1>3. ASSUME NEW b, Basic(b), Stage(b), b.list # <<>>
      PROVE  Visit(b, w, "load") \in I
  <2> DEFINE s == Head(b.list)
             c == Visit(b, w, "load")
  <2>1. b.l \in States /\ Loading(b.l, t) /\ ~b.l.onToggle /\ b.l.loaded = l.loaded
        /\ b.list \in Seq(Service) /\ b.ret # "FAILURE"
    BY <1>3 DEF Under, Good, Frame, Batches
  <2>2. /\ ReadyToOperation(b.l, TS, "load") /\ ReadyToOperation(b.l, PO, "load")
        /\ Prerequisites(b.l, z, "load") \subseteq b.l.loaded \cup {PO, TS}
    BY <1>1, <2>1, NextToLoad
  <2>3. ASSUME Visitable(b, t, s)
        PROVE  c \in Batches /\ Under(l, t, c) /\ Visited(b, c, s) /\ c.l.loaded = b.l.loaded
    <3>1. c \in Batches /\ Under(l, t, c) /\ Visited(b, c, s)
      BY <1>3, <2>3, UnderVisit
    <3> QED BY <2>1, <3>1 DEF Under
  <2>4. CASE /\ b.list = <<PO, TS, z>> /\ b.l.waiting["load"] = {}
             /\ Items(list) \subseteq b.l.toLoad /\ PO \in Scope(t)
    <3>1. s = PO /\ Tail(b.list) = <<TS, z>>
      BY <2>4
    <3>2. Visitable(b, t, s)
      <4>1. PO \in b.l.toLoad
        BY <1>1, <2>4
      <4> QED BY <1>1, <2>2, <2>4, <3>1, <4>1 DEF Visitable
    <3>3. c \in Batches /\ Under(l, t, c) /\ Visited(b, c, s) /\ c.l.loaded = b.l.loaded
      BY <2>3, <3>2
    <3> HIDE DEF c, s
    <3>4. /\ c.list = Tail(b.list) /\ c.ret # "FAILURE" /\ c.l.waiting = b.l.waiting
          /\ c.l.toLoad = b.l.toLoad /\ s \in c.l.locked \cup c.l.loaded
      BY <2>1, <2>2, <3>1, <3>3, ReadyVisited
    <3>5. Basic(c) /\ Stage(c)
      BY <2>4, <3>1, <3>3, <3>4
    <3> QED BY <3>3, <3>5 DEF c
  <2>5. CASE /\ b.list = <<TS, z>> /\ b.l.waiting["load"] = {}
             /\ Items(list) \subseteq b.l.toLoad /\ Settled1(b, PO)
    <3>1. s = TS /\ Tail(b.list) = <<z>>
      BY <2>5
    <3>2. Visitable(b, t, s)
      BY <1>1, <2>2, <2>5, <3>1 DEF Visitable
    <3>3. c \in Batches /\ Under(l, t, c) /\ Visited(b, c, s) /\ c.l.loaded = b.l.loaded
      BY <2>3, <3>2
    <3> HIDE DEF c, s
    <3>4. /\ c.list = Tail(b.list) /\ c.ret # "FAILURE" /\ c.l.waiting = b.l.waiting
          /\ b.l.locked \subseteq c.l.locked
          /\ \/ c.l.toLoad = b.l.toLoad /\ s \in c.l.locked \cup c.l.loaded
             \/ c.l.toLoad = b.l.toLoad \ {s}
      BY <2>1, <2>2, <3>1, <3>3, ReadyVisited
    <3>5. z \in c.l.toLoad /\ Settled1(c, PO) /\ Settled1(c, TS)
      BY <1>1, <2>5, <3>1, <3>3, <3>4
    <3>6. Basic(c) /\ Stage(c)
      BY <2>5, <3>1, <3>3, <3>4, <3>5
    <3> QED BY <3>3, <3>6 DEF c
  <2>6. CASE /\ b.list = <<z>> /\ b.l.waiting["load"] = {} /\ z \in b.l.toLoad
             /\ Settled1(b, PO) /\ Settled1(b, TS)
    <3>1. s = z /\ Tail(b.list) = <<>> /\ s # "HostChanges" /\ s # "TimeSync"
      BY <1>1, <2>6
    <3>2. Visitable(b, t, s)
      BY <1>1, <2>6, <3>1 DEF Visitable
    <3>3. c \in Batches /\ Under(l, t, c) /\ Visited(b, c, s) /\ c.l.loaded = b.l.loaded
      BY <2>3, <3>2
    <3> DEFINE p == GetPrerequisites(b.l, s, "load")
    <3>4. p \in Seq(Service) /\ Items(p) = Prerequisites(b.l, s, "load")
      BY <2>1, PrerequisitesItems
    <3>5. Items(p) \subseteq (b.l.loaded \cup b.l.locked) \ {"HostChanges"}
      <4>1. Prerequisites(b.l, s, "load") = {x \in b.l.toLoad : Before(x, s)}
        BY <2>1, LoadPrerequisites
      <4>2. "HostChanges" \notin Prerequisites(b.l, s, "load")
        BY <4>1, MountFacts
      <4> QED BY <2>2, <2>6, <3>1, <3>4, <4>1, <4>2
    <3> HIDE DEF c, s, p
    <3>6. p \o <<>> = p
      BY <3>4
    <3>7. CASE c.list = Tail(b.list)
      <4>1. Items(c.list) = {}
        BY <3>1, <3>7 DEF Items
      <4>2. c.ret # "FAILURE"
        BY <2>1, <3>3 DEF Visited
      <4>3. Basic(c) /\ Stage(c)
        BY <3>3, <4>1, <4>2
      <4> QED BY <3>3, <4>3 DEF c
    <3>8. CASE c.list # Tail(b.list)
      <4>1. c.l.locked = b.l.locked /\ c.list = p \o Tail(b.list) /\ c.ret # "FAILURE"
        BY <2>1, <3>3, <3>8 DEF Visited, p
      <4>2. Items(c.list) \subseteq (c.l.loaded \cup c.l.locked) \ {"HostChanges"}
        BY <3>1, <3>3, <3>5, <3>6, <4>1
      <4>3. Basic(c) /\ Stage(c)
        BY <3>3, <4>1, <4>2
      <4> QED BY <3>3, <4>3 DEF c
    <3> QED BY <3>7, <3>8
  <2>7. CASE Items(b.list) \subseteq (b.l.loaded \cup b.l.locked) \ {"HostChanges"}
    <3>1. Items(b.list) = {s} \cup Items(Tail(b.list))
      BY <1>3, <2>1, ItemsTail
    <3>2. s \in b.l.loaded \cup b.l.locked /\ s # "HostChanges"
      BY <2>7, <3>1
    <3>3. Visitable(b, t, s)
      BY <1>1, <3>2 DEF Visitable
    <3>4. c \in Batches /\ Under(l, t, c)
      BY <2>3, <3>3
    <3>5. c = [b EXCEPT !.list = Tail(b.list)]
      <4>1. s \in b.l.locked \/ DoneCriteria(b.l, s, "load")
        BY <2>1, <3>2, LoadPrerequisites
      <4> QED BY <4>1 DEF Visit
    <3>6. b = [l |-> b.l, list |-> b.list, ret |-> b.ret, seen |-> b.seen]
      BY <1>3 DEF Batches
    <3>7. c.l = b.l /\ c.list = Tail(b.list) /\ c.ret = b.ret
      BY <3>5, <3>6
    <3> HIDE DEF c, s
    <3>8. Basic(c) /\ Stage(c)
      BY <2>1, <2>7, <3>1, <3>4, <3>7
    <3> QED BY <3>4, <3>8 DEF c
  <2> QED BY <1>3, <2>4, <2>5, <2>6, <2>7
<1> DEFINE start == BatchOf(l, list)
<1>4. /\ start \in Batches /\ Under(l, t, start) /\ start.l = l /\ start.list = list
      /\ start.ret = "NOTHING_TO_DO"
  BY <1>1, UnderStart
<1> HIDE DEF start
<1>5. Basic(start) /\ Stage(start)
  <2>1. list = <<TS, z>> => Settled1(start, PO)
    <3>1. Loading(l, t)
      BY DEF Good
    <3>2. list = <<TS, z>> => PO \notin Scope(t) \cup Extra
      BY <1>1 DEF Extra
    <3> QED BY <1>4, <3>1, <3>2 DEF Loading
  <2>2. list = <<PO, TS, z>> => PO \in Items(list)
    BY DEF Items
  <2> QED BY <1>1, <1>4, <2>1, <2>2
<1>6. \A b \in I : b.list # <<>> => Visit(b, w, "load") \in I
  <2> SUFFICES ASSUME NEW b \in I, b.list # <<>> PROVE Visit(b, w, "load") \in I
    OBVIOUS
  <2>1. Basic(b) /\ Stage(b)
    OBVIOUS
  <2> HIDE DEF I, Stage, Basic
  <2> QED BY <1>3, <2>1
<1>7. Iteration(start, w, "load") \in I
  <2>1. start.list # <<>>
    BY <1>1, <1>4
  <2> HIDE DEF I, Stage, Basic
  <2> QED BY <1>3, <1>5, <2>1 DEF Iteration
<1>8. I \subseteq Batches
  OBVIOUS
<1> HIDE DEF I
<1>9. r \in I
  BY <1>1, <1>2, <1>6, <1>7, <1>8, ExecuteRule DEF start
<1>10. r \in Batches /\ Under(l, t, r) /\ r.ret # "FAILURE"
  BY <1>9 DEF I
<1>11. ASSUME r.ret = "NOTHING_TO_DO" PROVE r.l = l /\ Items(list) \subseteq l.loaded
  <2>1. r.l = l /\ \A x \in Items(list) : PassedOver(l, x, "load")
    BY <1>1, <1>2, <1>11, NothingToDo
  <2>2. \A x : PassedOver(l, x, "load") => x \in l.loaded
    BY <1>2, LoadPrerequisites DEF PassedOver
  <2> QED BY <2>1, <2>2
<1> QED BY <1>10, <1>11

\* The batch that switches the service on.
LEMMA ToggleBatch ==
    ASSUME NEW l, Good(l, On), l.locked = {}, l.waiting["load"] = {}, l.onToggle,
           "TimeSync" \notin l.loaded, "TimeSync" \in l.toLoad,
           NEW w \in Worlds, w.bad = {}, NEW list \in Seq(Service), list # <<>>,
           Head(list) = "TimeSync", Tail(list) = <<>>,
           NEW r, r = Execute(l, w, list, "load")
    PROVE  /\ r \in Batches /\ Under(l, On, r)
           /\ r.ret = "SUCCESS" \/ r.l = l
<1> DEFINE I == {b \in Batches : b.list = <<>> /\ Under(l, On, b) /\ (b.ret
              = "SUCCESS" \/ b.l = l)}
           start == BatchOf(l, list)
           c == Visit(start, w, "load")
<1>1. l \in States /\ "load" \in Op /\ Loading(l, On)
  BY DEF Good, Op
<1>2. list \in Seq(Service) /\ list # <<>> /\ Head(list) = "TimeSync" /\ Tail(list) = <<>>
  OBVIOUS
<1>3. /\ start \in Batches /\ Under(l, On, start) /\ start.l = l /\ start.list = list
      /\ start.ret = "NOTHING_TO_DO"
  BY <1>2, UnderStart
<1> HIDE DEF start
<1>4. ReadyToOperation(l, "TimeSync", "load")
  BY <1>1, NextToLoad
<1>5. Visitable(start, On, "TimeSync")
  BY <1>3, <1>4, Scopes DEF Visitable
<1>6. c \in Batches /\ Under(l, On, c) /\ Visited(start, c, "TimeSync")
  BY <1>2, <1>3, <1>5, UnderVisit
<1> HIDE DEF c
<1>7. c \in I
  BY <1>2, <1>3, <1>4, <1>6 DEF Visited
<1>8. Iteration(start, w, "load") \in I
  BY <1>2, <1>3, <1>7 DEF Iteration, c
<1>9. \A b \in I : b.list # <<>> => Visit(b, w, "load") \in I
  OBVIOUS
<1>10. I \subseteq Batches
  OBVIOUS
<1> HIDE DEF I
<1>11. r \in I
  BY <1>1, <1>2, <1>8, <1>9, <1>10, ExecuteRule DEF start
<1> QED BY <1>11 DEF I

\* The batch of the services that waited and are ready.
LEMMA RefreshBatch ==
    ASSUME NEW l, NEW t, Good(l, t), ~l.onToggle, t # On,
           NEW w \in Worlds, w.bad = {},
           NEW R \in SUBSET Service, R # {}, R
              \subseteq (l.toLoad \cap Scope(t)) \ {"HostChanges"},
           R \cap (l.loaded \cup l.locked \cup l.waiting["load"]) = {},
           \A s \in R : ReadyToOperation(l, s, "load"),
           NEW r, r = Execute(l, w, InOrder(R), "load")
    PROVE  r \in Batches /\ Under(l, t, r) /\ r.ret = "SUCCESS"
<1> DEFINE Stage(b) ==
              /\ b \in Batches /\ Under(l, t, b) /\ b.ret # "FAILURE"
              /\ Once(b.list, Service) /\ b.l.toLoad \subseteq l.toLoad
              /\ Items(b.list) \subseteq R /\ Items(b.list) \subseteq b.l.toLoad
              /\ b.l.waiting = l.waiting /\ Items(b.list) \cap b.l.locked = {}
           I == {b \in Batches : Stage(b) /\ b.ret = "SUCCESS"}
           list == InOrder(R)
<1>1. l \in States /\ "load" \in Op
  BY DEF Good, Op
<1>2. list \in Seq(Service) /\ Items(list) = R /\ Once(list, Service)
  <2>1. list \in Seq(R) /\ Items(list) = R
    BY InOrderItems
  <2>2. list \in Seq(Service)
    BY <2>1
  <2>3. Once(list, Service)
    BY InOrderOnce
  <2> QED BY <2>1, <2>2, <2>3
<1> HIDE DEF list
<1>3. list # <<>>
  BY <1>2 DEF Items
<1>4. ASSUME NEW b, Stage(b), b.list # <<>> PROVE Visit(b, w, "load") \in I
  <2> DEFINE s == Head(b.list)
             c == Visit(b, w, "load")
  <2>1. b.l \in States /\ ~b.l.onToggle /\ b.l.loaded = l.loaded /\ b.list \in Seq(Service)
    BY <1>4 DEF Under, Good, Frame, Batches
  <2>2. Items(b.list) = {s} \cup Items(Tail(b.list)) /\ s \in Service
    BY <1>4, <2>1, ItemsTail
  <2>3. Once(Tail(b.list), Service) /\ s \notin Items(Tail(b.list))
    BY <1>4, <2>1, <2>2, OnceTail
  <2>4. s \in R /\ s \in b.l.toLoad /\ s \in Scope(t) /\ s # "HostChanges"
        /\ s \notin b.l.locked /\ s \notin b.l.loaded /\ s \notin b.l.waiting["load"]
    BY <1>4, <2>1, <2>2
  <2>5. ReadyToOperation(b.l, s, "load")
    <3>1. ReadyToOperation(l, s, "load")
      BY <2>4
    <3>2. {x \in l.toLoad : Before(x, s)} \subseteq l.loaded
      BY <1>1, <3>1, LoadPrerequisites
    <3>3. {x \in b.l.toLoad : Before(x, s)} \subseteq b.l.loaded
      BY <1>4, <2>1, <3>2
    <3> QED BY <2>1, <3>3, LoadPrerequisites
  <2>6. Visitable(b, t, s)
    BY <2>4 DEF Visitable
  <2>7. c \in Batches /\ Under(l, t, c) /\ Visited(b, c, s)
    BY <1>4, <2>6, UnderVisit
  <2> HIDE DEF c, s
  <2>8. c.l.loaded = b.l.loaded
    BY <2>1, <2>7 DEF Under
  <2>9. /\ c.list = Tail(b.list) /\ c.ret = "SUCCESS" /\ c.l.waiting = b.l.waiting
        /\ c.l.locked \subseteq b.l.locked \cup {s}
        /\ c.l.toLoad = b.l.toLoad \/ c.l.toLoad = b.l.toLoad \ {s}
    BY <1>4, <2>1, <2>4, <2>5, <2>7, <2>8, ReadyVisited
  <2>10. Stage(c)
    BY <1>4, <2>2, <2>3, <2>7, <2>9
  <2> QED BY <2>7, <2>9, <2>10 DEF c
<1> DEFINE start == BatchOf(l, list)
<1>5. /\ start \in Batches /\ Under(l, t, start) /\ start.l = l /\ start.list = list
      /\ start.ret = "NOTHING_TO_DO"
  BY <1>2, UnderStart
<1> HIDE DEF start
<1>6. Stage(start)
  BY <1>2, <1>5
<1>7. \A b \in I : b.list # <<>> => Visit(b, w, "load") \in I
  <2> SUFFICES ASSUME NEW b \in I, b.list # <<>> PROVE Visit(b, w, "load") \in I
    OBVIOUS
  <2>1. Stage(b)
    OBVIOUS
  <2> HIDE DEF I, Stage
  <2> QED BY <1>4, <2>1
<1>8. Iteration(start, w, "load") \in I
  <2> HIDE DEF I, Stage
  <2> QED BY <1>3, <1>4, <1>5, <1>6 DEF Iteration
<1>9. I \subseteq Batches
  OBVIOUS
<1> HIDE DEF I
<1>10. r \in I
  BY <1>1, <1>2, <1>7, <1>8, <1>9, ExecuteRule DEF start, list
<1> QED BY <1>10 DEF I

-----------------------------------------------------------------------------
(* A task that is being started                                            *)

\* The task in process, another one than STOP, goes on.
Midst(l) ==
    /\ l \in States /\ Calm(l) /\ Wire(l) /\ ~l.needToStop /\ ~l.ended
    /\ l.toLoad = {} \/ Base \subseteq l.toLoad
    /\ l.inProcess # None /\ l.inProcess # Task("STOP")
    /\ ~Ended(l) /\ Begin \notin Items(l.queue[CONF])
    /\ l.onToggle => l.inProcess \in {On, Off}
    /\ l.toggled = IF l.inProcess = Off /\ l.onToggle THEN "TimeSync" ELSE None
    /\ Wanted(l)

\* A task that has not ended ends once at most.
LEMMA CompletedOnce ==
    ASSUME NEW l, l \in States, ~Ended(l)
    PROVE  Once(l.queue[CONF], {Completed})
  BY DEF Ended, Once, Items

\* A task that loads may return to the reactor.
LEMMA MidstLoading ==
    ASSUME NEW l, Midst(l), ~l.scanTimer, l.inProcess \in LoadTasks, Loading(l, l.inProcess)
    PROVE  Sane(l)
<1>1. Once(l.queue[CONF], {Completed})
  BY CompletedOnce DEF Midst
<1>2. Open(l)
  BY <1>1, TasksDiffer DEF Midst, Open
<1> QED BY <1>2 DEF Midst, Sane, Tasking, Begun

\* So may one that switches TimeSync off.
LEMMA MidstUnloading ==
    ASSUME NEW l, Midst(l), ~l.scanTimer, l.inProcess = Off, Unloading(l)
    PROVE  Sane(l)
<1>1. Once(l.queue[CONF], {Completed})
  BY CompletedOnce DEF Midst
<1>2. Open(l)
  BY <1>1, TasksDiffer DEF Midst, Open
<1> QED BY <1>2 DEF Midst, Sane, Tasking, Begun

\* At rest, every task may return.
LEMMA RestTasks ==
    ASSUME NEW l, Rest(l), l \in States
    PROVE  Unloading(l) /\ \A t : Loading(l, t)
  BY DEF Rest, Quiet, Unloading, Loading

\* The same as one fact.
LEMMA MidstResting ==
    ASSUME NEW l, Midst(l), ~l.scanTimer, Rest(l)
    PROVE  Sane(l)
<1>1. Once(l.queue[CONF], {Completed})
  BY CompletedOnce DEF Midst
<1>2. Unloading(l) /\ \A t : Loading(l, t)
  BY RestTasks DEF Midst
<1>3. Open(l)
  BY <1>1, <1>2, TasksDiffer DEF Midst, Open
<1> QED BY <1>3 DEF Midst, Sane, Tasking, Begun

\* Calm looks at the tasks and the repository.
LEMMA CalmSame ==
    ASSUME NEW l, NEW m, Calm(l), SameTask(l, m), m.repository = l.repository
    PROVE  Calm(m)
  BY DEF Calm, SameTask

\* A task that did its work ends.
LEMMA MidstDone ==
    ASSUME NEW l, Midst(l), ~l.scanTimer, Rest(l)
    PROVE  Sane(TaskCompleted(l))
<1> DEFINE m == TaskCompleted(l)
<1>1. l \in States
  BY DEF Midst
<1>2. /\ SameTask(l, m) /\ m.queue = Put(l.queue, CONF, Completed)
      /\ m.handlers = l.handlers /\ m.repository = l.repository
  BY <1>1, Sends DEF TaskCompleted
<1>3. m \in States
  BY <1>1, TaskCompletedSound
<1>4. Wire(m)
  BY <1>1, WirePutTask DEF Midst, TaskCompleted
<1> HIDE DEF m
<1>5. Calm(m)
  BY <1>2, CalmSame DEF Midst
<1>6. l.queue \in Queues /\ CONF \in Components /\ Completed \in Messages
  BY <1>1, StateQueues, Services, CalmMessages, MessageSets
<1>7. Once(l.queue[CONF], {Completed}) /\ Completed \notin Items(l.queue[CONF])
  BY <1>1, CompletedOnce DEF Midst, Ended
<1> DEFINE P == Put(l.queue, CONF, Completed)
<1>8. l.queue[CONF] \in Seq(Messages) /\ P[CONF] = Append(l.queue[CONF], Completed)
  BY <1>6 DEF Put, Queues
<1>9. Items(P[CONF]) = Items(l.queue[CONF]) \cup {Completed} /\ Once(P[CONF], {Completed})
  BY <1>6, <1>7, <1>8, OnceAppend, ItemsAppend
<1> HIDE DEF P
<1>10. /\ Items(m.queue[CONF]) = Items(l.queue[CONF]) \cup {Completed}
       /\ Once(m.queue[CONF], {Completed})
  BY <1>2, <1>9 DEF P
<1>11. Rest(m)
  BY <1>2 DEF SameTask, Rest, Quiet
<1>12. Unloading(m) /\ \A t : Loading(m, t)
  BY <1>3, <1>11, RestTasks
<1>13. Open(m)
  BY <1>2, <1>10, <1>11, <1>12, TasksDiffer DEF Midst, Open, SameTask
<1>14. Completed \notin Wants /\ Completed # Begin
  BY CalmMessages DEF Wants, CalmTasks, Completed, Begin, Task
<1>15. Wanted(m)
  <2>1. Wanted(l)
    BY DEF Midst
  <2>2. Items(m.queue[CONF]) \cap Wants = Items(l.queue[CONF]) \cap Wants
    BY <1>10, <1>14
  <2> QED BY <1>2, <2>1, <2>2 DEF Wanted, SameTask
<1>16. Begun(m)
  BY <1>10, <1>14 DEF Begun, Midst
<1>17. ~m.needToStop
  BY <1>2 DEF SameTask, Midst
<1>18. Sane(m)
  BY <1>3, <1>4, <1>5, <1>13, <1>15, <1>16, <1>17 DEF Sane, Tasking
<1> QED BY <1>18 DEF m

\* The first task and the end of a task are no messages about services.
LEMMA BeginNoNotice ==
    Begin \notin Notices /\ Completed \notin Notices
<1>1. Begin \in Tasks
  BY TaskMessages DEF Begin
<1> QED BY <1>1, NoticeTypes

\* A batch command that loads leaves the task where it was.
LEMMA MidstBatch ==
    ASSUME NEW l, Midst(l), NEW t, NEW r, Under(l, t, r)
    PROVE  Midst(r.l) /\ Loading(r.l, t) /\ r.l.scanTimer = l.scanTimer
           /\ r.l.inProcess = l.inProcess
<1> DEFINE m == r.l
<1>1. Good(m, t) /\ Mailed(l.queue[CONF], m.queue[CONF]) /\ Frame(l, m)
  BY DEF Under
<1> HIDE DEF m
<1>2. /\ m \in States /\ Calm(m) /\ Wire(m) /\ Loading(m, t) /\ Base \subseteq m.toLoad
      /\ ~m.ended
  BY <1>1 DEF Good
<1>3. ~Ended(m) /\ Begin \notin Items(m.queue[CONF])
  BY <1>1, BeginNoNotice DEF Mailed, Midst, Ended
<1>4. Wanted(m)
  BY <1>2 DEF Wanted, Base
<1>5. Midst(m)
  BY <1>1, <1>2, <1>3, <1>4 DEF Midst, Frame
<1> QED BY <1>1, <1>2, <1>5 DEF m, Frame

\* m differs from l in the timers, the scan counter, the notifications and what
\* is known of port forwarding only.
Alike(l, m) ==
    /\ m.loaded = l.loaded /\ m.active = l.active /\ m.locked = l.locked
    /\ m.toLoad = l.toLoad /\ m.waitPfw = l.waitPfw /\ m.waiting = l.waiting
    /\ m.inProcess = l.inProcess /\ m.onToggle = l.onToggle
    /\ m.toggled = l.toggled /\ m.nextTasks = l.nextTasks
    /\ m.needToStop = l.needToStop /\ m.asleep = l.asleep /\ m.ended = l.ended
    /\ m.repository = l.repository /\ m.handlers = l.handlers /\ m.queue = l.queue

\* The prerequisites depend on the services to be loaded and on the toggle.
LEMMA PrerequisitesAlike ==
    ASSUME NEW l, NEW m, m.toLoad = l.toLoad, m.toggled = l.toggled
    PROVE  \A s, op : Prerequisites(m, s, op) = Prerequisites(l, s, op)
  BY DEF Prerequisites

\* Such a difference does not matter.
LEMMA MidstAlike ==
    ASSUME NEW l, Midst(l), NEW m, m \in States, Alike(l, m), ~m.deferred
    PROVE  /\ Midst(m) /\ (Rest(l) => Rest(m)) /\ \A t : Loading(l, t) => Loading(m, t)
<1>1. Calm(m)
  BY DEF Midst, Alike, Calm
<1>2. Wire(m)
  BY WireFrame DEF Midst, Alike
<1>3. Ended(m) <=> Ended(l)
  BY DEF Alike, Ended
<1>4. Wanted(m)
  BY DEF Midst, Wanted, Alike
<1>5. Midst(m)
  BY <1>1, <1>2, <1>3, <1>4 DEF Midst, Alike
<1>6. Rest(l) => Rest(m)
  BY DEF Rest, Quiet, Alike
<1>7. ASSUME NEW t, Loading(l, t) PROVE Loading(m, t)
  <2>1. \A s : Prerequisites(m, s, "load") = Prerequisites(l, s, "load")
    BY PrerequisitesAlike DEF Alike
  <2> QED BY <1>7, <2>1 DEF Loading, Alike
<1> QED BY <1>5, <1>6, <1>7

\* CancelTimers is such a difference.
LEMMA TimersCancelled ==
    ASSUME NEW l \in States, NEW n \in 0..NumRetries,
           NEW m, m = CancelTimers(l) \/ m = CancelTimers([l EXCEPT !.scans = n])
    PROVE  m \in States /\ Alike(l, m) /\ ~m.deferred /\ ~m.scanTimer
<1>1. m \in States
  <2>1. [l EXCEPT !.scans = n] \in States
    BY DEF States, Lms
  <2>2. \A k \in States : CancelTimers(k) \in States
    BY ZenonT(30) DEF CancelTimers, States, Lms
  <2> QED BY <2>1, <2>2
<1>2. Alike(l, m)
  BY ZenonT(30) DEF CancelTimers, States, Lms, Alike
<1>3. ~m.deferred /\ ~m.scanTimer
  BY ZenonT(30) DEF CancelTimers, States, Lms
<1> QED BY <1>1, <1>2, <1>3

\* The scan selects the basic services, and nothing out of the first task's
\* scope.
LEMMA ScanGroupFacts ==
    /\ ScanGroup \subseteq Scope(Begin) /\ Base \subseteq ScanGroup
    /\ ScanGroup \subseteq Service
<1> DEFINE all == {"First", "Last", "DBus", "StatusEventHandler",
                 "PortForwarding", "HostChanges"} \cup
                 IF Manageability
                 THEN {ManageabilityGroup[i] : i \in DOMAIN ManageabilityGroup}
                 ELSE {}
<1>1. ScanGroup = all \cup UNION {AbsoluteDependencies[s] : s \in all}
  BY DEF ScanGroup
<1>2. {ManageabilityGroup[i] : i \in DOMAIN ManageabilityGroup} = {"PowerOperations", "TimeSync"}
  BY DEF ManageabilityGroup
<1>3. all \subseteq Scope(Begin) /\ all \subseteq Service
  BY <1>2, Scopes, Services
<1>4. {"First", "PortForwarding", "Last", "DBus"} \subseteq all
  OBVIOUS
<1> HIDE DEF all
<1>5. AbsoluteDependencies["DBus"] = {"EventManager"}
  BY Services, Dependencies DEF Handler
<1>6. "EventManager" \in ScanGroup
  BY <1>1, <1>4, <1>5
<1>7. UNION {AbsoluteDependencies[s] : s \in all} \subseteq {"EventManager", "PortForwarding"}
  BY <1>3, Dependencies
<1>8. /\ {"EventManager", "PortForwarding"} \subseteq Scope(Begin)
      /\ Scope(Begin) \subseteq Service
  BY Scopes, Services
<1>9. Base \subseteq ScanGroup
  BY <1>1, <1>4, <1>6 DEF Base
<1> QED BY <1>1, <1>3, <1>7, <1>8, <1>9

\* Before the batch of the scan.
LEMMA ScanReady ==
    ASSUME NEW l, Midst(l), l.inProcess = Begin, l.toLoad = {}, Rest(l),
           NEW m, m = [l EXCEPT !.toLoad = ScanGroup]
    PROVE  Good(m, Begin) /\ Midst(m) /\ m.loaded = {} /\ m.locked = {}
           /\ m.waiting["load"] = {} /\ ~m.onToggle /\ m.inProcess = Begin
           /\ m.toLoad = ScanGroup
<1>1. l \in States /\ ScanGroup \in SUBSET Service
  BY ScanGroupFacts DEF Midst
<1>2. m \in States
  BY <1>1 DEF States, Lms
<1>3. /\ m.loaded = l.loaded /\ m.active = l.active /\ m.locked = l.locked
      /\ m.toLoad = ScanGroup /\ m.waitPfw = l.waitPfw /\ m.waiting = l.waiting
      /\ m.inProcess = l.inProcess /\ m.onToggle = l.onToggle
      /\ m.toggled = l.toggled /\ m.nextTasks = l.nextTasks
      /\ m.needToStop = l.needToStop /\ m.asleep = l.asleep /\ m.ended = l.ended
      /\ m.repository = l.repository /\ m.handlers = l.handlers /\ m.queue = l.queue
      /\ m.deferred = l.deferred
  BY <1>1 DEF States, Lms
<1>4. m.loaded = {} /\ m.locked = {} /\ m.waiting["load"] = {} /\ m.waiting["unload"] = {}
  BY <1>3 DEF Rest, Quiet
<1>5. Calm(m) /\ Wire(m)
  BY <1>3, WireFrame DEF Midst, Calm
<1>6. Loading(m, Begin)
  BY <1>3, <1>4, ScanGroupFacts, TasksDiffer DEF Loading
<1>7. Good(m, Begin)
  BY <1>2, <1>3, <1>5, <1>6, ScanGroupFacts DEF Good, Midst
<1>8. ~Ended(m) /\ Begin \notin Items(m.queue[CONF])
  BY <1>3 DEF Midst, Ended
<1>9. Midst(m) /\ ~m.onToggle
  <2>1. Wanted(m)
    BY <1>3, ScanGroupFacts DEF Wanted, Base
  <2>2. ~l.onToggle /\ l.toggled = None
    BY TasksDiffer DEF Midst
  <2> QED BY <1>2, <1>3, <1>5, <1>8, <2>1, <2>2, ScanGroupFacts, TasksDiffer DEF Midst
<1> QED BY <1>3, <1>4, <1>7, <1>9

\* After it: it succeeds, because something can always be started.
LEMMA ScanLoads ==
    ASSUME NEW m, Good(m, Begin), Midst(m), m.loaded = {}, m.locked = {},
           m.waiting["load"] = {}, ~m.onToggle, m.inProcess = Begin,
           m.toLoad = ScanGroup, NEW w \in Worlds, w.bad = {},
           NEW r, r = Execute(m, w, InOrder(ScanGroup), "load")
    PROVE  r.ret = "SUCCESS" /\ Midst(r.l) /\ Loading(r.l, Begin) /\ r.l.inProcess = Begin
           /\ r.l \in States
<1> DEFINE list == InOrder(ScanGroup)
<1>1. list \in Seq(Service) /\ Items(list) = ScanGroup
  BY InOrderItems, ScanGroupServices
<1> HIDE DEF list
<1>2. list # <<>>
  BY <1>1, ScanGroupFacts DEF Items, Base
<1>3. r \in Batches /\ Under(m, Begin, r) /\ r.ret = "SUCCESS"
  BY <1>1, <1>2, ScanBatch DEF list
<1>4. Midst(r.l) /\ Loading(r.l, Begin) /\ r.l.inProcess = m.inProcess
  BY <1>3, MidstBatch
<1> QED BY <1>3, <1>4 DEF Midst

\* ScanConfiguration keeps the invariant: it loads, or the task ends, or the
\* timer is set.
LEMMA ScanSane ==
    ASSUME NEW l, Midst(l), l.inProcess = Begin, l.toLoad = {}, Rest(l),
           NEW w \in Worlds, w.bad = {}
    PROVE  Sane(ScanConfiguration(l, w))
<1>1. l \in States /\ 0 \in 0..NumRetries /\ ScanConfiguration(l, w) \in States
  BY ScanConfigurationSound, ConfiguratorConstants DEF Midst
<1>2. CASE w.scan = "ok"
  <2> DEFINE m == [l EXCEPT !.toLoad = ScanGroup]
             r == Execute(m, w, InOrder(ScanGroup), "load")
             c == CancelTimers(r.l)
  <2>1. /\ r.ret = "SUCCESS" /\ Midst(r.l) /\ Loading(r.l, Begin)
        /\ r.l.inProcess = Begin /\ r.l \in States
    <3>1. Good(m, Begin) /\ Midst(m) /\ m.loaded = {} /\ m.locked = {} /\ m.waiting["load"] = {}
          /\ ~m.onToggle /\ m.inProcess = Begin /\ m.toLoad = ScanGroup
      BY ScanReady
    <3> HIDE DEF m
    <3> QED BY <3>1, ScanLoads
  <2>2. ScanConfiguration(l, w) = c
    BY <1>2, <2>1 DEF ScanConfiguration, ExecuteOrComplete, CompletedUnless
  <2> HIDE DEF r
  <2>3. c \in States /\ Alike(r.l, c) /\ ~c.deferred /\ ~c.scanTimer
    BY <1>1, <2>1, TimersCancelled
  <2> HIDE DEF c
  <2>4. Midst(c) /\ Loading(c, Begin) /\ c.inProcess = Begin
    BY <2>1, <2>3, MidstAlike DEF Alike
  <2>5. Sane(c)
    BY <2>3, <2>4, MidstLoading DEF LoadTasks
  <2> QED BY <2>2, <2>5
<1>3. CASE w.scan = "noMei"
  <2> DEFINE c == CancelTimers([l EXCEPT !.scans = 0])
  <2>1. ScanConfiguration(l, w) = TaskCompleted(c)
    BY <1>3 DEF ScanConfiguration
  <2>2. c \in States /\ Alike(l, c) /\ ~c.deferred /\ ~c.scanTimer
    BY <1>1, TimersCancelled
  <2> HIDE DEF c
  <2>3. Midst(c) /\ Rest(c)
    BY <2>2, MidstAlike
  <2> QED BY <2>1, <2>2, <2>3, MidstDone
<1>4. CASE w.scan \notin {"ok", "noMei"}
  <2> DEFINE c == [l EXCEPT !.scanTimer = TRUE]
  <2>1. ScanConfiguration(l, w) = c
    BY <1>4 DEF ScanConfiguration
  <2>2. Alike(l, c) /\ c.deferred = l.deferred
    BY <1>1 DEF Alike, States, Lms
  <2>3. c \in States
    BY <1>1, <2>1
  <2> HIDE DEF c
  <2>4. ~c.deferred
    BY <2>2 DEF Midst, Calm
  <2>5. Midst(c) /\ Rest(c)
    BY <2>2, <2>3, <2>4, MidstAlike
  <2>6. Once(c.queue[CONF], {Completed})
    BY <2>5, CompletedOnce DEF Midst
  <2>7. Unloading(c) /\ \A t : Loading(c, t)
    BY <2>3, <2>5, RestTasks
  <2>8. c.inProcess = Begin /\ c.toLoad = {}
    BY <2>2 DEF Alike
  <2>9. Open(c)
    BY <2>5, <2>6, <2>7, <2>8, TasksDiffer DEF Midst, Open
  <2>10. Sane(c)
    BY <2>5, <2>9 DEF Midst, Sane, Tasking, Begun
  <2> QED BY <2>1, <2>10
<1> QED BY <1>2, <1>3, <1>4

\* More services are to be loaded.
LEMMA Enlarged ==
    ASSUME NEW l, Midst(l), Rest(l), l.toLoad # {}, NEW t, l.inProcess = t, t # Off,
           NEW S, S \subseteq Scope(t), NEW m, m \in States,
           m.loaded = l.loaded, m.active = l.active, m.locked = l.locked,
           m.toLoad = l.toLoad \cup S, m.waitPfw = l.waitPfw, m.waiting = l.waiting,
           m.inProcess = l.inProcess, m.onToggle => t = On,
           m.toggled = l.toggled, m.nextTasks = l.nextTasks,
           m.needToStop = l.needToStop, m.asleep = l.asleep, m.ended = l.ended,
           m.repository = l.repository, m.handlers = l.handlers, m.queue = l.queue,
           m.deferred = l.deferred
    PROVE  Good(m, t) /\ Midst(m) /\ m.locked = {} /\ m.waiting["load"] = {} /\ m.inProcess = t
<1>1. m.locked = {} /\ m.waiting["load"] = {} /\ m.waiting["unload"] = {}
  BY DEF Rest, Quiet
<1>2. Calm(m) /\ Wire(m)
  BY WireFrame DEF Midst, Calm
<1>3. Loading(m, t)
  BY <1>1 DEF Loading, Rest
<1>4. Base \subseteq m.toLoad
  BY DEF Midst
<1>5. Good(m, t)
  BY <1>2, <1>3, <1>4 DEF Good, Midst
<1>6. ~Ended(m) /\ Begin \notin Items(m.queue[CONF])
  BY DEF Midst, Ended
<1>7. Wanted(m)
  BY <1>4 DEF Wanted, Base
<1>8. Midst(m)
  BY <1>2, <1>4, <1>6, <1>7 DEF Midst
<1> QED BY <1>1, <1>5, <1>8

\* The batch of a later task, with the end of the task when there was nothing
\* to do.
LEMMA LaterSane ==
    ASSUME NEW m, NEW t, Good(m, t), Midst(m), m.locked = {}, m.waiting["load"] = {},
           m.inProcess = t, ~m.onToggle, ~m.scanTimer,
           NEW w \in Worlds, w.bad = {}, NEW z, NEW list, Later(t, z, list),
           Items(list) \subseteq m.toLoad
    PROVE  Sane(ExecuteOrComplete(m, w, list, "load"))
<1> DEFINE r == Execute(m, w, list, "load")
<1>1. /\ r \in Batches /\ Under(m, t, r) /\ r.ret # "FAILURE"
      /\ r.ret = "NOTHING_TO_DO" => r.l = m /\ Items(list) \subseteq m.loaded
  BY LaterBatch
<1>2. ExecuteOrComplete(m, w, list, "load") = IF r.ret
         = "SUCCESS" THEN r.l ELSE TaskCompleted(r.l)
  BY DEF ExecuteOrComplete, CompletedUnless
<1> HIDE DEF r
<1>3. r.ret \in {"NOTHING_TO_DO", "SUCCESS"}
  BY <1>1 DEF Batches, Ret
<1>4. Midst(r.l) /\ Loading(r.l, t) /\ ~r.l.scanTimer /\ r.l.inProcess = t
  BY <1>1, MidstBatch
<1>5. CASE r.ret = "SUCCESS"
  <2>1. t \in LoadTasks
    BY DEF Later, LoadTasks
  <2>2. Sane(r.l)
    BY <1>4, <2>1, MidstLoading
  <2> QED BY <1>2, <1>5, <2>2
<1>6. CASE r.ret = "NOTHING_TO_DO"
  <2>1. r.l = m /\ Items(list) \subseteq m.loaded
    BY <1>1, <1>6
  <2>2. Scope(t) = Items(list)
    BY LaterFacts
  <2>3. Rest(m)
    BY <2>1, <2>2 DEF Rest, Quiet, Good, Loading, Extra
  <2>4. Sane(TaskCompleted(m))
    BY <2>3, MidstDone
  <2> QED BY <1>2, <1>6, <2>1, <2>4
<1> QED BY <1>3, <1>5, <1>6

\* LoadNow keeps the invariant.
LEMMA LoadNowSane ==
    ASSUME NEW l, Midst(l), Rest(l), l.toLoad # {}, NEW t, l.inProcess = t,
           ~l.onToggle, ~l.scanTimer,
           NEW w \in Worlds, w.bad = {}, NEW z, NEW list, Later(t, z, list)
    PROVE  Sane(LoadNow(l, w, list))
<1> DEFINE S == {list[i] : i \in DOMAIN list}
           m == [l EXCEPT !.toLoad = @ \cup S]
<1>1. LoadNow(l, w, list) = ExecuteOrComplete(m, w, list, "load")
  BY DEF LoadNow
<1>2. S = Items(list)
  BY DEF Items
<1> HIDE DEF S
<1>3. S = Scope(t) /\ list \in Seq(Service) /\ t # On
  BY <1>2, LaterFacts
<1>4. S \in SUBSET Service
  <2>1. Items(list) \subseteq Service
    BY <1>3 DEF Items
  <2> QED BY <1>2, <2>1
<1>5. l \in States
  BY DEF Midst
<1>6. m \in States
  BY <1>4, <1>5 DEF States, Lms
<1>7. /\ m.loaded = l.loaded /\ m.active = l.active /\ m.locked = l.locked
      /\ m.toLoad = l.toLoad \cup S /\ m.waitPfw = l.waitPfw /\ m.waiting = l.waiting
      /\ m.inProcess = l.inProcess /\ m.onToggle = l.onToggle
      /\ m.toggled = l.toggled /\ m.nextTasks = l.nextTasks
      /\ m.needToStop = l.needToStop /\ m.asleep = l.asleep /\ m.ended = l.ended
      /\ m.repository = l.repository /\ m.handlers = l.handlers /\ m.queue = l.queue
      /\ m.deferred = l.deferred /\ m.scanTimer = l.scanTimer
  BY <1>5 DEF States, Lms
<1>8. t # Off
  BY TasksDiffer DEF Later, LoadTasks
<1> HIDE DEF m
<1>9. Good(m, t) /\ Midst(m) /\ m.locked = {} /\ m.waiting["load"] = {} /\ m.inProcess = t
  <2>1. S \subseteq Scope(t) /\ (m.onToggle => t = On)
    BY <1>3, <1>7
  <2> QED BY <1>6, <1>7, <1>8, <2>1, Enlarged
<1>10. Sane(ExecuteOrComplete(m, w, list, "load"))
  BY <1>2, <1>7, <1>9, LaterSane
<1> QED BY <1>1, <1>10

\* The services that waited for port forwarding are no longer remembered.
LEMMA WaitersForgotten ==
    ASSUME NEW l, Sane(l)
    PROVE  Sane([l EXCEPT !.waitPfw = {}])
<1> DEFINE m == [l EXCEPT !.waitPfw = {}]
<1>1. l \in States
  BY DEF Sane
<1>2. m \in States
  BY <1>1 DEF States, Lms
<1>3. /\ m.loaded = l.loaded /\ m.active = l.active /\ m.locked = l.locked
      /\ m.toLoad = l.toLoad /\ m.waitPfw = {} /\ m.waiting = l.waiting
      /\ m.inProcess = l.inProcess /\ m.onToggle = l.onToggle
      /\ m.toggled = l.toggled /\ m.nextTasks = l.nextTasks
      /\ m.needToStop = l.needToStop /\ m.asleep = l.asleep /\ m.ended = l.ended
      /\ m.repository = l.repository /\ m.handlers = l.handlers /\ m.queue = l.queue
      /\ m.deferred = l.deferred /\ m.scanTimer = l.scanTimer
  BY <1>1 DEF States, Lms
<1> HIDE DEF m
<1>4. Calm(m) /\ Wire(m)
  BY <1>3, WireFrame DEF Sane, Calm
<1>5. \A s : Prerequisites(m, s, "load") = Prerequisites(l, s, "load")
  BY <1>3, PrerequisitesAlike
<1>6. /\ Rest(l) => Rest(m)
      /\ \A t : Loading(l, t) => Loading(m, t)
      /\ Unloading(l) => Unloading(m) /\ (Ended(m) <=> Ended(l))
  BY <1>3, <1>5 DEF Rest, Quiet, Loading, Unloading, Ended
<1>7. Ended(m) <=> Ended(l)
  BY <1>3 DEF Ended
<1>8. Open(l) => Open(m)
  BY <1>3, <1>6, <1>7 DEF Open
<1>9. (Closing(l) => Closing(m)) /\ (Wanted(l) => Wanted(m)) /\ (Begun(l) => Begun(m))
  BY <1>3 DEF Closing, Wanted, Begun, Quiet
<1>10. Sane(m)
  BY <1>2, <1>3, <1>4, <1>8, <1>9 DEF Sane, Tasking
<1> QED BY <1>10 DEF m

-----------------------------------------------------------------------------
(* Batch commands that unload                                              *)

\* The prerequisites of an unload, without the case distinction.
LEMMA UnloadPrerequisites ==
    ASSUME NEW l \in States, NEW s
    PROVE  /\ Prerequisites(l, s, "unload") =
                {t \in l.toLoad : Before(s, t) /\ ~(s = l.toggled /\ t \in DummyServicesToRemove)}
           /\ ReadyToOperation(l, s, "unload") <=> Prerequisites(l, s, "unload") \cap l.loaded = {}
           /\ DoneCriteria(l, s, "unload") <=> s \notin l.loaded
<1>1. "unload" \notin {"load", "resume"} /\ "unload" # "suspend"
  OBVIOUS
<1>2. Prerequisites(l, s, "unload") =
         {t \in l.toLoad : Before(s, t) /\ ~(s = l.toggled /\ t \in DummyServicesToRemove)}
  BY <1>1 DEF Prerequisites
<1>3. ReadyToOperation(l, s, "unload") <=> Prerequisites(l, s, "unload") \cap l.loaded = {}
  BY <1>1, Zenon DEF ReadyToOperation
<1>4. DoneCriteria(l, s, "unload") <=> s \notin l.loaded
  BY <1>1, Zenon DEF DoneCriteria
<1> QED BY <1>2, <1>3, <1>4

\* What a batch of unloads leaves alone.
Stopping(l, m) ==
    /\ m \in States /\ Calm(m) /\ Wire(m) /\ Frame(l, m)
    /\ m.loaded = l.loaded /\ m.toLoad = l.toLoad /\ m.waitPfw = l.waitPfw
    /\ m.ended = l.ended /\ m.queue[CONF] = l.queue[CONF]
    /\ m.waiting["load"] = l.waiting["load"]
    /\ l.locked \subseteq m.locked

\* Nobody is there that cannot do without s.
Free(l, s) == \A t \in l.loaded \cup l.locked : s \notin AbsoluteDependencies[t]

\* The service s was asked to stop, and nothing else happened.
StoppedOne(l, s, n) ==
    n.ok /\ Stopping(l, n.l) /\ n.l.locked = l.locked \cup {s} /\ n.l.waiting = l.waiting

\* A service that nobody depends on is asked to stop.
LEMMA StopReady ==
    ASSUME NEW l \in States, Calm(l), Wire(l),
           NEW s \in l.loaded, s \notin l.locked, Free(l, s),
           NEW k, k = [l EXCEPT !.locked = @ \cup {s}],
           NEW n, n = StopAceService(k, s), NEW m, m = n.l, Frame(l, m)
    PROVE  StoppedOne(l, s, n)
<1>1. /\ l.active = l.loaded
      /\ \A t \in l.loaded \cup l.locked : s \notin AbsoluteDependencies[t]
  BY DEF Calm, Free
<1>2. /\ n.ok /\ Wire(m) /\ m \in States
      /\ m.loaded = l.loaded /\ m.locked = l.locked \cup {s}
      /\ m.active = l.active /\ m.toLoad = l.toLoad /\ m.waitPfw = l.waitPfw
      /\ m.waiting = l.waiting /\ m.ended = l.ended
      /\ m.repository[CONF] = l.repository[CONF]
      /\ m.queue[CONF] = l.queue[CONF]
  BY <1>1, WireStop
<1>4. Calm(m)
  BY <1>2 DEF Calm, Frame
<1>5. Stopping(l, m)
  BY <1>2, <1>4 DEF Stopping
<1> QED BY <1>2, <1>5 DEF StoppedOne

\* One that is not ready waits.
LEMMA StopWaits ==
    ASSUME NEW l \in States, Calm(l), Wire(l), NEW s \in Service,
           NEW m, m = [l EXCEPT !.waiting["unload"] = @ \cup {s}], Frame(l, m)
    PROVE  Stopping(l, m) /\ m.locked = l.locked
<1>1. /\ "unload" \in Op /\ l.waiting["unload"] \cup {s} \in SUBSET Service
  BY StateSets DEF Op
<1>2. m \in States
  BY <1>1, WaitSound
<1>3. /\ m.queue = l.queue /\ m.repository = l.repository
      /\ m.handlers = l.handlers
      /\ m.loaded = l.loaded /\ m.active = l.active /\ m.locked = l.locked
      /\ m.toLoad = l.toLoad /\ m.waitPfw = l.waitPfw /\ m.ended = l.ended
      /\ \A op \in Op : op # "unload" => m.waiting[op] = l.waiting[op]
  BY <1>1 DEF States, Lms
<1>4. Wire(m)
  BY <1>3, WireFrame
<1>5. Calm(m)
  BY <1>3 DEF Calm, Op, Frame
<1> QED BY <1>2, <1>3, <1>4, <1>5 DEF Stopping, Op

\* A visit that does nothing.
LEMMA StoppingSame ==
    ASSUME NEW l \in States, Calm(l), Wire(l)
    PROVE  Stopping(l, l)
  BY DEF Stopping, Frame

\* A service that is ready to be unloaded is free. That the order of mounting
\* respects the dependencies is not enough: the dummies are excepted while
\* TimeSync is switched off.
Stoppable(b, s) == ReadyToOperation(b.l, s, "unload") /\ s \in b.l.loaded => Free(b.l, s)

\* The visit c follows b in a batch of unloads.
StopVisited(b, c, s) ==
    /\ c \in Batches /\ Stopping(b.l, c.l)
    /\ c.l.locked \subseteq b.l.locked \cup (b.l.loaded \cap {s})
    /\ ReadyToOperation(b.l, s, "unload") /\ s \in b.l.loaded \ b.l.locked =>
          /\ c.l.locked = b.l.locked \cup {s} /\ c.l.waiting = b.l.waiting
          /\ c.list = Tail(b.list) /\ (b.ret # "FAILURE" => c.ret = "SUCCESS")

\* A visit of a batch that unloads.
LEMMA UnloadVisit ==
    ASSUME NEW b \in Batches, b.list # <<>>, Calm(b.l), Wire(b.l), NEW w \in Worlds,
           NEW s, s = Head(b.list), Stoppable(b, s),
           NEW c, c = Visit(b, w, "unload")
    PROVE  StopVisited(b, c, s)
<1> DEFINE l == b.l
           left == Tail(b.list)
           todo == IF b.ret = "FAILURE" THEN "FAILURE" ELSE "SUCCESS"
           k == [l EXCEPT !.locked = @ \cup {s}]
           r == DoOperation(k, w, s, "unload")
           ready == ReadyToOperation(l, s, "unload")
           done == s \in l.locked \/ DoneCriteria(l, s, "unload")
<1>1. /\ l \in States /\ s \in Service /\ "unload" \in Op /\ b.ret \in Ret
      /\ b = [l |-> b.l, list |-> b.list, ret |-> b.ret, seen |-> b.seen]
  BY DEF Batches, Op
<1>2. c \in Batches /\ Frame(l, c.l)
  BY <1>1, VisitSound, VisitFrame
<1>3. done <=> s \in l.locked \/ s \notin l.loaded
  BY <1>1, UnloadPrerequisites
<1>4. CASE done
  <2>1. c = [b EXCEPT !.list = left]
    BY <1>4 DEF Visit
  <2>2. c.l = l
    BY <1>1, <2>1
  <2>3. Stopping(l, c.l)
    BY <1>1, <2>2, StoppingSame
  <2> QED BY <1>2, <1>3, <1>4, <2>2, <2>3 DEF StopVisited
<1>5. CASE ~done /\ ready
  <2> DEFINE m == IF r.ok THEN r.l ELSE [r.l EXCEPT !.locked = @ \ {s}]
  <2>1. /\ c = [l |-> m, list |-> left, ret |-> IF r.ok THEN todo ELSE "FAILURE",
                seen |-> IF r.ok THEN {} ELSE b.seen]
    BY <1>5 DEF Visit
  <2>2. c.l = m /\ c.list = left /\ c.ret = IF r.ok THEN todo ELSE "FAILURE"
    <3> HIDE DEF m, r, todo, left
    <3> QED BY <2>1
  <2>3. s \in l.loaded /\ s \notin l.locked
    BY <1>3, <1>5
  <2>4. Frame(l, r.l)
    <3>1. k \in States
      BY <1>1, LockSound, StateSets
    <3>2. Frame(l, k)
      BY <1>1 DEF Frame, States, Lms
    <3>3. Frame(k, r.l)
      BY <1>1, <3>1, DoOperationFrame
    <3> QED BY <3>2, <3>3, FrameTransitive
  <2>5. Free(l, s)
    BY <1>5, <2>3 DEF Stoppable
  <2>6. /\ r.ok /\ Stopping(l, r.l) /\ r.l.locked = l.locked \cup {s}
        /\ r.l.waiting = l.waiting
    <3>1. r = StopAceService(k, s)
      BY DEF DoOperation
    <3> HIDE DEF r
    <3>2. /\ l \in States /\ Calm(l) /\ Wire(l) /\ s \in l.loaded /\ s \notin l.locked
          /\ Free(l, s)
      BY <1>1, <2>3, <2>5
    <3>3. k = [l EXCEPT !.locked = @ \cup {s}]
      OBVIOUS
    <3> HIDE DEF l, k, m
    <3>4. StoppedOne(l, s, r)
      BY <2>4, <3>1, <3>2, <3>3, StopReady
    <3> QED BY <3>4 DEF StoppedOne
  <2> HIDE DEF r
  <2>7. c.l = r.l /\ c.ret = todo
    BY <2>2, <2>6
  <2> QED BY <1>2, <2>2, <2>3, <2>6, <2>7 DEF StopVisited
<1>6. CASE ~done /\ ~ready /\ s \in b.seen
  <2>1. c = [b EXCEPT !.list = left, !.ret = todo]
    BY <1>6 DEF Visit
  <2>2. c.l = l
    BY <1>1, <2>1
  <2>3. Stopping(l, c.l)
    BY <1>1, <2>2, StoppingSame
  <2> QED BY <1>2, <1>6, <2>2, <2>3 DEF StopVisited
<1>7. CASE ~done /\ ~ready /\ s \notin b.seen
  <2> DEFINE m == [l EXCEPT !.waiting["unload"] = @ \cup {s}]
  <2>1. c = [l |-> m, list |-> GetPrerequisites(l, s, "unload") \o left,
              ret |-> todo, seen |-> b.seen \cup {s}]
    BY <1>7 DEF Visit
  <2>2. c.l = m
    <3> HIDE DEF m
    <3> QED BY <2>1
  <2>3. Stopping(l, m) /\ m.locked = l.locked
    <3>1. Frame(l, m)
      BY <1>2, <2>2
    <3> QED BY <1>1, <3>1, StopWaits
  <2> QED BY <1>2, <1>7, <2>2, <2>3 DEF StopVisited
<1> QED BY <1>4, <1>5, <1>6, <1>7

\* A batch command that unloads leaves the task where it was.
LEMMA MidstStopping ==
    ASSUME NEW l, Midst(l), NEW m, Stopping(l, m)
    PROVE  Midst(m) /\ m.scanTimer = l.scanTimer /\ m.inProcess = l.inProcess
           /\ m.onToggle = l.onToggle
<1>1. /\ m.inProcess = l.inProcess /\ m.onToggle = l.onToggle
      /\ m.toggled = l.toggled /\ m.nextTasks = l.nextTasks
      /\ m.needToStop = l.needToStop /\ m.scanTimer = l.scanTimer
      /\ m.toLoad = l.toLoad /\ m.ended = l.ended /\ m.queue[CONF] = l.queue[CONF]
      /\ m \in States /\ Calm(m) /\ Wire(m)
  BY DEF Stopping, Frame
<1>2. Wanted(m)
  BY <1>1 DEF Midst, Wanted
<1>3. Ended(m) <=> Ended(l)
  BY <1>1 DEF Ended
<1>4. Midst(m)
  BY <1>1, <1>2, <1>3 DEF Midst
<1> QED BY <1>1, <1>4

\* The batch that switches the service off.
LEMMA ToggleOffBatch ==
    ASSUME NEW m \in States, Calm(m), Wire(m), m.locked = {}, m.toggled = "TimeSync",
           "TimeSync" \in m.loaded,
           NEW w \in Worlds, NEW list \in Seq(Service), list # <<>>,
           Head(list) = "TimeSync", Tail(list) = <<>>,
           NEW r, r = Execute(m, w, list, "unload")
    PROVE  /\ r.ret = "SUCCESS" /\ Stopping(m, r.l) /\ r.l.locked = {"TimeSync"}
           /\ r.l.waiting = m.waiting
<1> DEFINE TS == "TimeSync"
           start == BatchOf(m, list)
           c == Visit(start, w, "unload")
           I == {b \in Batches : /\ b.list = <<>> /\ b.ret = "SUCCESS" /\ Stopping(m, b.l)
                                 /\ b.l.locked = {TS} /\ b.l.waiting = m.waiting}
<1>1. "unload" \in Op /\ m.toLoad \in SUBSET Service /\ m.loaded \in SUBSET Service
  BY StateSets DEF Op
<1>2. start.l = m /\ start.list = list /\ start.ret = "NOTHING_TO_DO" /\ start \in Batches
  BY DEF BatchOf, Batches, Ret
<1> HIDE DEF start
<1>3. ReadyToOperation(m, TS, "unload")
  <2>1. {t \in m.toLoad : Before(TS, t) /\ ~(TS = m.toggled /\ t \in DummyServicesToRemove)} = {}
    BY <1>1, MountFacts
  <2> QED BY <2>1, UnloadPrerequisites
<1>4. Free(m, TS)
  BY <1>1, Dependencies DEF Free
<1>5. /\ c \in Batches /\ Stopping(m, c.l) /\ c.l.locked = m.locked \cup {TS}
      /\ c.l.waiting = m.waiting /\ c.list = Tail(list) /\ c.ret = "SUCCESS"
  <2> HIDE DEF c
  <2>1. c = Visit(start, w, "unload")
    BY DEF c
  <2>2. Stoppable(start, TS)
    BY <1>2, <1>4 DEF Stoppable
  <2>3. StopVisited(start, c, TS)
    BY <1>2, <2>1, <2>2, UnloadVisit
  <2> QED BY <1>2, <1>3, <2>3 DEF StopVisited
<1> HIDE DEF c
<1>6. Iteration(start, w, "unload") \in I
  BY <1>2, <1>5 DEF Iteration, c
<1>7. I \subseteq Batches /\ \A b \in I : b.list # <<>> => Visit(b, w, "unload") \in I
  OBVIOUS
<1> HIDE DEF I
<1>8. r \in I
  BY <1>1, <1>6, <1>7, ExecuteRule DEF start
<1> QED BY <1>8 DEF I

\* The toggle of TimeSync, off.
LEMMA ToggleOffSane ==
    ASSUME NEW l, Midst(l), Rest(l), ~l.scanTimer, l.inProcess = Off,
           "TimeSync" \in l.loaded, NEW w \in Worlds,
           NEW m, m \in States,
           m.loaded = l.loaded, m.active = l.active, m.locked = l.locked,
           m.toLoad = l.toLoad \ {"TimeSync"}, m.waitPfw = l.waitPfw, m.waiting = l.waiting,
           m.inProcess = l.inProcess, m.onToggle, m.toggled = "TimeSync",
           m.nextTasks = l.nextTasks,
           m.needToStop = l.needToStop, m.asleep = l.asleep, m.ended = l.ended,
           m.repository = l.repository, m.handlers = l.handlers, m.queue = l.queue,
           m.deferred = l.deferred, m.scanTimer = l.scanTimer
    PROVE  Sane(ExecuteOrComplete(m, w, <<"TimeSync">>, "unload"))
<1> DEFINE list == <<"TimeSync">>
           r == Execute(m, w, list, "unload")
<1>1. m.locked = {} /\ m.waiting["load"] = {} /\ m.waiting["unload"] = {}
  BY DEF Rest, Quiet
<1>2. Calm(m) /\ Wire(m)
  BY WireFrame DEF Midst, Calm
<1>3. Base \subseteq m.toLoad
  BY DEF Midst, Rest, Base
<1>4. ~Ended(m) /\ Begin \notin Items(m.queue[CONF])
  BY DEF Midst, Ended
<1>5. Wanted(m)
  BY <1>3 DEF Wanted, Base
<1>6. Midst(m)
  BY <1>2, <1>3, <1>4, <1>5 DEF Midst
<1>7. list \in Seq(Service) /\ list # <<>> /\ Head(list) = "TimeSync" /\ Tail(list) = <<>>
  BY Services
<1> HIDE DEF list
<1>8. /\ r.ret = "SUCCESS" /\ Stopping(m, r.l) /\ r.l.locked = {"TimeSync"}
      /\ r.l.waiting = m.waiting
  BY <1>1, <1>2, <1>7, ToggleOffBatch
<1>9. ExecuteOrComplete(m, w, list, "unload") = r.l
  BY <1>8 DEF ExecuteOrComplete, CompletedUnless
<1> HIDE DEF r
<1>10. Midst(r.l) /\ ~r.l.scanTimer /\ r.l.inProcess = Off /\ r.l.onToggle
  BY <1>6, <1>8, MidstStopping
<1>11. Unloading(r.l)
  <2>1. r.l.loaded = m.loaded /\ r.l.toLoad = m.toLoad
    BY <1>8 DEF Stopping
  <2> QED BY <1>1, <1>8, <1>10, <2>1 DEF Unloading, Rest
<1>12. Sane(r.l)
  BY <1>10, <1>11, MidstUnloading
<1> QED BY <1>9, <1>12 DEF list

\* The toggle of TimeSync, on. When it can not be started the toggle fails and
\* the task ends.
LEMMA ToggleOnSane ==
    ASSUME NEW l, Midst(l), Rest(l), ~l.scanTimer, l.inProcess = On, l.toLoad # {},
           "TimeSync" \notin l.loaded, NEW w \in Worlds, w.bad = {},
           NEW m, m \in States,
           m.loaded = l.loaded, m.active = l.active, m.locked = l.locked,
           m.toLoad = l.toLoad \cup {"TimeSync"}, m.waitPfw = l.waitPfw, m.waiting = l.waiting,
           m.inProcess = l.inProcess, m.onToggle, m.toggled = l.toggled,
           m.nextTasks = l.nextTasks,
           m.needToStop = l.needToStop, m.asleep = l.asleep, m.ended = l.ended,
           m.repository = l.repository, m.handlers = l.handlers, m.queue = l.queue,
           m.deferred = l.deferred, m.scanTimer = l.scanTimer
    PROVE  Sane(ExecuteOrComplete(m, w, <<"TimeSync">>, "load"))
<1> DEFINE list == <<"TimeSync">>
           r == Execute(m, w, list, "load")
<1>1. Good(m, On) /\ Midst(m) /\ m.locked = {} /\ m.waiting["load"] = {} /\ m.inProcess = On
  <2> DEFINE t == On
             S == {"TimeSync"}
  <2>1. /\ S \subseteq Scope(t) /\ t # Off /\ m.toLoad = l.toLoad \cup S /\ l.inProcess = t
        /\ (m.onToggle => t = On)
    BY Scopes, TasksDiffer
  <2>2. Good(m, t) /\ Midst(m) /\ m.locked = {} /\ m.waiting["load"] = {} /\ m.inProcess = t
    <3> HIDE DEF t, S
    <3> QED BY <2>1, Enlarged
  <2> QED BY <2>2
<1>2. Rest(m)
  BY DEF Rest, Quiet, Extra
<1>7. list \in Seq(Service) /\ list # <<>> /\ Head(list) = "TimeSync" /\ Tail(list) = <<>>
  BY Services
<1> HIDE DEF list
<1>8. r \in Batches /\ Under(m, On, r) /\ (r.ret = "SUCCESS" \/ r.l = m)
  BY <1>1, <1>7, ToggleBatch
<1>9. ExecuteOrComplete(m, w, list, "load") = IF r.ret
         = "SUCCESS" THEN r.l ELSE TaskCompleted(r.l)
  BY DEF ExecuteOrComplete, CompletedUnless
<1> HIDE DEF r
<1>10. CASE r.ret = "SUCCESS"
  <2>1. Midst(r.l) /\ Loading(r.l, On) /\ ~r.l.scanTimer /\ r.l.inProcess = On
    BY <1>1, <1>8, MidstBatch
  <2>2. Sane(r.l)
    BY <2>1, MidstLoading DEF LoadTasks
  <2> QED BY <1>9, <1>10, <2>2 DEF list
<1>11. CASE r.ret # "SUCCESS"
  <2>1. Sane(TaskCompleted(m))
    BY <1>1, <1>2, MidstDone
  <2> QED BY <1>8, <1>9, <1>11, <2>1 DEF list
<1> QED BY <1>10, <1>11

-----------------------------------------------------------------------------
(* Configuration changes                                                   *)

\* The list of one service.
LEMMA OneInOrder ==
    ASSUME NEW s \in Service
    PROVE  InOrder({s}) = <<s>>
<1> DEFINE q == InOrder({s})
<1>1. q \in Seq({s}) /\ Items(q) = {s} /\ Once(q, Service)
  BY InOrderItems, InOrderOnce
<1> HIDE DEF q
<1>2. /\ DOMAIN q = 1..Len(q) /\ Len(q) \in Nat /\ \A i \in 1..Len(q) : q[i] = s
  BY <1>1
<1>3. Len(q) # 0
  <2>1. PICK i \in DOMAIN q : q[i] = s
    BY <1>1 DEF Items
  <2> QED BY <1>2, <2>1
<1>4. Len(q) < 2
  <2> SUFFICES ASSUME Len(q) >= 2 PROVE FALSE
    BY <1>2
  <2>1. 1 \in DOMAIN q /\ 2 \in DOMAIN q /\ q[1] = s /\ q[2] = s
    BY <1>2
  <2>2. 1 = 2
    BY <1>1, <2>1 DEF Once
  <2> QED BY <2>2
<1>5. Len(q) = 1
  BY <1>2, <1>3, <1>4
<1>6. q = <<s>>
  BY <1>1, <1>2, <1>5
<1> QED BY <1>6 DEF q

\* Append on short sequences.
LEMMA AppendTwo ==
    ASSUME NEW S, NEW a \in S, NEW b \in S
    PROVE  Append(<<a>>, b) = <<a, b>>
<1> DEFINE p == Append(<<a>>, b)
           q == <<a, b>>
<1>1. p \in Seq(S) /\ q \in Seq(S) /\ Len(p) = 2 /\ Len(q) = 2
  OBVIOUS
<1>2. p[1] = q[1] /\ p[2] = q[2]
  OBVIOUS
<1> HIDE DEF p, q
<1>3. \A i \in 1..2 : p[i] = q[i]
  BY <1>2
<1>4. p = [i \in 1..Len(p) |-> p[i]] /\ q = [i \in 1..Len(q) |-> q[i]]
  BY <1>1
<1>5. p = q
  BY <1>1, <1>3, <1>4
<1> QED BY <1>5 DEF p, q

\* The same.
LEMMA AppendThree ==
    ASSUME NEW S, NEW a \in S, NEW b \in S, NEW c \in S
    PROVE  Append(<<a, b>>, c) = <<a, b, c>>
<1> DEFINE p == Append(<<a, b>>, c)
           q == <<a, b, c>>
<1>1. p \in Seq(S) /\ q \in Seq(S) /\ Len(p) = 3 /\ Len(q) = 3
  OBVIOUS
<1>2. p[1] = q[1] /\ p[2] = q[2] /\ p[3] = q[3]
  OBVIOUS
<1> HIDE DEF p, q
<1>3. \A i \in 1..3 : p[i] = q[i]
  BY <1>2
<1>4. p = [i \in 1..Len(p) |-> p[i]] /\ q = [i \in 1..Len(q) |-> q[i]]
  BY <1>1
<1>5. p = q
  BY <1>1, <1>3, <1>4
<1> QED BY <1>5 DEF p, q

\* The lists of the two batches that add services to be loaded.
LEMMA LaterLists ==
    /\ Append(ManageabilityGroup, "AmtEnableLast")
          = <<"PowerOperations", "TimeSync", "AmtEnableLast">>
    /\ Append(<<"TimeSync">>, "WaitingForPfwLast") = <<"TimeSync", "WaitingForPfwLast">>
<1>1. {"PowerOperations", "TimeSync", "AmtEnableLast", "WaitingForPfwLast"} \subseteq Service
  BY Services
<1>2. ManageabilityGroup = <<"PowerOperations", "TimeSync">>
  BY DEF ManageabilityGroup
<1>3. Append(<<"PowerOperations", "TimeSync">>, "AmtEnableLast")
         = <<"PowerOperations", "TimeSync", "AmtEnableLast">>
  BY <1>1, AppendThree, Zenon
<1>4. Append(<<"TimeSync">>, "WaitingForPfwLast") = <<"TimeSync", "WaitingForPfwLast">>
  BY <1>1, AppendTwo, Zenon
<1> QED BY <1>2, <1>3, <1>4, Zenon

\* The fields of a change.
LEMMA Changed ==
    ASSUME NEW c, NEW v
    PROVE  Change(c, v).conf = c /\ Change(c, v).value = v /\ Change(c, v).type = "CHANGE"
  BY DEF Change

\* What OnToggleService sets before the batch.
LEMMA ToggleStates ==
    ASSUME NEW l \in States, NEW s \in Service
    PROVE  /\ [l EXCEPT !.onToggle = TRUE, !.toLoad = @ \cup {s}] \in States
           /\ [l EXCEPT !.onToggle = TRUE, !.toggled = s, !.toLoad = @ \ {s}] \in States
<1>1. [l EXCEPT !.onToggle = TRUE, !.toLoad = @ \cup {s}] \in States
  BY StateSets DEF States, Lms
<1>2. [l EXCEPT !.onToggle = TRUE, !.toggled = s, !.toLoad = @ \ {s}] \in States
  BY StateSets DEF States, Lms
<1> QED BY <1>1, <1>2

\* OnToggleService keeps the invariant.
LEMMA ToggleSane ==
    ASSUME NEW l, Midst(l), Rest(l), ~l.onToggle, ~l.scanTimer, l.toLoad # {},
           NEW v \in BOOLEAN, l.inProcess = Change("TIME_SYNC", v),
           NEW w \in Worlds, w.bad = {}
    PROVE  Sane(OnToggleService(l, w, "TimeSync", v))
<1>1. l \in States
  BY DEF Midst
<1>2. CASE v <=> "TimeSync" \in l.loaded
  <2>1. v = ("TimeSync" \in l.loaded)
    BY <1>2
  <2>2. OnToggleService(l, w, "TimeSync", v) = TaskCompleted(l)
    BY <2>1 DEF OnToggleService
  <2> QED BY <2>2, MidstDone
<1>3. CASE v = TRUE /\ "TimeSync" \notin l.loaded
  <2> DEFINE m == [l EXCEPT !.onToggle = TRUE, !.toLoad = @ \cup {"TimeSync"}]
  <2>1. OnToggleService(l, w, "TimeSync", v) = ExecuteOrComplete(m, w, <<"TimeSync">>, "load")
    BY <1>3 DEF OnToggleService
  <2>2. l.inProcess = On
    BY <1>3 DEF On
  <2>3. m \in States
    BY <1>1, Services, ToggleStates
  <2>4. /\ m.loaded = l.loaded /\ m.active = l.active /\ m.locked = l.locked
        /\ m.toLoad = l.toLoad \cup {"TimeSync"} /\ m.waitPfw = l.waitPfw
        /\ m.waiting = l.waiting
        /\ m.inProcess = l.inProcess /\ m.onToggle = TRUE /\ m.toggled = l.toggled
        /\ m.nextTasks = l.nextTasks
        /\ m.needToStop = l.needToStop /\ m.asleep = l.asleep /\ m.ended = l.ended
        /\ m.repository = l.repository /\ m.handlers = l.handlers /\ m.queue = l.queue
        /\ m.deferred = l.deferred /\ m.scanTimer = l.scanTimer
    BY <1>1 DEF States, Lms
  <2> HIDE DEF m
  <2>5. Sane(ExecuteOrComplete(m, w, <<"TimeSync">>, "load"))
    BY <1>3, <2>2, <2>3, <2>4, ToggleOnSane
  <2> QED BY <2>1, <2>5
<1>4. CASE v = FALSE /\ "TimeSync" \in l.loaded
  <2> DEFINE m == [l EXCEPT !.onToggle = TRUE, !.toggled = "TimeSync", !.toLoad
                = @ \ {"TimeSync"}]
  <2>1. OnToggleService(l, w, "TimeSync", v) = ExecuteOrComplete(m, w, <<"TimeSync">>, "unload")
    BY <1>4 DEF OnToggleService
  <2>2. l.inProcess = Off
    BY <1>4 DEF Off
  <2>3. m \in States
    BY <1>1, Services, ToggleStates
  <2>4. /\ m.loaded = l.loaded /\ m.active = l.active /\ m.locked = l.locked
        /\ m.toLoad = l.toLoad \ {"TimeSync"} /\ m.waitPfw = l.waitPfw
        /\ m.waiting = l.waiting
        /\ m.inProcess = l.inProcess /\ m.onToggle = TRUE /\ m.toggled = "TimeSync"
        /\ m.nextTasks = l.nextTasks
        /\ m.needToStop = l.needToStop /\ m.asleep = l.asleep /\ m.ended = l.ended
        /\ m.repository = l.repository /\ m.handlers = l.handlers /\ m.queue = l.queue
        /\ m.deferred = l.deferred /\ m.scanTimer = l.scanTimer
    BY <1>1 DEF States, Lms
  <2> HIDE DEF m
  <2>5. Sane(ExecuteOrComplete(m, w, <<"TimeSync">>, "unload"))
    BY <1>4, <2>2, <2>3, <2>4, ToggleOffSane
  <2> QED BY <2>1, <2>5
<1> QED BY <1>2, <1>3, <1>4

\* UpdateConfiguration keeps the invariant. With ME_ENABLE_CONF the task does
\* not end here: it stays in process, at rest.
LEMMA UpdateConfigurationSane ==
    ASSUME NEW l, Midst(l), Rest(l), ~l.onToggle, ~l.scanTimer, l.toLoad # {},
           NEW t \in ChangeTasks, l.inProcess = t,
           NEW w \in Worlds, w.bad = {}
    PROVE  Sane(UpdateConfiguration(l, w, t))
<1>1. PICK c \in {"ME", "AMT", "TIME_SYNC", "PFW"}, v \in BOOLEAN : t = Change(c, v)
  BY DEF ChangeTasks
<1>2. t.conf = c /\ t.value = v
  BY <1>1, Changed
<1>3. CASE c = "TIME_SYNC"
  <2>1. UpdateConfiguration(l, w, t) = OnToggleService(l, w, "TimeSync", v)
    BY <1>2, <1>3 DEF UpdateConfiguration
  <2> QED BY <1>1, <1>3, <2>1, ToggleSane
<1>4. CASE c = "AMT" /\ v
  <2> DEFINE list == Append(ManageabilityGroup, "AmtEnableLast")
  <2>1. UpdateConfiguration(l, w, t) = LoadNow(l, w, list)
    BY <1>2, <1>4 DEF UpdateConfiguration
  <2>2. list = <<"PowerOperations", "TimeSync", "AmtEnableLast">>
    BY LaterLists
  <2> HIDE DEF list
  <2>3. Later(t, "AmtEnableLast", list)
    BY <1>1, <1>4, <2>2 DEF Later
  <2>4. Sane(LoadNow(l, w, list))
    BY <2>3, LoadNowSane
  <2> QED BY <2>1, <2>4
<1>5. CASE c = "PFW" /\ v /\ l.waitPfw # {}
  <2> DEFINE list == Append(InOrder(l.waitPfw), "WaitingForPfwLast")
  <2>1. UpdateConfiguration(l, w, t) = [LoadNow(l, w, list) EXCEPT !.waitPfw = {}]
    BY <1>2, <1>5 DEF UpdateConfiguration
  <2>2. l.waitPfw = {"TimeSync"}
    BY <1>5 DEF Midst, Calm
  <2>3. InOrder(l.waitPfw) = <<"TimeSync">>
    BY <2>2, OneInOrder, Services
  <2>4. list = <<"TimeSync", "WaitingForPfwLast">>
    BY <2>3, LaterLists, Zenon
  <2> HIDE DEF list
  <2>5. Later(t, "WaitingForPfwLast", list)
    BY <1>1, <1>5, <2>4 DEF Later
  <2>6. Sane(LoadNow(l, w, list))
    BY <2>5, LoadNowSane
  <2> QED BY <2>1, <2>6, WaitersForgotten
<1>6. CASE c = "ME"
  <2>1. UpdateConfiguration(l, w, t) = l
    BY <1>2, <1>6 DEF UpdateConfiguration
  <2> QED BY <2>1, MidstResting
<1>7. CASE (c = "AMT" /\ ~v) \/ (c = "PFW" /\ ~(v /\ l.waitPfw # {}))
  <2>1. UpdateConfiguration(l, w, t) = TaskCompleted(l)
    BY <1>2, <1>7 DEF UpdateConfiguration
  <2> QED BY <2>1, MidstDone
<1> QED BY <1>1, <1>3, <1>4, <1>5, <1>6, <1>7

\* A task that sends another task to the Configurator.
LEMMA MidstPut ==
    ASSUME NEW l, Midst(l), Rest(l), NEW x \in CalmTasks, l.toLoad # {}
    PROVE  Midst(PutQ(l, CONF, x)) /\ Rest(PutQ(l, CONF, x))
              /\ PutQ(l, CONF, x).scanTimer = l.scanTimer
<1> DEFINE m == PutQ(l, CONF, x)
<1>1. l \in States
  BY DEF Midst
<1>2. /\ SameTask(l, m) /\ m.queue = Put(l.queue, CONF, x)
      /\ m.handlers = l.handlers /\ m.repository = l.repository
  BY <1>1, Sends
<1>3. m \in States
  BY <1>1, PutQSound, CalmMessages, Services
<1>4. Wire(m)
  BY <1>1, WirePutTask DEF Midst
<1> HIDE DEF m
<1>5. Calm(m)
  BY <1>2, CalmSame DEF Midst
<1>6. l.queue \in Queues /\ CONF \in Components /\ x \in Messages
  BY <1>1, StateQueues, Services, CalmMessages
<1>7. m.queue[CONF] = Append(l.queue[CONF], x) /\ l.queue[CONF] \in Seq(Messages)
  BY <1>2, <1>6 DEF Put, Queues
<1>8. Items(m.queue[CONF]) = Items(l.queue[CONF]) \cup {x}
  BY <1>6, <1>7, ItemsAppend
<1>9. ~Ended(m) /\ Begin \notin Items(m.queue[CONF])
  BY <1>8, CalmMessages DEF Midst, Ended
<1>10. Wanted(m)
  BY <1>2 DEF Wanted, SameTask
<1>11. Midst(m)
  BY <1>2, <1>3, <1>4, <1>5, <1>9, <1>10 DEF Midst, SameTask
<1>12. Rest(m)
  BY <1>2 DEF Rest, Quiet, SameTask
<1> QED BY <1>2, <1>11, <1>12 DEF m, SameTask

\* Port forwarding is known to be up or down.
LEMMA PfwKnown ==
    ASSUME NEW l, Midst(l), Rest(l), NEW v \in BOOLEAN
    PROVE  LET m == [l EXCEPT !.pfwStarted = v] IN
           Midst(m) /\ Rest(m) /\ m.scanTimer = l.scanTimer /\ m.toLoad = l.toLoad
<1> DEFINE m == [l EXCEPT !.pfwStarted = v]
<1>1. l \in States
  BY DEF Midst
<1>2. m \in States
  BY <1>1 DEF States, Lms
<1>3. Alike(l, m) /\ m.deferred = l.deferred /\ m.scanTimer = l.scanTimer
  BY <1>1 DEF Alike, States, Lms
<1> HIDE DEF m
<1>4. ~m.deferred
  BY <1>3 DEF Midst, Calm
<1>5. Midst(m) /\ Rest(m)
  BY <1>2, <1>3, <1>4, MidstAlike
<1> QED BY <1>3, <1>5 DEF m, Alike

\* The types of the tasks.
LEMMA StartTypes ==
    /\ Begin.type = "START" /\ Task("STOP").type = "STOP"
    /\ Task("PFW_STARTED").type = "PFW_STARTED" /\ Task("PFW_STOPPED").type = "PFW_STOPPED"
    /\ \A t \in ChangeTasks : t.type = "CHANGE"
    /\ Change("PFW", TRUE) \in ChangeTasks
<1>1. \A x : Task(x).type = x
  BY DEF Task
<1>2. Change("PFW", TRUE) \in ChangeTasks
  <2>1. \A c \in {"ME", "AMT", "TIME_SYNC", "PFW"}, v \in BOOLEAN : Change(c, v) \in ChangeTasks
    BY DEF ChangeTasks
  <2> QED BY <2>1
<1> QED BY <1>1, <1>2, TaskTypes DEF Begin

\* The switch of ExecuteTask keeps the invariant, for every task other than the
\* stop, which comes below.
LEMMA StartTaskSane ==
    ASSUME NEW l, Midst(l), Rest(l), ~l.onToggle, ~l.scanTimer,
           NEW t \in CalmTasks \cup {Begin}, l.inProcess = t, t = Begin => l.toLoad = {},
           NEW w \in Worlds, w.bad = {}
    PROVE  Sane(StartTask(l, w, t))
<1>1. l.inProcess \in Wants => l.toLoad # {}
  BY DEF Midst, Wanted
<1>2. CASE t = Begin
  <2>1. StartTask(l, w, t) = ScanConfiguration(l, w)
    BY <1>2, StartTypes DEF StartTask
  <2> QED BY <1>2, <2>1, ScanSane
<1>3. CASE t = Task("PFW_STARTED")
  <2> DEFINE a == [l EXCEPT !.pfwStarted = TRUE]
             p == PutQ(a, CONF, Change("PFW", TRUE))
  <2>1. StartTask(l, w, t) = TaskCompleted(p)
    BY <1>3, StartTypes DEF StartTask
  <2>2. Midst(a) /\ Rest(a) /\ ~a.scanTimer /\ a.toLoad # {}
    <3>1. l.toLoad # {}
      BY <1>1, <1>3 DEF Wants
    <3> QED BY <3>1, PfwKnown
  <2> HIDE DEF a
  <2>3. Midst(p) /\ Rest(p) /\ ~p.scanTimer
    <3> DEFINE x == Change("PFW", TRUE)
    <3>1. x \in CalmTasks
      BY StartTypes DEF CalmTasks
    <3> HIDE DEF x, p
    <3>2. p = PutQ(a, CONF, x)
      BY DEF x, p
    <3> QED BY <2>2, <3>1, <3>2, MidstPut
  <2> QED BY <2>1, <2>3, MidstDone
<1>4. CASE t = Task("PFW_STOPPED")
  <2> DEFINE a == [l EXCEPT !.pfwStarted = FALSE]
  <2>1. StartTask(l, w, t) = TaskCompleted(a)
    BY <1>4, StartTypes DEF StartTask
  <2>2. Midst(a) /\ Rest(a) /\ ~a.scanTimer
    BY PfwKnown
  <2> HIDE DEF a
  <2> QED BY <2>1, <2>2, MidstDone
<1>5. CASE t \in ChangeTasks
  <2>1. StartTask(l, w, t) = UpdateConfiguration(l, w, t)
    BY <1>5, StartTypes DEF StartTask
  <2>2. l.toLoad # {}
    BY <1>1, <1>5 DEF Wants
  <2>3. Sane(UpdateConfiguration(l, w, t))
    BY <1>5, <2>2, UpdateConfigurationSane
  <2> QED BY <2>1, <2>3
<1>6. CASE t = Task("STOP")
  BY <1>6 DEF Midst
<1> QED BY <1>2, <1>3, <1>4, <1>5, <1>6 DEF CalmTasks

-----------------------------------------------------------------------------
(* The stop of all services                                                *)

\* The stop is executed.
Shut(l) ==
    /\ l \in States /\ Calm(l) /\ Wire(l) /\ l.needToStop /\ Closing(l)
    /\ Begin \notin Items(l.queue[CONF])

\* It is what the invariant says once a stop was executed.
LEMMA ShutSane ==
    ASSUME NEW l
    PROVE  Shut(l) <=> Sane(l) /\ l.needToStop
  BY DEF Shut, Sane, Tasking, Begun

\* The end of a task.
LEMMA ShutPut ==
    ASSUME NEW l, Shut(l)
    PROVE  Shut(TaskCompleted(l))
<1> DEFINE m == TaskCompleted(l)
<1>1. l \in States
  BY DEF Shut
<1>2. /\ SameTask(l, m) /\ m.queue = Put(l.queue, CONF, Completed)
      /\ m.handlers = l.handlers /\ m.repository = l.repository
  BY <1>1, Sends DEF TaskCompleted
<1>3. m \in States
  BY <1>1, TaskCompletedSound
<1>4. Wire(m)
  BY <1>1, WirePutTask DEF Shut, TaskCompleted
<1> HIDE DEF m
<1>5. Calm(m)
  BY <1>2, CalmSame DEF Shut
<1>6. l.queue \in Queues /\ CONF \in Components /\ Completed \in Messages
  BY <1>1, StateQueues, Services, CalmMessages, MessageSets
<1>7. m.queue[CONF] = Append(l.queue[CONF], Completed) /\ l.queue[CONF] \in Seq(Messages)
  BY <1>2, <1>6 DEF Put, Queues
<1>8. Items(m.queue[CONF]) = Items(l.queue[CONF]) \cup {Completed}
  BY <1>6, <1>7, ItemsAppend
<1>9. Begin # Completed
  BY DEF Completed, Begin, Task
<1>10. Closing(m) /\ m.needToStop
  BY <1>2 DEF SameTask, Shut, Closing
<1>11. Shut(m)
  BY <1>3, <1>4, <1>5, <1>8, <1>9, <1>10 DEF Shut
<1> QED BY <1>11 DEF m

\* A batch command that unloads.
LEMMA ShutStopping ==
    ASSUME NEW l, Shut(l), NEW m, Stopping(l, m), m.locked \subseteq m.loaded
    PROVE  Shut(m)
  BY DEF Shut, Stopping, Closing, Frame

\* While all is being stopped, a service that is ready to be unloaded is free:
\* the prerequisites of an unload contain everything that depends on it.
LEMMA ShutFree ==
    ASSUME NEW b, b.l \in States, Shut(b.l), NEW s
    PROVE  Stoppable(b, s)
<1> DEFINE l == b.l
<1> SUFFICES ASSUME ReadyToOperation(l, s, "unload"), s \in l.loaded,
                    NEW t \in l.loaded \cup l.locked, s \in AbsoluteDependencies[t]
             PROVE  FALSE
  BY DEF Stoppable, Free
<1>1. l.loaded \in SUBSET Service
  BY StateSets
<1>2. l.locked \subseteq l.loaded /\ l.loaded \subseteq l.toLoad /\ l.toggled = None
  BY DEF Shut, Closing
<1>3. t \in l.loaded /\ t \in l.toLoad /\ t \in Service /\ s \in Service
  BY <1>1, <1>2
<1>4. Before(s, t)
  BY <1>3, MountFacts
<1>5. s # l.toggled
  BY <1>2, <1>3, ConfiguratorConstants, Services
<1>6. t \in Prerequisites(l, s, "unload")
  BY <1>3, <1>4, <1>5, UnloadPrerequisites
<1> QED BY <1>3, <1>6, UnloadPrerequisites

\* A batch command that unloads keeps it, whatever its list.
LEMMA StopBatch ==
    ASSUME NEW l, Shut(l), NEW w \in Worlds, NEW list \in Seq(Service)
    PROVE  Shut(ExecuteOrComplete(l, w, list, "unload"))
<1> DEFINE start == BatchOf(l, list)
           I == {b \in Batches : Shut(b.l)}
           r == Execute(l, w, list, "unload")
<1>1. l \in States /\ "unload" \in Op
  BY DEF Shut, Op
<1>2. start.l = l /\ start.list = list /\ start \in Batches
  BY <1>1 DEF BatchOf, Batches, Ret
<1> HIDE DEF start
<1>3. ASSUME NEW b, b \in Batches, Shut(b.l), b.list # <<>>
      PROVE  Visit(b, w, "unload") \in I
  <2> DEFINE c == Visit(b, w, "unload")
             s == Head(b.list)
  <2>1. b.l \in States /\ Calm(b.l) /\ Wire(b.l) /\ Closing(b.l)
    BY <1>3 DEF Shut
  <2>2. Stoppable(b, s)
    BY <1>3, <2>1, ShutFree
  <2>3. StopVisited(b, c, s)
    BY <1>3, <2>1, <2>2, UnloadVisit
  <2> HIDE DEF c, s
  <2>4. /\ c \in Batches /\ Stopping(b.l, c.l)
        /\ c.l.locked \subseteq b.l.locked \cup (b.l.loaded \cap {s})
    BY <2>3 DEF StopVisited
  <2>5. c.l.locked \subseteq c.l.loaded
    BY <2>1, <2>4 DEF Closing, Stopping
  <2>6. Shut(c.l)
    BY <1>3, <2>4, <2>5, ShutStopping
  <2> QED BY <2>4, <2>6 DEF c
<1>4. Iteration(start, w, "unload") \in I
  BY <1>2, <1>3 DEF Iteration
<1>5. I \subseteq Batches /\ \A b \in I : b.list # <<>> => Visit(b, w, "unload") \in I
  BY <1>3
<1> HIDE DEF I
<1>6. r \in I
  BY <1>1, <1>4, <1>5, ExecuteRule DEF start
<1>7. Shut(r.l)
  BY <1>6 DEF I
<1>8. Shut(TaskCompleted(r.l))
  BY <1>7, ShutPut
<1> QED BY <1>7, <1>8 DEF ExecuteOrComplete, CompletedUnless

\* StopAllServices begins the stop.
LEMMA StopAllShut ==
    ASSUME NEW l, l \in States, Calm(l), Wire(l), Rest(l), ~l.onToggle, l.toggled = None,
           ~l.scanTimer, ~l.ended, Begin \notin Items(l.queue[CONF]),
           NEW w \in Worlds
    PROVE  Shut(StopAllServices(l, w, TRUE))
<1> DEFINE m == [l EXCEPT !.needToStop = TRUE]
           n == [m EXCEPT !.ended = @ \/ TRUE]
<1>1. m \in States
  BY ZenonT(30) DEF States, Lms
<1>2. /\ m.loaded = l.loaded /\ m.active = l.active /\ m.locked = l.locked
      /\ m.toLoad = l.toLoad /\ m.waitPfw = l.waitPfw /\ m.waiting = l.waiting
      /\ m.inProcess = l.inProcess /\ m.onToggle = l.onToggle
      /\ m.toggled = l.toggled /\ m.nextTasks = l.nextTasks
      /\ m.needToStop = TRUE /\ m.asleep = l.asleep /\ m.ended = l.ended
      /\ m.repository = l.repository /\ m.handlers = l.handlers /\ m.queue = l.queue
      /\ m.deferred = l.deferred /\ m.scanTimer = l.scanTimer
  BY DEF States, Lms
<1>3. n = [m EXCEPT !.ended = TRUE]
  OBVIOUS
<1> HIDE DEF m, n
<1>4. Calm(m) /\ Wire(m)
  BY <1>2, WireFrame DEF Calm
<1>5. Shut(m)
  BY <1>1, <1>2, <1>4 DEF Shut, Closing, Rest, Quiet
<1>6. CASE l.loaded # {}
  <2> DEFINE list == InOrder(m.loaded)
  <2>1. StopAllServices(l, w, TRUE) = ExecuteOrComplete(m, w, list, "unload")
    BY <1>2, <1>6 DEF StopAllServices, m
  <2>2. list \in Seq(Service)
    BY <1>1, StateSets, InOrderItems
  <2> HIDE DEF list
  <2> QED BY <1>5, <2>1, <2>2, StopBatch
<1>7. CASE l.loaded = {}
  <2>1. StopAllServices(l, w, TRUE) = TaskCompleted(n)
    BY <1>2, <1>7 DEF StopAllServices, m, n
  <2>2. n \in States
    BY <1>1, <1>3, ZenonT(30) DEF States, Lms
  <2>3. /\ n.loaded = m.loaded /\ n.active = m.active /\ n.locked = m.locked
        /\ n.toLoad = m.toLoad /\ n.waitPfw = m.waitPfw /\ n.waiting = m.waiting
        /\ n.inProcess = m.inProcess /\ n.onToggle = m.onToggle
        /\ n.toggled = m.toggled /\ n.nextTasks = m.nextTasks
        /\ n.needToStop = m.needToStop /\ n.asleep = m.asleep
        /\ n.repository = m.repository /\ n.handlers = m.handlers /\ n.queue = m.queue
        /\ n.deferred = m.deferred /\ n.scanTimer = m.scanTimer
    BY <1>1, <1>3 DEF States, Lms
  <2>4. Calm(n) /\ Wire(n)
    BY <1>4, <2>3, WireFrame DEF Calm
  <2>5. Shut(n)
    BY <1>2, <1>5, <1>7, <2>2, <2>3, <2>4 DEF Shut, Closing
  <2> QED BY <2>1, <2>5, ShutPut
<1> QED BY <1>6, <1>7

-----------------------------------------------------------------------------
(* The status of a service                                                 *)

\* m is l after a status has been taken and noted.
Noted(l, m) ==
    /\ m \in States /\ Wire(m) /\ m.active = m.loaded
    /\ m.waitPfw = l.waitPfw /\ m.waiting = l.waiting
    /\ m.inProcess = l.inProcess /\ m.onToggle = l.onToggle
    /\ m.toggled = l.toggled /\ m.nextTasks = l.nextTasks
    /\ m.needToStop = l.needToStop /\ m.scanTimer = l.scanTimer
    /\ m.deferred = l.deferred /\ m.asleep = l.asleep
    /\ m.repository[CONF] = l.repository[CONF]
    /\ m.queue = Take(l.queue, CONF)

\* The status of a service does not disturb the calm.
LEMMA NotedCalm ==
    ASSUME NEW l, Calm(l), NEW m, Noted(l, m)
    PROVE  Calm(m)
  BY DEF Calm, Noted

\* The message was about a service, so no task is gone.
LEMMA NotedQueue ==
    ASSUME NEW l, Sane(l), NEW m, Noted(l, m), l.queue[CONF] # <<>>,
           Head(l.queue[CONF]) \in Notices
    PROVE  /\ Items(l.queue[CONF]) = Items(m.queue[CONF]) \cup {Head(l.queue[CONF])}
           /\ Begin \notin Items(l.queue[CONF]) /\ Begin \notin Items(m.queue[CONF])
           /\ Ended(m) <=> Ended(l)
<1>1. l.queue \in Queues /\ CONF \in Components
  BY StateQueues, Services DEF Sane
<1>2. Items(l.queue[CONF]) = Items(m.queue[CONF]) \cup {Head(l.queue[CONF])}
  <2> DEFINE Q == l.queue
  <2>1. Q \in Queues /\ Q[CONF] # <<>> /\ m.queue = Take(Q, CONF)
    BY <1>1 DEF Noted
  <2> HIDE DEF Q
  <2>2. Items(Q[CONF]) = Items(Take(Q, CONF)[CONF]) \cup {Head(Q[CONF])}
    BY <1>1, <2>1, TakeItems
  <2> QED BY <2>1, <2>2 DEF Q
<1>3. Head(l.queue[CONF]) # Begin /\ Head(l.queue[CONF]) # Completed
  BY BeginNoNotice
<1>4. Begin \notin Items(l.queue[CONF])
  <2>1. Head(l.queue[CONF]) = l.queue[CONF][1]
    BY <1>1 DEF Queues
  <2> QED BY <1>3, <2>1 DEF Sane, Tasking, Begun
<1> QED BY <1>2, <1>3, <1>4 DEF Ended

\* While all is being stopped: the status of an unload.
LEMMA UnloadShut ==
    ASSUME NEW l, Sane(l), l.needToStop, NEW m, Noted(l, m), l.queue[CONF] # <<>>,
           Head(l.queue[CONF]) \in Notices,
           NEW s \in l.locked, s \in l.loaded,
           m.loaded = l.loaded \ {s}, m.locked = l.locked \ {s},
           m.toLoad = IF m.loaded = {} THEN {} ELSE l.toLoad,
           m.ended <=> l.ended \/ (m.loaded = {} /\ l.needToStop)
    PROVE  Shut(m)
<1>1. Closing(l)
  BY DEF Sane, Tasking
<1>2. ~l.ended
  BY <1>1 DEF Closing
<1>3. Closing(m)
  BY <1>1, <1>2 DEF Closing, Noted
<1>4. Begin \notin Items(m.queue[CONF])
  BY NotedQueue
<1>5. Calm(m)
  BY NotedCalm DEF Sane
<1> QED BY <1>3, <1>4, <1>5 DEF Shut, Noted

\* Where a task is in process and a service is locked.
LEMMA MidstNoted ==
    ASSUME NEW l, Sane(l), ~l.needToStop, NEW m, Noted(l, m), l.queue[CONF] # <<>>,
           Head(l.queue[CONF]) \in Notices,
           NEW s \in l.locked, m.ended = l.ended, m.toLoad = l.toLoad
    PROVE  /\ Midst(m) /\ ~l.scanTimer /\ l.toLoad # {}
           /\ \/ l.inProcess \in LoadTasks /\ Loading(l, l.inProcess)
              \/ /\ l.inProcess = Off /\ Unloading(l) /\ s = "TimeSync" /\ s \in l.loaded
                 /\ l.onToggle
<1>1. Open(l) /\ Wanted(l)
  BY DEF Sane, Tasking
<1>2. ~Rest(l)
  BY DEF Rest, Quiet
<1>3. l.inProcess # None /\ ~Ended(l) /\ l.inProcess \in LoadTasks \cup {Off}
  BY <1>1, <1>2 DEF Open
<1>4. l.inProcess \in LoadTasks => Loading(l, l.inProcess) /\ l.toLoad # {}
  BY <1>1 DEF Open, Loading
<1>5. l.inProcess = Off => Unloading(l) /\ s = "TimeSync" /\ s \in l.loaded /\ l.onToggle
  BY <1>1 DEF Open, Unloading
<1>6. Off \in Wants
  <2>1. \E c \in {"ME", "AMT", "TIME_SYNC", "PFW"}, v \in BOOLEAN : Off = Change(c, v)
    BY DEF Off
  <2> QED BY <2>1 DEF Wants, ChangeTasks
<1>7. l.toLoad # {}
  BY <1>1, <1>3, <1>4, <1>6 DEF Wanted
<1>8. ~l.scanTimer
  BY <1>1, <1>7 DEF Open
<1>9. Calm(m)
  BY NotedCalm DEF Sane
<1>10. /\ Items(m.queue[CONF]) \subseteq Items(l.queue[CONF])
       /\ Begin \notin Items(m.queue[CONF]) /\ ~Ended(m)
  BY <1>3, NotedQueue
<1>11. Midst(m)
  BY <1>1, <1>3, <1>7, <1>9, <1>10 DEF Midst, Noted, Open, Wanted
<1> QED BY <1>3, <1>4, <1>5, <1>7, <1>8, <1>11

\* The service that is switched off is removed: nothing is left to do.
LEMMA UnloadedRest ==
    ASSUME NEW l, Sane(l), ~l.needToStop, NEW m, Noted(l, m), l.queue[CONF] # <<>>,
           Head(l.queue[CONF]) \in Notices,
           NEW s \in l.locked, s \in l.loaded,
           m.loaded = l.loaded \ {s}, m.locked = l.locked \ {s},
           m.toLoad = IF m.loaded = {} THEN {} ELSE l.toLoad,
           m.ended <=> l.ended \/ (m.loaded = {} /\ l.needToStop)
    PROVE  Midst(m) /\ Rest(m) /\ ~m.scanTimer /\ m.onToggle /\ s = "TimeSync"
<1>1. Open(l) /\ Depend(l) /\ l \in States
  BY DEF Sane, Tasking, Wire
<1>2. l.ended \in BOOLEAN /\ m.ended \in BOOLEAN
  BY <1>1 DEF States, Lms, Noted
<1>3. m.ended = l.ended
  BY <1>2
<1>4. CASE m.loaded = {}
  <2>1. l.loaded = {s}
    BY <1>4
  <2>2. ~Rest(l)
    BY DEF Rest, Quiet
  <2>3. l.inProcess \in LoadTasks => s \notin l.loaded
    BY <1>1 DEF Open, Loading
  <2>4. l.inProcess = Off => s = "TimeSync"
    BY <1>1 DEF Open, Unloading
  <2>5. s = "TimeSync"
    BY <1>1, <2>2, <2>3, <2>4 DEF Open
  <2>6. AbsoluteDependencies["TimeSync"] = {"PortForwarding"}
    BY Services DEF AbsoluteDependencies, Handler
  <2> QED BY <1>1, <2>1, <2>5, <2>6 DEF Depend
<1>5. CASE m.loaded # {}
  <2>1. m.toLoad = l.toLoad
    BY <1>5
  <2>2. /\ Midst(m) /\ ~l.scanTimer
        /\ \/ l.inProcess \in LoadTasks /\ Loading(l, l.inProcess)
           \/ /\ l.inProcess = Off /\ Unloading(l) /\ s = "TimeSync" /\ s \in l.loaded
              /\ l.onToggle
    BY <1>3, <2>1, MidstNoted
  <2>3. Unloading(l) /\ s = "TimeSync" /\ l.onToggle
    BY <2>2 DEF Loading
  <2>4. Rest(m)
    BY <2>1, <2>3 DEF Rest, Quiet, Unloading, Noted, Extra
  <2> QED BY <2>2, <2>3, <2>4 DEF Noted
<1> QED BY <1>4, <1>5

\* The services in R no longer wait for op.
Woken(m, op, R) == [m EXCEPT !.waiting[op] = @ \ R]

\* The services R no longer wait.
LEMMA WaitFields ==
    ASSUME NEW m \in States, NEW op \in Op, NEW R, NEW n, n = Woken(m, op, R)
    PROVE  /\ n \in States /\ n.waiting[op] = m.waiting[op] \ R
           /\ \A o \in Op : o # op => n.waiting[o] = m.waiting[o]
           /\ n.loaded = m.loaded /\ n.active = m.active /\ n.locked = m.locked
           /\ n.toLoad = m.toLoad /\ n.waitPfw = m.waitPfw
           /\ n.inProcess = m.inProcess /\ n.onToggle = m.onToggle
           /\ n.toggled = m.toggled /\ n.nextTasks = m.nextTasks
           /\ n.needToStop = m.needToStop /\ n.asleep = m.asleep /\ n.ended = m.ended
           /\ n.repository = m.repository /\ n.handlers = m.handlers /\ n.queue = m.queue
           /\ n.deferred = m.deferred /\ n.scanTimer = m.scanTimer
<1>0. m.waiting[op] \ R \in SUBSET Service
  BY StateSets
<1>1. n \in States
  BY <1>0, WaitSound DEF Woken
<1>2. m.waiting \in [Op -> SUBSET Service]
  BY DEF States, Lms
<1>3. n = [m EXCEPT !.waiting[op] = m.waiting[op] \ R]
  BY DEF Woken
<1>4. /\ n.waiting[op] = m.waiting[op] \ R
      /\ \A o \in Op : o # op => n.waiting[o] = m.waiting[o]
  BY <1>2, <1>3 DEF States, Lms
<1>5. /\ n.loaded = m.loaded /\ n.active = m.active /\ n.locked = m.locked
      /\ n.toLoad = m.toLoad /\ n.waitPfw = m.waitPfw
      /\ n.inProcess = m.inProcess /\ n.onToggle = m.onToggle
      /\ n.toggled = m.toggled /\ n.nextTasks = m.nextTasks
      /\ n.needToStop = m.needToStop /\ n.asleep = m.asleep /\ n.ended = m.ended
      /\ n.repository = m.repository /\ n.handlers = m.handlers /\ n.queue = m.queue
      /\ n.deferred = m.deferred /\ n.scanTimer = m.scanTimer
  BY <1>3 DEF States, Lms
<1> QED BY <1>1, <1>4, <1>5

\* While all is being stopped it does not matter who waits.
LEMMA WaitersShut ==
    ASSUME NEW m, Shut(m), NEW n \in States,
           n.waiting["load"] = m.waiting["load"], n.waiting["suspend"] = m.waiting["suspend"],
           n.waiting["resume"] = m.waiting["resume"],
           n.loaded = m.loaded, n.active = m.active, n.locked = m.locked,
           n.toLoad = m.toLoad, n.waitPfw = m.waitPfw,
           n.inProcess = m.inProcess, n.onToggle = m.onToggle,
           n.toggled = m.toggled, n.nextTasks = m.nextTasks,
           n.needToStop = m.needToStop, n.asleep = m.asleep, n.ended = m.ended,
           n.repository = m.repository, n.handlers = m.handlers, n.queue = m.queue,
           n.deferred = m.deferred, n.scanTimer = m.scanTimer
    PROVE  Shut(n)
<1>1. Calm(m) /\ Wire(m)
  BY DEF Shut
<1>2. Calm(n)
  BY <1>1 DEF Calm
<1>3. Wire(n)
  BY <1>1, WireFrame
<1> QED BY <1>2, <1>3 DEF Shut, Closing

\* While all is being stopped: what follows the status of an unload.
LEMMA ShutContinues ==
    ASSUME NEW m, Shut(m), NEW w \in Worlds, NEW s, NEW marker
    PROVE  Shut(ContinueOrComplete(m, w, "unload", s, marker))
<1> DEFINE ready == RefreshOnOperation(m, "unload")
           n == [m EXCEPT !.waiting["unload"] = @ \ ready]
           list == InOrder(ready)
<1>1. ready \in SUBSET Service
  BY StateSets DEF RefreshOnOperation, Op, Shut
<1>2. list \in Seq(Service)
  BY <1>1, InOrderItems
<1>3. Shut(n)
  <2>1. /\ m \in States
        /\ "unload" \in Op /\ "load" \in Op /\ "suspend" \in Op /\ "resume" \in Op
    BY DEF Shut, Op
  <2> HIDE DEF ready
  <2>2. n = Woken(m, "unload", ready)
    BY DEF Woken
  <2> HIDE DEF n
  <2>3. /\ n \in States
        /\ \A o \in Op : o # "unload" => n.waiting[o] = m.waiting[o]
        /\ n.loaded = m.loaded /\ n.active = m.active /\ n.locked = m.locked
        /\ n.toLoad = m.toLoad /\ n.waitPfw = m.waitPfw
        /\ n.inProcess = m.inProcess /\ n.onToggle = m.onToggle
        /\ n.toggled = m.toggled /\ n.nextTasks = m.nextTasks
        /\ n.needToStop = m.needToStop /\ n.asleep = m.asleep /\ n.ended = m.ended
        /\ n.repository = m.repository /\ n.handlers = m.handlers /\ n.queue = m.queue
        /\ n.deferred = m.deferred /\ n.scanTimer = m.scanTimer
    BY <2>1, <2>2, WaitFields
  <2>4. n.waiting["load"] = m.waiting["load"] /\ n.waiting["suspend"] = m.waiting["suspend"]
        /\ n.waiting["resume"] = m.waiting["resume"]
    BY <2>1, <2>3
  <2> HIDE <2>2
  <2> QED BY <2>3, <2>4, WaitersShut
<1>4. ContinueOrComplete(m, w, "unload", s, marker) \in
         {ExecuteOrComplete(n, w, list, "unload"), TaskCompleted(m), m}
  BY DEF ContinueOrComplete
<1> HIDE DEF n, list, ready
<1>5. Shut(ExecuteOrComplete(n, w, list, "unload"))
  BY <1>2, <1>3, StopBatch
<1>6. Shut(TaskCompleted(m))
  BY ShutPut
<1> QED BY <1>4, <1>5, <1>6

\* A removed service is noted.
LEMMA FiniNoted ==
    ASSUME NEW l, Sane(l), NEW k, Took(l, k, CONF), NEW s \in Service,
           Head(l.queue[CONF]) = Status(s, "unload"), NEW m, m = FiniAceService(k, s)
    PROVE  /\ Noted(l, m) /\ s \in l.locked /\ s \in l.loaded
           /\ m.loaded = l.loaded \ {s} /\ m.locked = l.locked \ {s}
           /\ m.toLoad = IF m.loaded = {} THEN {} ELSE l.toLoad
           /\ m.ended <=> l.ended \/ (m.loaded = {} /\ l.needToStop)
<1>1. l \in States /\ Wire(l) /\ l.active = l.loaded
  BY DEF Sane, Calm
<1>2. k \in States /\ Frame(l, k) /\ CONF \in Components
  BY <1>1, TookFields, Services DEF Frame
<1>3. Frame(l, m)
  BY <1>2, FiniFrame, FrameTransitive
<1>4. /\ s \in l.locked /\ s \in l.loaded
      /\ Wire(m) /\ m \in States
      /\ m.loaded = l.loaded \ {s} /\ m.active = l.active \ {s}
      /\ m.locked = l.locked \ {s}
      /\ m.queue = Take(l.queue, CONF)
      /\ m.repository[CONF] = l.repository[CONF]
      /\ m.waiting = l.waiting /\ m.waitPfw = l.waitPfw
      /\ m.toLoad = IF m.loaded = {} THEN {} ELSE l.toLoad
      /\ m.ended <=> l.ended \/ (m.loaded = {} /\ l.needToStop)
  BY <1>1, WireUnloaded
<1> QED BY <1>1, <1>3, <1>4 DEF Noted, Frame

\* The status of an unload.
LEMMA UnloadStatusSane ==
    ASSUME NEW l, Sane(l), NEW k, Took(l, k, CONF), NEW s \in Service,
           Head(l.queue[CONF]) = Status(s, "unload"), NEW w \in Worlds
    PROVE  Sane(ChangeServiceState(k, w, s, "unload"))
<1> DEFINE m == FiniAceService(k, s)
           c == ContinueOrComplete(m, w, "unload", s, {"First"})
<1>0. l.queue[CONF] # <<>> /\ Head(l.queue[CONF]) \in Notices
  BY NoticeMessages, NoticeTypes DEF Took
<1>1. l \in States /\ CONF \in Components
  BY Services DEF Sane
<1>2. k.onToggle = l.onToggle
  BY <1>1, TookFields
<1>3. ServiceChanged(k, w, s, "unload") = c
  BY DEF ServiceChanged
<1>4. ChangeServiceState(k, w, s, "unload") = IF ~l.onToggle THEN c ELSE TaskCompleted(c)
  BY <1>2, <1>3 DEF ChangeServiceState, CompletedUnless
<1>5. /\ Noted(l, m) /\ s \in l.locked /\ s \in l.loaded
      /\ m.loaded = l.loaded \ {s} /\ m.locked = l.locked \ {s}
      /\ m.toLoad = IF m.loaded = {} THEN {} ELSE l.toLoad
      /\ m.ended <=> l.ended \/ (m.loaded = {} /\ l.needToStop)
  <2> HIDE DEF m
  <2>1. m = FiniAceService(k, s)
    BY DEF m
  <2> QED BY <2>1, FiniNoted
<1> HIDE DEF m
<1>6. CASE l.needToStop
  <2>1. Shut(m)
    BY <1>0, <1>5, <1>6, UnloadShut
  <2>2. Shut(c)
    BY <2>1, ShutContinues DEF c
  <2>3. ~l.onToggle
    BY <1>6 DEF Sane, Tasking, Closing
  <2> QED BY <1>4, <2>2, <2>3, ShutSane
<1>7. CASE ~l.needToStop
  <2>1. Midst(m) /\ Rest(m) /\ ~m.scanTimer /\ m.onToggle /\ s = "TimeSync"
    BY <1>0, <1>5, <1>7, UnloadedRest
  <2>2. m.waiting["unload"] = {} /\ s \notin {"First"}
    BY <2>1 DEF Rest, Quiet
  <2>3. c = m
    BY <2>2 DEF ContinueOrComplete, RefreshOnOperation, c
  <2>4. l.onToggle
    BY <1>5, <2>1 DEF Noted
  <2>5. Sane(TaskCompleted(m))
    BY <2>1, MidstDone
  <2> QED BY <1>4, <2>3, <2>4, <2>5
<1> QED BY <1>6, <1>7

\* The Configurator notes that a service is loaded.
NoteLoaded(k, s) ==
    [k EXCEPT !.loaded = @ \cup {s}, !.active = @ \cup {s}, !.locked = @ \ {s}]

\* A loaded service is noted.
LEMMA LoadNoted ==
    ASSUME NEW l, Sane(l), NEW k, Took(l, k, CONF), NEW s \in Service,
           Head(l.queue[CONF]) = Status(s, "load"),
           NEW m, m = NoteLoaded(k, s)
    PROVE  /\ Noted(l, m) /\ s \in l.locked /\ s \notin l.loaded
           /\ m.loaded = l.loaded \cup {s} /\ m.locked = l.locked \ {s}
           /\ m.toLoad = l.toLoad /\ m.ended = l.ended
<1>1. l \in States /\ Wire(l) /\ l.active = l.loaded /\ CONF \in Components
  BY Services DEF Sane, Calm
<1>0. m = [k EXCEPT !.loaded = @ \cup {s}, !.active = @ \cup {s}, !.locked = @ \ {s}]
  BY DEF NoteLoaded
<1>2. s \in l.locked /\ s \notin l.loaded /\ Wire(m) /\ m \in States
  <2>1. LET n == [k EXCEPT !.loaded = @ \cup {s}, !.active = @ \cup {s}, !.locked = @ \ {s}]
        IN s \in l.locked /\ s \notin l.loaded /\ Wire(n) /\ n \in States
    BY <1>1, WireLoaded
  <2> QED BY <1>0, <2>1
<1>3. /\ k \in States /\ k.queue = Take(l.queue, CONF)
      /\ k.loaded = l.loaded /\ k.active = l.active /\ k.locked = l.locked
      /\ k.toLoad = l.toLoad /\ k.waitPfw = l.waitPfw /\ k.waiting = l.waiting
      /\ k.inProcess = l.inProcess /\ k.onToggle = l.onToggle
      /\ k.toggled = l.toggled /\ k.nextTasks = l.nextTasks
      /\ k.needToStop = l.needToStop /\ k.scanTimer = l.scanTimer /\ k.deferred = l.deferred
      /\ k.repository = l.repository /\ k.asleep = l.asleep /\ k.ended = l.ended
  BY <1>1, TookFields
<1>4. /\ m.queue = k.queue
      /\ m.loaded = k.loaded \cup {s} /\ m.active = k.active \cup {s}
      /\ m.locked = k.locked \ {s}
      /\ m.toLoad = k.toLoad /\ m.waitPfw = k.waitPfw /\ m.waiting = k.waiting
      /\ m.inProcess = k.inProcess /\ m.onToggle = k.onToggle
      /\ m.toggled = k.toggled /\ m.nextTasks = k.nextTasks
      /\ m.needToStop = k.needToStop /\ m.scanTimer = k.scanTimer /\ m.deferred = k.deferred
      /\ m.repository = k.repository /\ m.asleep = k.asleep /\ m.ended = k.ended
  BY <1>0, <1>3 DEF States, Lms
<1> QED BY <1>1, <1>2, <1>3, <1>4 DEF Noted

\* A service without an order is told to be loaded before the event manager.
LEMMA HostsFirst ==
    ASSUME NEW l, Sane(l), NEW t, Loading(l, t), l.queue[CONF] # <<>>,
           "HostChanges" \in l.locked, NEW s \in Service, s # "HostChanges",
           Head(l.queue[CONF]) = Status(s, "load")
    PROVE  s # "EventManager" /\ Precedes(Tail(l.queue[CONF]), Hosts, Manager)
<1>1. l \in States /\ Wire(l) /\ "HostChanges" \in Service /\ "HostChanges" \notin Handler
  BY Services DEF Sane, Handler
<1>2. l.queue[CONF] \in Seq(Messages)
  BY <1>1, StateQueues, Services DEF Queues
<1>3. "HostChanges" \notin l.loaded /\ Precedes(l.queue[CONF], Hosts, Manager)
  BY DEF Loading, Hosts, Manager
<1>4. Talk(l, "HostChanges")
  BY <1>1 DEF Wire
<1>5. UnderWay(l.queue, "HostChanges") = {"load"}
  BY <1>1, <1>3, <1>4 DEF Talk, Converse
<1>6. "load" \in UnderWay(l.queue, "HostChanges")
  BY <1>5
<1>7. Hosts \in Items(l.queue[CONF])
  BY <1>1, <1>6, NoticeMessages DEF UnderWay, Hosts
<1>8. /\ Precedes(Tail(l.queue[CONF]), Hosts, Manager)
      /\ (Head(l.queue[CONF]) = Manager => Hosts \notin Items(l.queue[CONF]))
  BY <1>2, <1>3, PrecedesTail
<1> QED BY <1>7, <1>8 DEF Manager

\* The loading goes on.
LEMMA LoadedLoading ==
    ASSUME NEW l, Sane(l), NEW m, Noted(l, m), l.queue[CONF] # <<>>, NEW s \in Service,
           Head(l.queue[CONF]) = Status(s, "load"), s \in l.locked, s \notin l.loaded,
           m.loaded = l.loaded \cup {s}, m.locked = l.locked \ {s},
           m.toLoad = l.toLoad, NEW t, Loading(l, t)
    PROVE  Loading(m, t)
<1>1. m.waiting = l.waiting /\ m.onToggle = l.onToggle /\ m.toggled = l.toggled
      /\ m.queue = Take(l.queue, CONF) /\ l \in States
  BY DEF Noted, Sane
<1>2. \A z, op : Prerequisites(m, z, op) = Prerequisites(l, z, op)
  BY <1>1, PrerequisitesAlike
<1>3. m.queue[CONF] = Tail(l.queue[CONF])
  <2> DEFINE Q == l.queue
  <2>1. Q \in Queues /\ CONF \in Components /\ Q[CONF] # <<>> /\ m.queue = Take(Q, CONF)
    BY <1>1, StateQueues, Services
  <2> HIDE DEF Q
  <2>2. Take(Q, CONF)[CONF] = Tail(Q[CONF])
    BY <2>1, TakeItems
  <2> QED BY <2>1, <2>2 DEF Q
<1>4. "HostChanges" \in m.locked =>
          /\ "EventManager" \notin m.loaded
          /\ Precedes(m.queue[CONF], Status("HostChanges", "load"), Status("EventManager", "load"))
  <2>1. SUFFICES ASSUME "HostChanges" \in m.locked
                 PROVE  "EventManager" \notin m.loaded /\ Precedes(m.queue[CONF], Hosts, Manager)
    BY DEF Hosts, Manager
  <2>2. "HostChanges" \in l.locked /\ s # "HostChanges"
    BY <2>1
  <2>3. s # "EventManager" /\ Precedes(Tail(l.queue[CONF]), Hosts, Manager)
    BY <2>2, HostsFirst
  <2>4. "EventManager" \notin l.loaded
    BY <2>2 DEF Loading
  <2> QED BY <1>3, <2>3, <2>4
<1>5. \A z \in m.locked : Prerequisites(m, z, "load") \subseteq m.loaded
  BY <1>2 DEF Loading
<1> QED BY <1>1, <1>4, <1>5 DEF Loading

\* The marker is the last service to be loaded.
LEMMA MarkerRest ==
    ASSUME NEW l \in States, NEW m, Loading(l, l.inProcess), Loading(m, l.inProcess),
           l.inProcess \in LoadTasks, NEW s \in l.locked,
           s \in {"Last", "AmtEnableLast", "WaitingForPfwLast"},
           m.loaded = l.loaded \cup {s}, m.toLoad = l.toLoad, Base \subseteq m.toLoad
    PROVE  Rest(m) /\ l.inProcess # On
<1> DEFINE t == l.inProcess
<1>1. t \in {Begin, Change("AMT", TRUE), Change("PFW", TRUE), On}
  BY DEF LoadTasks
<1>2. /\ s \in Scope(t) /\ l.toLoad \subseteq Service
      /\ Prerequisites(l, s, "load") \subseteq l.loaded
      /\ Prerequisites(l, s, "load") = {z \in l.toLoad : Before(z, s)}
  BY LoadPrerequisites, StateSets DEF Loading
<1>3. /\ m.loaded \subseteq m.toLoad /\ m.waiting["unload"] = {}
      /\ m.locked \cup m.waiting["load"] \subseteq (m.toLoad \ m.loaded) \cap Scope(t)
      /\ "HostChanges" \notin m.waiting["load"]
      /\ m.toLoad \ m.loaded \subseteq Scope(t) \cup Extra
      /\ ("HostChanges" \in m.locked => "EventManager" \notin m.loaded)
  BY DEF Loading
<1> HIDE DEF t
<1>4. t # On
  BY <1>2, Scopes
<1>5. CASE s = "Last"
  <2>1. \A z \in Service \ {"Last", "HostChanges"} : Before(z, "Last")
    BY MountFacts
  <2>2. m.toLoad \ m.loaded \subseteq {"HostChanges"}
    BY <1>2, <1>5, <2>1
  <2>3. "EventManager" \in m.loaded
    BY <2>2 DEF Base
  <2>4. m.locked = {} /\ m.waiting["load"] = {}
    BY <1>3, <2>2, <2>3
  <2> QED BY <1>3, <1>4, <2>2, <2>4 DEF Rest, Quiet, Extra, t
<1>6. CASE s \in {"AmtEnableLast", "WaitingForPfwLast"}
  <2>1. \A z \in Service : z \notin {"AmtEnableLast", "WaitingForPfwLast", "HostChanges", "Last"}
           => Before(z, s)
    BY <1>6, MountFacts
  <2>2. l.toLoad \ l.loaded
           \subseteq {"AmtEnableLast", "WaitingForPfwLast", "HostChanges", "Last"}
    BY <1>2, <2>1
  <2>3. t = Change("AMT", TRUE) \/ t = Change("PFW", TRUE)
    BY <1>1, <1>2, <1>4, <1>6, Scopes
  <2>4. Scope(t) \cap {"AmtEnableLast", "WaitingForPfwLast", "HostChanges", "Last"} = {s}
    BY <1>2, <1>6, <2>3, Scopes
  <2>5. m.toLoad \ m.loaded \subseteq {"HostChanges"} /\ "HostChanges" \notin Scope(t)
    BY <1>3, <1>6, <2>2, <2>4 DEF Extra
  <2>6. m.locked = {} /\ m.waiting["load"] = {}
    BY <1>3, <2>5
  <2> QED BY <1>3, <1>4, <2>5, <2>6 DEF Rest, Quiet, Extra, t
<1> QED BY <1>5, <1>6

\* While a task loads, fewer services may wait.
LEMMA WokenFields ==
    ASSUME NEW m, Midst(m), NEW t, Loading(m, t), NEW n \in States,
           n.waiting["load"] \subseteq m.waiting["load"], n.waiting["unload"]
              = m.waiting["unload"],
           n.waiting["suspend"] = m.waiting["suspend"],
           n.waiting["resume"] = m.waiting["resume"],
           n.loaded = m.loaded, n.active = m.active, n.locked = m.locked,
           n.toLoad = m.toLoad, n.waitPfw = m.waitPfw,
           n.inProcess = m.inProcess, n.onToggle = m.onToggle,
           n.toggled = m.toggled, n.nextTasks = m.nextTasks,
           n.needToStop = m.needToStop, n.asleep = m.asleep, n.ended = m.ended,
           n.repository = m.repository, n.handlers = m.handlers, n.queue = m.queue,
           n.deferred = m.deferred, n.scanTimer = m.scanTimer
    PROVE  Midst(n) /\ Loading(n, t)
<1>1. Calm(m) /\ Wire(m)
  BY DEF Midst
<1>2. Calm(n)
  BY <1>1 DEF Calm
<1>3. Wire(n)
  BY <1>1, WireFrame
<1>4. Midst(n)
  BY <1>2, <1>3 DEF Midst, Ended, Wanted
<1>5. \A s, op : Prerequisites(n, s, op) = Prerequisites(m, s, op)
  BY PrerequisitesAlike
<1>6. Loading(n, t)
  BY <1>5 DEF Loading
<1> QED BY <1>4, <1>6

\* Those that no longer wait may be loaded.
LEMMA WokenGood ==
    ASSUME NEW m, Midst(m), NEW t, Loading(m, t), Base \subseteq m.toLoad,
           NEW R, R \subseteq m.waiting["load"], NEW n, n = Woken(m, "load", R)
    PROVE  /\ Midst(n) /\ Good(n, t) /\ n.scanTimer = m.scanTimer /\ n.inProcess = m.inProcess
           /\ n.onToggle = m.onToggle
           /\ R \subseteq (n.toLoad \cap Scope(t)) \ {"HostChanges"}
           /\ R \cap (n.loaded \cup n.locked \cup n.waiting["load"]) = {}
           /\ \A s \in R : ReadyToOperation(m, s, "load") => ReadyToOperation(n, s, "load")
<1>1. /\ m \in States
      /\ "unload" \in Op /\ "load" \in Op /\ "suspend" \in Op /\ "resume" \in Op
  BY DEF Midst, Op
<1>2. /\ n \in States /\ n.waiting["load"] = m.waiting["load"] \ R
      /\ \A o \in Op : o # "load" => n.waiting[o] = m.waiting[o]
      /\ n.loaded = m.loaded /\ n.active = m.active /\ n.locked = m.locked
      /\ n.toLoad = m.toLoad /\ n.waitPfw = m.waitPfw
      /\ n.inProcess = m.inProcess /\ n.onToggle = m.onToggle
      /\ n.toggled = m.toggled /\ n.nextTasks = m.nextTasks
      /\ n.needToStop = m.needToStop /\ n.asleep = m.asleep /\ n.ended = m.ended
      /\ n.repository = m.repository /\ n.handlers = m.handlers /\ n.queue = m.queue
      /\ n.deferred = m.deferred /\ n.scanTimer = m.scanTimer
  BY <1>1, WaitFields
<1>3. /\ n.waiting["unload"] = m.waiting["unload"]
      /\ n.waiting["suspend"] = m.waiting["suspend"]
      /\ n.waiting["resume"] = m.waiting["resume"]
      /\ n.waiting["load"] \subseteq m.waiting["load"]
  BY <1>1, <1>2
<1>4. Midst(n) /\ Loading(n, t)
  BY <1>2, <1>3, WokenFields
<1>5. Good(n, t)
  BY <1>2, <1>4 DEF Good, Midst
<1>6. \A s \in R : ReadyToOperation(m, s, "load") => ReadyToOperation(n, s, "load")
  <2>1. \A s, op : Prerequisites(n, s, op) = Prerequisites(m, s, op)
    BY <1>2, PrerequisitesAlike
  <2>2. \A s : ReadyToOperation(m, s, "load") <=> Prerequisites(m, s, "load") \subseteq m.loaded
    BY <1>1, LoadPrerequisites
  <2>3. \A s : ReadyToOperation(n, s, "load") <=> Prerequisites(n, s, "load") \subseteq n.loaded
    BY <1>2, LoadPrerequisites
  <2> QED BY <1>2, <2>1, <2>2, <2>3
<1>7. /\ m.waiting["load"] \subseteq (m.toLoad \ m.loaded) \cap Scope(t)
      /\ m.locked \cap m.waiting["load"] = {} /\ "HostChanges" \notin m.waiting["load"]
  BY DEF Loading
<1> QED BY <1>2, <1>4, <1>5, <1>6, <1>7

\* The services that waited for the loaded one are loaded next.
LEMMA WaitersLoad ==
    ASSUME NEW m, Midst(m), ~m.scanTimer,
           NEW t, t = m.inProcess, t \in LoadTasks, Loading(m, t),
           Base \subseteq m.toLoad, NEW w \in Worlds, w.bad = {},
           NEW R, R = RefreshOnOperation(m, "load"), R # {}
    PROVE  ~m.onToggle /\ Sane(ExecuteOrComplete(Woken(m, "load", R), w, InOrder(R), "load"))
<1>1. /\ R \subseteq m.waiting["load"] /\ \A s \in R : ReadyToOperation(m, s, "load")
      /\ m.waiting["load"] \in SUBSET Service
  BY StateSets DEF RefreshOnOperation, Midst, Op
<1>2. t # On /\ ~m.onToggle
  BY <1>1, TasksDiffer DEF Loading, Midst
<1> DEFINE n == Woken(m, "load", R)
           r == Execute(n, w, InOrder(R), "load")
<1>3. R \in SUBSET Service /\ n = Woken(m, "load", R)
  BY <1>1
<1>4. ExecuteOrComplete(Woken(m, "load", R), w, InOrder(R), "load")
         = CompletedUnless(r.ret = "SUCCESS", r.l)
  BY DEF ExecuteOrComplete
<1>5. r = Execute(n, w, InOrder(R), "load")
  OBVIOUS
<1> HIDE DEF n, r
<1>6. /\ Midst(n) /\ Good(n, t) /\ n.scanTimer = m.scanTimer /\ n.inProcess = m.inProcess
      /\ n.onToggle = m.onToggle
      /\ R \subseteq (n.toLoad \cap Scope(t)) \ {"HostChanges"}
      /\ R \cap (n.loaded \cup n.locked \cup n.waiting["load"]) = {}
      /\ \A s \in R : ReadyToOperation(m, s, "load") => ReadyToOperation(n, s, "load")
  BY <1>1, <1>3, WokenGood
<1>7. ~n.onToggle /\ \A s \in R : ReadyToOperation(n, s, "load")
  BY <1>1, <1>2, <1>6
<1>8. r \in Batches /\ Under(n, t, r) /\ r.ret = "SUCCESS"
  BY <1>2, <1>3, <1>5, <1>6, <1>7, RefreshBatch
<1>9. /\ Midst(r.l) /\ Loading(r.l, t) /\ r.l.scanTimer = n.scanTimer
      /\ r.l.inProcess = n.inProcess
  BY <1>6, <1>8, MidstBatch
<1>10. Sane(r.l)
  BY <1>6, <1>9, MidstLoading
<1> QED BY <1>2, <1>4, <1>8, <1>10 DEF CompletedUnless

\* The status of a load.
LEMMA LoadStatusSane ==
    ASSUME NEW l, Sane(l), NEW k, Took(l, k, CONF), NEW s \in Service,
           Head(l.queue[CONF]) = Status(s, "load"), NEW w \in Worlds, w.bad = {}
    PROVE  Sane(ChangeServiceState(k, w, s, "load"))
<1> DEFINE m == NoteLoaded(k, s)
           marker == {"Last", "AmtEnableLast", "WaitingForPfwLast"}
           R == RefreshOnOperation(m, "load")
           c == ContinueOrComplete(m, w, "load", s, marker)
           t == l.inProcess
<1>0. l.queue[CONF] # <<>> /\ Head(l.queue[CONF]) \in Notices
  BY NoticeMessages, NoticeTypes DEF Took
<1>1. l \in States /\ CONF \in Components
  BY Services DEF Sane
<1>2. k.onToggle = l.onToggle
  BY <1>1, TookFields
<1>3. ServiceChanged(k, w, s, "load") = c
  BY DEF ServiceChanged, NoteLoaded
<1>4. ChangeServiceState(k, w, s, "load") = IF ~l.onToggle THEN c ELSE TaskCompleted(c)
  BY <1>2, <1>3 DEF ChangeServiceState, CompletedUnless
<1>5. m = NoteLoaded(k, s)
  OBVIOUS
<1> HIDE DEF m, R, c
<1>6. /\ Noted(l, m) /\ s \in l.locked /\ s \notin l.loaded
      /\ m.loaded = l.loaded \cup {s} /\ m.locked = l.locked \ {s}
      /\ m.toLoad = l.toLoad /\ m.ended = l.ended
  BY <1>5, LoadNoted
<1>7. ~l.needToStop
  BY <1>6 DEF Sane, Tasking, Closing
<1>8. Midst(m) /\ ~l.scanTimer /\ l.toLoad # {} /\ t \in LoadTasks /\ Loading(l, t)
  BY <1>0, <1>6, <1>7, MidstNoted
<1>9. m.inProcess = t /\ m.onToggle = l.onToggle /\ m.scanTimer = l.scanTimer
  BY <1>6 DEF Noted
<1>10. Base \subseteq m.toLoad
  BY <1>6, <1>8 DEF Midst
<1>11. Loading(m, t)
  BY <1>0, <1>6, <1>8, LoadedLoading
<1>12. R = RefreshOnOperation(m, "load")
  BY DEF R
<1>13. CASE R # {}
  <2>1. c = ExecuteOrComplete(Woken(m, "load", R), w, InOrder(R), "load")
    BY <1>13 DEF c, ContinueOrComplete, R, Woken
  <2> HIDE DEF t
  <2>2. ~m.onToggle /\ Sane(ExecuteOrComplete(Woken(m, "load", R), w, InOrder(R), "load"))
    BY <1>8, <1>9, <1>10, <1>11, <1>12, <1>13, WaitersLoad
  <2> QED BY <1>4, <1>9, <2>1, <2>2
<1>14. CASE R = {} /\ s \in marker
  <2>1. c = TaskCompleted(m)
    BY <1>14 DEF c, ContinueOrComplete, R
  <2>2. Rest(m) /\ t # On
    BY <1>1, <1>6, <1>8, <1>10, <1>11, <1>14, MarkerRest
  <2>3. ~l.onToggle
    BY <1>8, <1>9, <2>2, TasksDiffer DEF Midst
  <2>4. Sane(TaskCompleted(m))
    BY <1>8, <1>9, <2>2, MidstDone
  <2> QED BY <1>4, <2>1, <2>3, <2>4
<1>15. CASE R = {} /\ s \notin marker
  <2>1. c = m
    BY <1>15 DEF c, ContinueOrComplete, R
  <2>2. Sane(m)
    BY <1>8, <1>9, <1>11, MidstLoading
  <2>3. CASE l.onToggle
    <3>1. t = On
      BY <1>8, <1>9, <2>3, TasksDiffer DEF Midst
    <3>2. Scope(t) = {"TimeSync"}
      BY <3>1, Scopes
    <3>3. l.locked = {s}
      BY <1>6, <1>8, <3>2 DEF Loading
    <3>4. m.locked = {} /\ m.waiting["load"] = {}
      BY <1>6, <1>11, <3>1, <3>3 DEF Loading
    <3>5. Rest(m)
      BY <1>11, <3>2, <3>4 DEF Rest, Quiet, Loading, Extra
    <3>6. Sane(TaskCompleted(m))
      BY <1>8, <1>9, <3>5, MidstDone
    <3> QED BY <1>4, <2>1, <2>3, <3>6
  <2>4. CASE ~l.onToggle
    BY <1>4, <2>1, <2>2, <2>4
  <2> QED BY <2>3, <2>4
<1> QED BY <1>13, <1>14, <1>15

-----------------------------------------------------------------------------
(* The next task                                                           *)

\* Nothing is done, and the next task may start.
Idle(l) ==
    /\ l \in States /\ Calm(l) /\ Wire(l) /\ ~l.needToStop /\ ~l.ended
    /\ l.toLoad = {} \/ Base \subseteq l.toLoad
    /\ l.inProcess = None /\ ~Ended(l) /\ Begin \notin Items(l.queue[CONF])
    /\ Rest(l) /\ ~l.onToggle /\ l.toggled = None /\ ~l.scanTimer /\ Wanted(l)

\* If no task waits, the Configurator may return to the reactor.
LEMMA IdleSane ==
    ASSUME NEW l, Idle(l), l.nextTasks = <<>>
    PROVE  Sane(l)
<1>0. None \notin LoadTasks \cup {Off}
  <2>1. LoadTasks \cup {Off} \subseteq Tasks
    <3>1. \A c \in {"ME", "AMT", "TIME_SYNC", "PFW"}, v \in BOOLEAN : Change(c, v) \in ChangeTasks
      BY DEF ChangeTasks
    <3>2. Begin \in SimpleTasks
      BY TaskMessages DEF Begin
    <3> QED BY <3>1, <3>2 DEF LoadTasks, On, Off, Tasks
  <2> QED BY <2>1, ConfiguratorConstants
<1>1. Once(l.queue[CONF], {Completed})
  BY CompletedOnce DEF Idle
<1>2. l.inProcess # Task("STOP")
  BY ConfiguratorConstants, TaskMessages DEF Idle
<1>3. Open(l)
  BY <1>0, <1>1, <1>2 DEF Idle, Open
<1> QED BY <1>3 DEF Idle, Sane, Tasking, Begun

\* l with the task t in process.
Started(l, t) == [l EXCEPT !.inProcess = t]

\* A task is put in process.
LEMMA StartedFields ==
    ASSUME NEW l \in States, NEW t \in Tasks \cup {None}, NEW m, m = Started(l, t)
    PROVE  /\ m \in States /\ m.inProcess = t
           /\ m.loaded = l.loaded /\ m.active = l.active /\ m.locked = l.locked
           /\ m.toLoad = l.toLoad /\ m.waitPfw = l.waitPfw /\ m.waiting = l.waiting
           /\ m.onToggle = l.onToggle
           /\ m.toggled = l.toggled /\ m.nextTasks = l.nextTasks
           /\ m.needToStop = l.needToStop /\ m.asleep = l.asleep /\ m.ended = l.ended
           /\ m.repository = l.repository /\ m.handlers = l.handlers /\ m.queue = l.queue
           /\ m.deferred = l.deferred /\ m.scanTimer = l.scanTimer
<1>1. m = [l EXCEPT !.inProcess = t]
  BY DEF Started
<1> QED BY <1>1, ZenonT(30) DEF States, Lms

\* The next task is started.
LEMMA IdleStarts ==
    ASSUME NEW l, Idle(l), NEW t \in CalmTasks \cup {Begin},
           t \in Wants => l.toLoad # {}, t = Begin => l.toLoad = {},
           NEW w \in Worlds, w.bad = {}
    PROVE  Sane(StartTask([l EXCEPT !.inProcess = t], w, t))
<1> DEFINE m == Started(l, t)
           d == [m EXCEPT !.deferred = FALSE]
<1>0. StartTask([l EXCEPT !.inProcess = t], w, t) = StartTask(m, w, t)
  BY DEF Started
<1>1. l \in States /\ m = Started(l, t) /\ t \in Tasks /\ None \notin Tasks
  BY CalmMessages, TaskMessages, ConfiguratorConstants DEF Idle, Begin
<1> HIDE DEF m
<1>2. /\ m \in States /\ m.inProcess = t
      /\ m.loaded = l.loaded /\ m.active = l.active /\ m.locked = l.locked
      /\ m.toLoad = l.toLoad /\ m.waitPfw = l.waitPfw /\ m.waiting = l.waiting
      /\ m.onToggle = l.onToggle
      /\ m.toggled = l.toggled /\ m.nextTasks = l.nextTasks
      /\ m.needToStop = l.needToStop /\ m.asleep = l.asleep /\ m.ended = l.ended
      /\ m.repository = l.repository /\ m.handlers = l.handlers /\ m.queue = l.queue
      /\ m.deferred = l.deferred /\ m.scanTimer = l.scanTimer
  BY <1>1, StartedFields
<1>3. Calm(l) /\ Wire(l)
  BY DEF Idle
<1>4. Calm(m)
  BY <1>2, <1>3 DEF Calm, Begin
<1>5. Wire(m)
  BY <1>2, <1>3, WireFrame
<1>6. Rest(m) /\ ~m.onToggle /\ ~m.scanTimer /\ m.toggled = None
  BY <1>2 DEF Idle, Rest, Quiet
<1>7. CASE t # Task("STOP")
  <2>1. Wanted(m)
    BY <1>2 DEF Idle, Wanted
  <2>2. Midst(m)
    BY <1>1, <1>2, <1>4, <1>5, <1>6, <1>7, <2>1 DEF Idle, Midst, Ended
  <2>3. t = Begin => m.toLoad = {}
    BY <1>2
  <2> QED BY <1>0, <1>2, <1>6, <2>2, <2>3, StartTaskSane
<1>8. CASE t = Task("STOP")
  <2>1. d = m
    BY <1>2, <1>4 DEF Calm, States, Lms
  <2>2. StartTask(m, w, t) = StopAllServices(d, w, TRUE)
    BY <1>8, StartTypes DEF StartTask, d
  <2> HIDE DEF d
  <2>3. /\ ~m.ended /\ Begin \notin Items(m.queue[CONF])
    BY <1>2 DEF Idle
  <2>4. Shut(StopAllServices(m, w, TRUE))
    BY <1>2, <1>4, <1>5, <1>6, <2>3, StopAllShut
  <2> QED BY <1>0, <2>1, <2>2, <2>4, ShutSane
<1> QED BY <1>7, <1>8

\* A message that is no notice is taken.
LEMMA TookTask ==
    ASSUME NEW l, Sane(l), NEW k, Took(l, k, CONF), Head(l.queue[CONF]) \notin Notices
    PROVE  /\ SameTask(l, k) /\ k \in States /\ Calm(k) /\ Wire(k)
           /\ k.queue[CONF] = Tail(l.queue[CONF]) /\ k.repository = l.repository
           /\ l.queue[CONF] \in Seq(Messages) /\ l.queue[CONF] # <<>>
           /\ Items(l.queue[CONF]) = Items(k.queue[CONF]) \cup {Head(l.queue[CONF])}
           /\ \A U : Once(l.queue[CONF], U) =>
                 Once(k.queue[CONF], U)
                 /\ (Head(l.queue[CONF]) \in U => Head(l.queue[CONF]) \notin Items(k.queue[CONF]))
<1>1. l \in States /\ CONF \in Components /\ Calm(l) /\ Wire(l)
  BY Services DEF Sane
<1>2. k \in States /\ SameTask(l, k) /\ k.repository = l.repository /\ k.handlers = l.handlers
      /\ k.queue = Take(l.queue, CONF)
  BY <1>1, TookFields DEF SameTask
<1> DEFINE Q == l.queue
           P == Take(Q, CONF)
<1>3. Q \in Queues /\ Q[CONF] # <<>> /\ Letters(Q) /\ Head(Q[CONF]) \notin Notices
  BY <1>1, StateQueues DEF Took, Wire
<1>4. k.queue = P /\ P = Take(Q, CONF) /\ Q = l.queue
  BY <1>2
<1> HIDE DEF Q, P
<1>5. /\ P[CONF] = Tail(Q[CONF])
      /\ Items(Q[CONF]) = Items(P[CONF]) \cup {Head(Q[CONF])}
      /\ \A U : Once(Q[CONF], U) =>
            Once(P[CONF], U) /\ (Head(Q[CONF]) \in U => Head(Q[CONF]) \notin Items(P[CONF]))
  <2> HIDE <1>4
  <2>1. LET R == Take(Q, CONF) IN
        /\ R[CONF] = Tail(Q[CONF])
        /\ Items(Q[CONF]) = Items(R[CONF]) \cup {Head(Q[CONF])}
        /\ \A U : Once(Q[CONF], U) =>
              Once(R[CONF], U) /\ (Head(Q[CONF]) \in U => Head(Q[CONF]) \notin Items(R[CONF]))
    BY <1>1, <1>3, TakeItems
  <2> QED BY <1>4, <2>1
<1>6. Letters(P)
  BY <1>1, <1>3, <1>4, LettersTake
<1>7. \A e \in Components : Once(Q[e], Notices)
  BY <1>3 DEF Letters
<1>8. \A s \in Service : UnderWay(P, s) = UnderWay(Q, s)
  BY <1>1, <1>3, <1>4, <1>7, TakeOther
<1>9. \A s \in Service : Talk(k, s)
  BY <1>1, <1>2, <1>4, <1>8 DEF Wire, Talk, SameTask
<1>10. Depend(k)
  BY <1>1, <1>2 DEF Wire, Depend, SameTask
<1>11. Wire(k)
  BY <1>4, <1>6, <1>9, <1>10 DEF Wire
<1>12. Calm(k)
  BY <1>1, <1>2, CalmSame
<1>13. Q[CONF] \in Seq(Messages)
  BY <1>1, <1>3 DEF Queues
<1> QED BY <1>2, <1>3, <1>4, <1>5, <1>11, <1>12, <1>13

\* A task that was taken leaves Loading alone.
LEMMA LoadingTook ==
    ASSUME NEW l, Sane(l), NEW k, SameTask(l, k), l.queue[CONF] \in Seq(Messages),
           l.queue[CONF] # <<>>, k.queue[CONF] = Tail(l.queue[CONF]), NEW t, Loading(l, t)
    PROVE  Loading(k, t)
<1>1. \A s, op : Prerequisites(k, s, op) = Prerequisites(l, s, op)
  BY PrerequisitesAlike DEF SameTask
<1>2. "HostChanges" \in k.locked =>
          /\ "EventManager" \notin k.loaded
          /\ Precedes(k.queue[CONF], Status("HostChanges", "load"), Status("EventManager", "load"))
  BY PrecedesTail DEF Loading, SameTask
<1> QED BY <1>1, <1>2 DEF Loading, SameTask

\* The state when the task in process has ended.
EndOf(k) ==
    [k EXCEPT !.toggled = IF k.onToggle THEN None ELSE @,
              !.onToggle = FALSE, !.inProcess = None]

\* TaskCompleted: no task is in process.
LEMMA EndFields ==
    ASSUME NEW k \in States, NEW m, m = EndOf(k)
    PROVE  /\ m \in States /\ m.inProcess = None /\ m.onToggle = FALSE
           /\ m.toggled = IF k.onToggle THEN None ELSE k.toggled
           /\ m.loaded = k.loaded /\ m.active = k.active /\ m.locked = k.locked
           /\ m.toLoad = k.toLoad /\ m.waitPfw = k.waitPfw /\ m.waiting = k.waiting
           /\ m.nextTasks = k.nextTasks
           /\ m.needToStop = k.needToStop /\ m.asleep = k.asleep /\ m.ended = k.ended
           /\ m.repository = k.repository /\ m.handlers = k.handlers /\ m.queue = k.queue
           /\ m.deferred = k.deferred /\ m.scanTimer = k.scanTimer
<1> DEFINE g == IF k.onToggle THEN None ELSE k.toggled
<1>1. g \in Service \cup {None}
  BY DEF States, Lms
<1>2. m = [k EXCEPT !.toggled = g, !.onToggle = FALSE, !.inProcess = None]
  BY DEF EndOf
<1>3. g = IF k.onToggle THEN None ELSE k.toggled
  OBVIOUS
<1> HIDE DEF g
<1>4. m \in States
  BY <1>1, <1>2, ZenonT(30) DEF States, Lms
<1>5. /\ m.inProcess = None /\ m.onToggle = FALSE
      /\ m.toggled = g
      /\ m.loaded = k.loaded /\ m.active = k.active /\ m.locked = k.locked
      /\ m.toLoad = k.toLoad /\ m.waitPfw = k.waitPfw /\ m.waiting = k.waiting
      /\ m.nextTasks = k.nextTasks
      /\ m.needToStop = k.needToStop /\ m.asleep = k.asleep /\ m.ended = k.ended
      /\ m.repository = k.repository /\ m.handlers = k.handlers /\ m.queue = k.queue
      /\ m.deferred = k.deferred /\ m.scanTimer = k.scanTimer
  BY <1>2 DEF States, Lms
<1> QED BY <1>3, <1>4, <1>5

\* l with other tasks in the list.
Queued(l, tasks) == [l EXCEPT !.nextTasks = tasks]

\* The tasks that wait change.
LEMMA QueuedFields ==
    ASSUME NEW l \in States, NEW tasks \in Seq(CalmTasks), NEW m, m = Queued(l, tasks)
    PROVE  /\ m \in States /\ m.nextTasks = tasks
           /\ m.loaded = l.loaded /\ m.active = l.active /\ m.locked = l.locked
           /\ m.toLoad = l.toLoad /\ m.waitPfw = l.waitPfw /\ m.waiting = l.waiting
           /\ m.inProcess = l.inProcess /\ m.onToggle = l.onToggle
           /\ m.toggled = l.toggled
           /\ m.needToStop = l.needToStop /\ m.asleep = l.asleep /\ m.ended = l.ended
           /\ m.repository = l.repository /\ m.handlers = l.handlers /\ m.queue = l.queue
           /\ m.deferred = l.deferred /\ m.scanTimer = l.scanTimer
<1>1. tasks \in Seq(Tasks)
  BY CalmMessages
<1>2. m = [l EXCEPT !.nextTasks = tasks]
  BY DEF Queued
<1>3. m \in States
  BY <1>1, <1>2, ZenonT(30) DEF States, Lms
<1> QED BY <1>2, <1>3 DEF States, Lms

\* The next task of the list starts when the stop is executed: it only ends.
LEMMA QueuedShut ==
    ASSUME NEW l, Shut(l), NEW tasks \in Seq(CalmTasks), NEW m, m = Queued(l, tasks)
    PROVE  Shut(m)
<1>1. /\ m \in States /\ m.nextTasks = tasks
      /\ m.loaded = l.loaded /\ m.active = l.active /\ m.locked = l.locked
      /\ m.toLoad = l.toLoad /\ m.waitPfw = l.waitPfw /\ m.waiting = l.waiting
      /\ m.inProcess = l.inProcess /\ m.onToggle = l.onToggle
      /\ m.toggled = l.toggled
      /\ m.needToStop = l.needToStop /\ m.asleep = l.asleep /\ m.ended = l.ended
      /\ m.repository = l.repository /\ m.handlers = l.handlers /\ m.queue = l.queue
      /\ m.deferred = l.deferred /\ m.scanTimer = l.scanTimer
  <2>1. l \in States
    BY DEF Shut
  <2> QED BY <2>1, QueuedFields
<1>2. Calm(m)
  BY <1>1 DEF Calm, Shut
<1>3. Wire(m)
  BY <1>1, WireFrame DEF Shut
<1> QED BY <1>1, <1>2, <1>3 DEF Shut, Closing

\* The first of the tasks that wait is taken out.
LEMMA QueuedIdle ==
    ASSUME NEW l, Idle(l),
           NEW tasks \in Seq(CalmTasks), Items(tasks) \subseteq Items(l.nextTasks),
           NEW m, m = Queued(l, tasks)
    PROVE  Idle(m) /\ m.toLoad = l.toLoad
<1>1. /\ m \in States /\ m.nextTasks = tasks
      /\ m.loaded = l.loaded /\ m.active = l.active /\ m.locked = l.locked
      /\ m.toLoad = l.toLoad /\ m.waitPfw = l.waitPfw /\ m.waiting = l.waiting
      /\ m.inProcess = l.inProcess /\ m.onToggle = l.onToggle
      /\ m.toggled = l.toggled
      /\ m.needToStop = l.needToStop /\ m.asleep = l.asleep /\ m.ended = l.ended
      /\ m.repository = l.repository /\ m.handlers = l.handlers /\ m.queue = l.queue
      /\ m.deferred = l.deferred /\ m.scanTimer = l.scanTimer
  BY QueuedFields DEF Idle
<1>2. Calm(m)
  BY <1>1 DEF Calm, Idle
<1>3. Wire(m)
  BY <1>1, WireFrame DEF Idle
<1>4. Wanted(m) /\ Rest(m) /\ ~Ended(m)
  BY <1>1 DEF Idle, Wanted, Rest, Quiet, Ended
<1> QED BY <1>1, <1>2, <1>3, <1>4 DEF Idle

\* The end of a task.
LEMMA TaskEndedSane ==
    ASSUME NEW l, Sane(l), NEW k, Took(l, k, CONF), Head(l.queue[CONF]) = Completed,
           NEW w \in Worlds, w.bad = {}
    PROVE  Sane(TaskEnded(k, w))
<1> DEFINE m == EndOf(k)
<1>0. Completed \notin Notices
  BY BeginNoNotice
<1>1. /\ SameTask(l, k) /\ k \in States /\ Calm(k) /\ Wire(k)
      /\ k.queue[CONF] = Tail(l.queue[CONF]) /\ k.repository = l.repository
      /\ l.queue[CONF] \in Seq(Messages) /\ l.queue[CONF] # <<>>
      /\ Items(l.queue[CONF]) = Items(k.queue[CONF]) \cup {Head(l.queue[CONF])}
      /\ \A U : Once(l.queue[CONF], U) =>
            Once(k.queue[CONF], U)
            /\ (Head(l.queue[CONF]) \in U => Head(l.queue[CONF]) \notin Items(k.queue[CONF]))
  BY <1>0, TookTask
<1>2. TaskEnded(k, w) = IF m.nextTasks = <<>> THEN m
                        ELSE ExecuteTask(Queued(m, Tail(m.nextTasks)), w, Head(m.nextTasks))
  BY DEF TaskEnded, EndOf, Queued
<1>3. m = EndOf(k)
  OBVIOUS
<1> HIDE DEF m
<1>4. /\ m \in States /\ m.inProcess = None /\ m.onToggle = FALSE
      /\ m.toggled = IF k.onToggle THEN None ELSE k.toggled
      /\ m.loaded = k.loaded /\ m.active = k.active /\ m.locked = k.locked
      /\ m.toLoad = k.toLoad /\ m.waitPfw = k.waitPfw /\ m.waiting = k.waiting
      /\ m.nextTasks = k.nextTasks
      /\ m.needToStop = k.needToStop /\ m.asleep = k.asleep /\ m.ended = k.ended
      /\ m.repository = k.repository /\ m.handlers = k.handlers /\ m.queue = k.queue
      /\ m.deferred = k.deferred /\ m.scanTimer = k.scanTimer
  <2>1. k \in States
    BY <1>1
  <2> HIDE <1>1
  <2> QED BY <1>3, <2>1, EndFields, ZenonT(30)
<1>5. Calm(m) /\ Wire(m)
  <2>1. Calm(m)
    BY <1>1, <1>4 DEF Calm
  <2> QED BY <1>1, <1>4, <2>1, WireFrame
<1>6. Begin \notin Items(l.queue[CONF]) /\ Begin # Completed
  <2>1. l.queue[CONF][1] = Completed
    BY <1>1
  <2>2. Begin # Completed
    BY DEF Begin, Task, Completed
  <2> QED BY <2>1, <2>2 DEF Sane, Tasking, Begun
<1>7. Begin \notin Items(m.queue[CONF])
  BY <1>1, <1>4, <1>6
<1>8. m.nextTasks \in Seq(CalmTasks)
  BY <1>5 DEF Calm
<1>9. m.nextTasks # <<>> => Tail(m.nextTasks) \in Seq(CalmTasks) /\ Head(m.nextTasks)
         \in CalmTasks
         /\ Items(m.nextTasks) = {Head(m.nextTasks)} \cup Items(Tail(m.nextTasks))
  BY <1>8, ItemsTail
<1> DEFINE n == Queued(m, Tail(m.nextTasks))
           t == Head(m.nextTasks)
<1>10. n = Queued(m, Tail(m.nextTasks))
  OBVIOUS
<1> HIDE DEF n
<1>11. CASE l.needToStop
  <2>1. Shut(m)
    BY <1>1, <1>4, <1>5, <1>7, <1>11 DEF Sane, Tasking, Closing, Shut, SameTask
  <2>2. CASE m.nextTasks = <<>>
    BY <1>2, <2>1, <2>2, ShutSane
  <2>3. CASE m.nextTasks # <<>>
    <3>1. Shut(n)
      BY <1>9, <1>10, <2>1, <2>3, QueuedShut
    <3>2. ExecuteTask(n, w, t) \in {n, TaskCompleted(n)}
      BY <3>1 DEF ExecuteTask, CompletedUnless, Shut
    <3>3. Sane(n) /\ Sane(TaskCompleted(n))
      BY <3>1, ShutPut, ShutSane
    <3> QED BY <1>2, <1>10, <2>3, <3>2, <3>3
  <2> QED BY <2>2, <2>3
<1>12. CASE ~l.needToStop
  <2>1. Open(l) /\ Wanted(l)
    BY <1>12 DEF Sane, Tasking
  <2>2. Ended(l) /\ ~Ended(m)
    BY <1>1, <1>4, <2>1 DEF Ended, Open
  <2>3. Rest(l) /\ ~l.scanTimer
    BY <2>1, <2>2 DEF Open
  <2>4. Rest(m) /\ ~m.scanTimer /\ ~m.onToggle /\ m.toggled = None
    BY <1>1, <1>4, <2>1, <2>3 DEF Rest, Quiet, SameTask, Open
  <2>5. None \notin Wants
    BY ConfiguratorConstants, TaskMessages DEF Wants
  <2>6. Wanted(m)
    BY <1>1, <1>4, <2>1, <2>5 DEF Wanted, SameTask
  <2>7. Idle(m)
    BY <1>1, <1>4, <1>5, <1>7, <1>12, <2>1, <2>2, <2>4, <2>6 DEF Idle, Open, SameTask
  <2>8. CASE m.nextTasks = <<>>
    BY <1>2, <2>7, <2>8, IdleSane
  <2>9. CASE m.nextTasks # <<>>
    <3>1. Idle(n) /\ n.toLoad = m.toLoad
      BY <1>9, <1>10, <2>7, <2>9, QueuedIdle
    <3>2. t \in CalmTasks /\ t # Begin /\ t \in Items(m.nextTasks)
      BY <1>9, <2>9, CalmMessages
    <3>3. t \in Wants => n.toLoad # {}
      BY <2>6, <3>1, <3>2 DEF Wanted
    <3>4. ExecuteTask(n, w, t) = StartTask([n EXCEPT !.inProcess = t], w, t)
      BY <3>1 DEF ExecuteTask, Idle
    <3> HIDE DEF t
    <3>5. Sane(StartTask([n EXCEPT !.inProcess = t], w, t))
      BY <3>1, <3>2, <3>3, IdleStarts
    <3> QED BY <1>2, <1>10, <2>9, <3>4, <3>5 DEF t
  <2> QED BY <2>8, <2>9
<1> QED BY <1>11, <1>12

\* A task that comes while another one is in process waits.
LEMMA TaskWaits ==
    ASSUME NEW l, Sane(l), ~l.needToStop, l.inProcess # None, NEW k, SameTask(l, k),
           k \in States, Calm(k), Wire(k), l.queue[CONF] \in Seq(Messages),
           l.queue[CONF] # <<>>, k.queue[CONF] = Tail(l.queue[CONF]),
           Items(l.queue[CONF]) = Items(k.queue[CONF]) \cup {Head(l.queue[CONF])},
           Once(l.queue[CONF], {Completed}) => Once(k.queue[CONF], {Completed}),
           NEW t \in CalmTasks, Head(l.queue[CONF]) = t,
           NEW tasks \in Seq(CalmTasks), Items(tasks) = Items(k.nextTasks) \cup {t},
           NEW m, m = Queued(k, tasks)
    PROVE  Sane(m)
<1>1. tasks \in Seq(CalmTasks) /\ Items(tasks) = Items(k.nextTasks) \cup {t}
  OBVIOUS
<1>2. /\ m \in States /\ m.nextTasks = tasks
      /\ m.loaded = k.loaded /\ m.active = k.active /\ m.locked = k.locked
      /\ m.toLoad = k.toLoad /\ m.waitPfw = k.waitPfw /\ m.waiting = k.waiting
      /\ m.inProcess = k.inProcess /\ m.onToggle = k.onToggle
      /\ m.toggled = k.toggled
      /\ m.needToStop = k.needToStop /\ m.asleep = k.asleep /\ m.ended = k.ended
      /\ m.repository = k.repository /\ m.handlers = k.handlers /\ m.queue = k.queue
      /\ m.deferred = k.deferred /\ m.scanTimer = k.scanTimer
  BY <1>1, QueuedFields
<1>3. Calm(m)
  BY <1>1, <1>2 DEF Calm
<1>4. Wire(m)
  BY <1>2, WireFrame
<1>5. Open(l) /\ Wanted(l)
  BY DEF Sane, Tasking
<1>6. Begin \notin Items(l.queue[CONF])
  BY DEF Sane, Tasking, Begun
<1>7. Begun(m)
  BY <1>2, <1>6 DEF Begun
<1>8. Wanted(m)
  BY <1>1, <1>2, <1>5 DEF Wanted, SameTask
<1>9. Ended(m) <=> Ended(l)
  BY <1>2, CalmMessages DEF Ended
<1>10. \A u : Loading(l, u) => Loading(m, u)
  <2>1. SUFFICES ASSUME NEW u, Loading(l, u) PROVE Loading(m, u)
    OBVIOUS
  <2>2. Loading(k, u)
    BY <2>1, LoadingTook
  <2>3. \A s, op : Prerequisites(m, s, op) = Prerequisites(k, s, op)
    BY <1>2, PrerequisitesAlike
  <2> QED BY <1>2, <2>2, <2>3 DEF Loading
<1>11. Unloading(l) => Unloading(m)
  BY <1>2 DEF Unloading, SameTask
<1>12. Rest(l) => Rest(m)
  BY <1>2 DEF Rest, Quiet, SameTask
<1>13. Once(m.queue[CONF], {Completed})
  BY <1>2, <1>5 DEF Open
<1>14. Open(m)
  BY <1>2, <1>5, <1>9, <1>10, <1>11, <1>12, <1>13 DEF Open, SameTask
<1> QED BY <1>2, <1>3, <1>4, <1>7, <1>8, <1>14 DEF Sane, Tasking, SameTask

\* A task is taken from the queue.
LEMMA ExecuteTaskSane ==
    ASSUME NEW l, Sane(l), NEW k, Took(l, k, CONF), NEW t \in CalmTasks \cup {Begin},
           Head(l.queue[CONF]) = t, NEW w \in Worlds, w.bad = {}
    PROVE  Sane(ExecuteTask(k, w, t))
<1>0. t \notin Notices /\ t # Completed
  BY CalmMessages, BeginNoNotice DEF Begin, Task, Completed
<1>1. /\ SameTask(l, k) /\ k \in States /\ Calm(k) /\ Wire(k)
      /\ k.queue[CONF] = Tail(l.queue[CONF]) /\ k.repository = l.repository
      /\ l.queue[CONF] \in Seq(Messages) /\ l.queue[CONF] # <<>>
      /\ Items(l.queue[CONF]) = Items(k.queue[CONF]) \cup {Head(l.queue[CONF])}
      /\ \A U : Once(l.queue[CONF], U) =>
            Once(k.queue[CONF], U)
            /\ (Head(l.queue[CONF]) \in U => Head(l.queue[CONF]) \notin Items(k.queue[CONF]))
  BY <1>0, TookTask
<1>2. Begin \notin Items(k.queue[CONF])
  <2>1. l.queue[CONF][1] = t
    BY <1>1
  <2>2. CASE Begin \in Items(l.queue[CONF])
    BY <1>1, <2>1, <2>2 DEF Sane, Tasking, Begun
  <2>3. CASE Begin \notin Items(l.queue[CONF])
    BY <1>1, <2>3
  <2> QED BY <2>2, <2>3
<1>3. t = Begin => l.toLoad = {} /\ l.inProcess = None /\ ~l.needToStop
  BY <1>1 DEF Sane, Tasking, Begun
<1>4. CASE l.needToStop
  <2>1. Shut(k)
    BY <1>1, <1>2, <1>4 DEF Shut, Closing, Sane, Tasking, SameTask
  <2>2. ExecuteTask(k, w, t) \in {k, TaskCompleted(k)}
    BY <2>1 DEF ExecuteTask, CompletedUnless, Shut
  <2> QED BY <2>1, <2>2, ShutPut, ShutSane
<1>5. CASE ~l.needToStop /\ l.inProcess = None
  <2>1. Open(l) /\ Wanted(l)
    BY <1>5 DEF Sane, Tasking
  <2>2. Rest(k) /\ ~Ended(k) /\ ~k.onToggle /\ k.toggled = None /\ ~k.scanTimer
    <3>1. None \notin LoadTasks \cup {Off}
      <4>1. LoadTasks \cup {Off} \subseteq CalmTasks \cup {Begin}
        <5>1. \A c \in {"ME", "AMT", "TIME_SYNC", "PFW"}, v \in BOOLEAN : Change(c, v)
                 \in ChangeTasks
          BY DEF ChangeTasks
        <5> QED BY <5>1 DEF LoadTasks, On, Off, CalmTasks
      <4>2. Begin \in Tasks
        BY TaskMessages DEF Begin
      <4> QED BY <4>1, <4>2, CalmMessages, ConfiguratorConstants
    <3>2. Rest(l) /\ ~Ended(l) /\ ~l.onToggle /\ l.toggled = None /\ ~l.scanTimer
      BY <1>5, <2>1, <3>1 DEF Open, LoadTasks
    <3> QED BY <1>1, <3>2 DEF Rest, Quiet, Ended, SameTask
  <2>3. Wanted(k)
    BY <1>1, <2>1 DEF Wanted, SameTask
  <2>4. Idle(k)
    BY <1>1, <1>2, <1>5, <2>1, <2>2, <2>3 DEF Idle, Open, SameTask
  <2>5. t \in Wants => k.toLoad # {}
    BY <1>1, <2>1 DEF Wanted, SameTask
  <2>6. t = Begin => k.toLoad = {}
    BY <1>1, <1>3 DEF SameTask
  <2>7. ExecuteTask(k, w, t) = StartTask([k EXCEPT !.inProcess = t], w, t)
    BY <2>4 DEF ExecuteTask, Idle
  <2>8. Sane(StartTask([k EXCEPT !.inProcess = t], w, t))
    BY <2>4, <2>5, <2>6, IdleStarts
  <2> QED BY <2>7, <2>8
<1>6. CASE ~l.needToStop /\ l.inProcess # None
  <2> DEFINE tasks == Append(k.nextTasks, t)
             m == Queued(k, tasks)
  <2>1. k.needToStop = l.needToStop /\ k.inProcess = l.inProcess
    BY <1>1 DEF SameTask
  <2>2. ExecuteTask(k, w, t) = m
    BY <1>6, <2>1 DEF ExecuteTask, Queued
  <2>3. t \in CalmTasks
    BY <1>3, <1>6
  <2>4. m = Queued(k, tasks)
    OBVIOUS
  <2>8. tasks \in Seq(CalmTasks) /\ Items(tasks) = Items(k.nextTasks) \cup {t}
    <3>1. k.nextTasks \in Seq(CalmTasks)
      BY <1>1 DEF Calm
    <3> QED BY <2>3, <3>1, ItemsAppend
  <2>5. Once(l.queue[CONF], {Completed}) => Once(k.queue[CONF], {Completed})
    BY <1>1
  <2>6. /\ SameTask(l, k) /\ k \in States /\ Calm(k) /\ Wire(k)
        /\ k.queue[CONF] = Tail(l.queue[CONF])
        /\ l.queue[CONF] \in Seq(Messages) /\ l.queue[CONF] # <<>>
        /\ Items(l.queue[CONF]) = Items(k.queue[CONF]) \cup {Head(l.queue[CONF])}
    BY <1>1
  <2> HIDE DEF tasks, m
  <2> HIDE <1>1
  <2>7. Sane(m)
    BY <1>6, <2>3, <2>4, <2>5, <2>6, <2>8, TaskWaits
  <2> QED BY <2>2, <2>7
<1> QED BY <1>4, <1>5, <1>6

\* What the Configurator can be told in the calm scenario.
LEMMA ConfLetters ==
    ASSUME NEW l, Sane(l), l.queue[CONF] # <<>>
    PROVE  \/ \E s \in Service : Head(l.queue[CONF]) \in {Status(s, "load"), Status(s, "unload")}
           \/ Head(l.queue[CONF]) = Completed
           \/ Head(l.queue[CONF]) \in CalmTasks \cup {Begin}
<1>1. l \in States /\ Letters(l.queue) /\ CONF \in Components
  BY Services DEF Sane, Wire
<1>2. l.queue[CONF] \in Seq(MessagesTo(CONF))
  BY <1>1 DEF States
<1>3. /\ Head(l.queue[CONF]) \in Items(l.queue[CONF])
      /\ Head(l.queue[CONF]) \in MessagesTo(CONF)
  BY <1>2 DEF Items
<1>4. Head(l.queue[CONF]) \in CalmTasks \cup Notices \cup {Completed, Begin}
  BY <1>1, <1>3 DEF Letters, Begin
<1>5. ASSUME Head(l.queue[CONF]) \in Notices
      PROVE  \E s \in Service : Head(l.queue[CONF]) \in {Status(s, "load"), Status(s, "unload")}
  <2>1. PICK s \in Service, j \in Kinds : Head(l.queue[CONF]) = Notice(s, j)
    BY <1>5 DEF Notices
  <2>2. Notice(s, j).type \in {"STATUS"} \cup {"STOP_SERVICE", "SUBSCRIBE",
                "UNSUBSCRIBE", "SUBSCRIBED", "UNSUBSCRIBED"}
    BY NoticeTypes
  <2>3. \A x \in ConfMessages : x.type \notin {"STOP_SERVICE", "SUBSCRIBE",
                "UNSUBSCRIBE", "SUBSCRIBED", "UNSUBSCRIBED"}
    <3>1. Completed.type = "TASK_COMPLETED"
      BY DEF Completed
    <3>2. \A z, op : Status(z, op).type = "STATUS"
      BY DEF Status
    <3>3. \A x \in Tasks : x.type \notin {"STOP_SERVICE", "SUBSCRIBE",
                "UNSUBSCRIBE", "SUBSCRIBED", "UNSUBSCRIBED"}
      BY TaskTypes
    <3> QED BY <3>1, <3>2, <3>3 DEF ConfMessages
  <2>4. j \in {"load", "unload"}
    <3>1. Notice(s, j).type \notin {"STOP_SERVICE", "SUBSCRIBE",
                "UNSUBSCRIBE", "SUBSCRIBED", "UNSUBSCRIBED"}
      BY <1>3, <2>1, <2>3, MessageSets
    <3> QED BY <2>1, <3>1 DEF Kinds, Notice, Task, From
  <2> QED BY <2>1, <2>4 DEF Notice
<1> QED BY <1>4, <1>5

-----------------------------------------------------------------------------
(* The Configurator's steps                                                *)

\* The messages are told apart by their types.
LEMMA StatusParts ==
    /\ \A s, op : Status(s, op).type = "STATUS" /\ Status(s, op).service
          = s /\ Status(s, op).op = op
    /\ Completed.type = "TASK_COMPLETED"
    /\ \A t \in CalmTasks \cup {Begin} : t.type \notin {"STATUS", "TASK_COMPLETED"}
<1>1. \A s, op : Status(s, op).type = "STATUS" /\ Status(s, op).service
         = s /\ Status(s, op).op = op
  BY DEF Status
<1>2. Completed.type = "TASK_COMPLETED"
  BY DEF Completed
<1>3. CalmTasks \cup {Begin} \subseteq Tasks
  BY CalmMessages, TaskMessages DEF Begin
<1>4. \A t \in Tasks : t.type \notin {"STATUS", "TASK_COMPLETED"}
  BY TaskTypes
<1> QED BY <1>1, <1>2, <1>3, <1>4

\* Every message of the Configurator keeps the invariant.
LEMMA HandleConfSane ==
    ASSUME NEW l, Sane(l), NEW k, Took(l, k, CONF), NEW w \in Worlds, w.bad = {},
           NEW x, x = Head(l.queue[CONF])
    PROVE  Sane(HandleConfMessage(k, w, x))
<1>1. l.queue[CONF] # <<>>
  BY DEF Took
<1>2. CASE \E s \in Service : x \in {Status(s, "load"), Status(s, "unload")}
  <2>1. PICK s \in Service : x \in {Status(s, "load"), Status(s, "unload")}
    BY <1>2
  <2>2. HandleConfMessage(k, w, x) = ChangeServiceState(k, w, x.service, x.op)
    BY <2>1, StatusParts DEF HandleConfMessage
  <2>3. CASE x = Status(s, "load")
    <3>1. HandleConfMessage(k, w, x) = ChangeServiceState(k, w, s, "load")
      BY <2>2, <2>3, StatusParts
    <3> QED BY <2>3, <3>1, LoadStatusSane
  <2>4. CASE x = Status(s, "unload")
    <3>1. HandleConfMessage(k, w, x) = ChangeServiceState(k, w, s, "unload")
      BY <2>2, <2>4, StatusParts
    <3> QED BY <2>4, <3>1, UnloadStatusSane
  <2> QED BY <2>1, <2>3, <2>4
<1>3. CASE x = Completed
  <2>1. HandleConfMessage(k, w, x) = TaskEnded(k, w)
    BY <1>3, StatusParts DEF HandleConfMessage
  <2> QED BY <1>3, <2>1, TaskEndedSane
<1>4. CASE x \in CalmTasks \cup {Begin}
  <2>1. HandleConfMessage(k, w, x) = ExecuteTask(k, w, x)
    BY <1>4, StatusParts DEF HandleConfMessage
  <2> QED BY <1>4, <2>1, ExecuteTaskSane
<1> QED BY <1>1, <1>2, <1>3, <1>4, ConfLetters

\* The world of these theorems: no service fails to start, the system is never
\* suspended and the MEI device stays (the run "tasks" has these values).
\* Without it TLC finds the properties violated, or they rest on what the world
\* does.
CalmWorld == MayFail = {} /\ MaxPower = 0 /\ MaxDevice = 0

\* And every one of its steps.
LEMMA ConfiguratorStepSane ==
    ASSUME CalmWorld, Sane(lms), ConfiguratorStep
    PROVE  Sane(lms')
<1>1. lms \in States /\ CONF \in Components /\ Dispatched(CONF)
  BY Services DEF Sane, ConfiguratorStep
<1>2. PICK w \in World : Handled(CONF, HandleConfMessage(Taken(CONF), w, Head(lms.queue[CONF])))
  BY DEF ConfiguratorStep
<1>3. w \in Worlds
  BY WorldTyped
<1>4. w.bad = {}
  BY DEF World, CalmWorld
<1>5. Took(lms, Taken(CONF), CONF)
  BY <1>1, TakenTook
<1>6. Sane(HandleConfMessage(Taken(CONF), w, Head(lms.queue[CONF])))
  BY <1>3, <1>4, <1>5, HandleConfSane
<1> QED BY <1>1, <1>2, <1>6, HandledSane

\* Sane does not read the count of the scans.
LEMMA CountedSane ==
    ASSUME NEW l, Sane(l), NEW m \in States, SameTask(l, m),
           m.repository = l.repository, m.handlers = l.handlers, m.queue = l.queue
    PROVE  Sane(m)
<1>1. Calm(m)
  BY CalmSame DEF Sane
<1>2. Wire(m)
  BY WireFrame DEF Sane, SameTask
<1>3. Tasking(m)
  BY SameTaskKept DEF Sane
<1> QED BY <1>1, <1>2, <1>3 DEF Sane

\* While the timer of the scan runs the task in process is the first one.
LEMMA ScanMidst ==
    ASSUME NEW l, Sane(l), l.scanTimer
    PROVE  Midst(l) /\ l.inProcess = Begin /\ l.toLoad = {} /\ Rest(l) /\ ~l.onToggle
<1>1. ~l.needToStop
  BY DEF Sane, Tasking, Closing
<1>2. Open(l) /\ Wanted(l) /\ l \in States
  BY <1>1 DEF Sane, Tasking
<1>3. l.inProcess = Begin /\ l.toLoad = {} /\ ~Ended(l)
  BY <1>2 DEF Open
<1>4. Loading(l, Begin)
  BY <1>2, <1>3 DEF Open, LoadTasks
<1>5. Rest(l)
  BY <1>3, <1>4 DEF Loading, Rest, Quiet
<1>6. Begin # None
  BY ConfiguratorConstants, TaskMessages DEF Begin
<1>7. Begin \notin Items(l.queue[CONF])
  BY <1>3, <1>6 DEF Sane, Tasking, Begun
<1>8. ~l.onToggle
  BY <1>2, <1>3, TasksDiffer DEF Open, States, Lms
<1>9. Midst(l)
  BY <1>1, <1>2, <1>3, <1>6, <1>7, <1>8, TasksDiffer DEF Midst, Open, Sane
<1> QED BY <1>3, <1>5, <1>8, <1>9

\* The scan counter.
LEMMA CountFields ==
    ASSUME NEW l \in States, NEW n, NEW m, m = [l EXCEPT !.scans = n]
    PROVE  SameTask(l, m) /\ m.repository = l.repository /\ m.handlers = l.handlers
           /\ m.queue = l.queue
  BY DEF States, Lms, SameTask

\* handle_timeout of the scan: it scans again, or gives up and stops.
LEMMA ScanTimeoutSane ==
    ASSUME CalmWorld, Sane(lms), ScanTimeout
    PROVE  Sane(lms')
<1>1. lms \in States /\ lms.scanTimer /\ ~lms.ended
  BY DEF Sane, ScanTimeout, ScanExpires
<1>2. lms' \in States
  BY <1>1, TimeoutsSound
<1>3. Midst(lms) /\ lms.inProcess = Begin /\ lms.toLoad = {} /\ Rest(lms) /\ ~lms.onToggle
  BY <1>1, ScanMidst
<1>4. PICK w \in World :
          IF lms.scans < NumRetries
          THEN lms' = [ScanConfiguration(lms, w) EXCEPT !.scans = @ + 1]
          ELSE lms' = TaskCompleted(StopAllServices(CancelTimers(lms), w, TRUE))
  BY DEF ScanTimeout
<1>5. w \in Worlds /\ w.bad = {}
  BY WorldTyped DEF World, CalmWorld
<1>6. CASE lms.scans < NumRetries
  <2> DEFINE c == ScanConfiguration(lms, w)
             n == c.scans + 1
  <2>1. Sane(c)
    BY <1>3, <1>5, ScanSane
  <2>2. c \in States
    BY <2>1 DEF Sane
  <2>3. lms' = [c EXCEPT !.scans = n]
    BY <1>4, <1>6
  <2> HIDE DEF c, n
  <2>4. SameTask(c, lms') /\ lms'.repository = c.repository /\ lms'.handlers = c.handlers
        /\ lms'.queue = c.queue
    BY <2>2, <2>3, CountFields
  <2> QED BY <1>2, <2>1, <2>4, CountedSane
<1>7. CASE ~(lms.scans < NumRetries)
  <2> DEFINE c == CancelTimers(lms)
  <2>1. lms' = TaskCompleted(StopAllServices(c, w, TRUE))
    BY <1>4, <1>7
  <2>2. c = CancelTimers(lms) /\ lms.scans \in 0..NumRetries
    BY <1>1 DEF States, Lms
  <2> HIDE DEF c
  <2>3. c \in States /\ Alike(lms, c) /\ ~c.deferred /\ ~c.scanTimer
    BY <1>1, <2>2, TimersCancelled
  <2>4. Midst(c) /\ Rest(c)
    BY <1>3, <2>3, MidstAlike
  <2>5. ~c.onToggle /\ c.toggled = None
    BY <1>3, <2>3, <2>4 DEF Alike, Midst
  <2>6. Shut(StopAllServices(c, w, TRUE))
    BY <1>5, <2>3, <2>4, <2>5, StopAllShut DEF Midst
  <2> QED BY <2>1, <2>6, ShutPut, ShutSane
<1> QED BY <1>6, <1>7

\* The process starts in the invariant.
LEMMA InitSane ==
    ASSUME Init
    PROVE  Sane(lms)
<1>0. TypeOK
  BY InitSound
<1>1. lms \in States
  BY <1>0, TypeOKStates
<1>2. /\ lms.loaded = {} /\ lms.active = {} /\ lms.locked = {} /\ lms.toLoad = {}
      /\ lms.waitPfw = {} /\ lms.waiting = [op \in Op |-> {}]
      /\ lms.inProcess = None /\ lms.onToggle = FALSE /\ lms.toggled = None
      /\ lms.nextTasks = <<>> /\ lms.needToStop = FALSE
      /\ lms.scanTimer = FALSE /\ lms.deferred = FALSE
      /\ lms.repository = [s \in Components |-> IF s = CONF THEN "active" ELSE "absent"]
      /\ lms.queue = [s \in Components |-> IF s = CONF THEN <<Task("START")>> ELSE <<>>]
      /\ lms.handlers = {} /\ lms.asleep = FALSE /\ lms.ended = FALSE
  BY DEF Init
<1>3. \A op \in {"load", "unload", "suspend", "resume"} : lms.waiting[op] = {}
  BY <1>2 DEF Op
<1>4. lms.queue[CONF] = <<Begin>> /\ lms.repository[CONF] = "active"
      /\ \A s \in Service : lms.queue[s] = <<>> /\ lms.repository[s] = "absent"
  BY <1>2, Services DEF Begin
<1>5. Items(lms.queue[CONF]) = {Begin} /\ \A s \in Service : Items(lms.queue[s]) = {}
  BY <1>4 DEF Items
<1>6. Items(lms.nextTasks) = {}
  BY <1>2 DEF Items
<1>7. Calm(lms)
  <2>1. <<>> \in Seq(CalmTasks)
    OBVIOUS
  <2>2. lms.nextTasks \in Seq(CalmTasks)
    BY <1>2, <2>1
  <2> QED BY <1>2, <1>3, <1>4, <2>2 DEF Calm
<1>8. Begin \notin Notices /\ Begin # Completed /\ Begin \notin Wants
  <2>1. Begin \notin CalmTasks /\ Wants \subseteq CalmTasks
    BY CalmMessages DEF Wants, CalmTasks
  <2>2. Begin # Completed
    BY DEF Begin, Task, Completed
  <2> QED BY <2>1, <2>2, BeginNoNotice
<1>9. \A U : \A d \in Components : Once(lms.queue[d], U)
  <2>1. DOMAIN lms.queue[CONF] = {1} /\ \A s \in Service : DOMAIN lms.queue[s] = {}
    BY <1>4
  <2>2. \A d \in Components : d = CONF \/ d \in Service
    BY DEF Components
  <2>3. \A d \in Components : \A i, j \in DOMAIN lms.queue[d] : i = j
    BY <2>1, <2>2
  <2> QED BY <2>3 DEF Once
<1>10. \A s \in Service : UnderWay(lms.queue, s) = {}
  <2>1. \A s \in Service, k \in Kinds : Notice(s, k) \notin Items(lms.queue[Box(s, k)])
    <3>1. \A s \in Service, k \in Kinds : Notice(s, k) \in Notices /\ Box(s, k)
             \in Service \cup {CONF}
      BY NoticeTypes DEF Components
    <3> QED BY <1>5, <1>8, <3>1
  <2> QED BY <2>1 DEF UnderWay
<1>11. Letters(lms.queue)
  BY <1>5, <1>9 DEF Letters, Begin
<1>12. \A s \in Service : Talk(lms, s)
  BY <1>2, <1>4, <1>10 DEF Talk, Converse
<1>13. Wire(lms)
  BY <1>2, <1>11, <1>12 DEF Wire, Depend
<1>14. Rest(lms)
  BY <1>2, <1>3 DEF Rest, Quiet
<1>15. Open(lms)
  <2>1. \A t : Loading(lms, t)
    BY <1>1, <1>14, RestTasks
  <2>2. Unloading(lms)
    BY <1>1, <1>14, RestTasks
  <2>3. None # Task("STOP")
    BY ConfiguratorConstants, TaskMessages
  <2>4. CONF \in Components
    BY Services
  <2> QED BY <1>2, <1>5, <1>8, <1>9, <1>14, <2>1, <2>2, <2>3, <2>4 DEF Open, Ended
<1>16. Wanted(lms)
  <2>1. None \notin Wants
    BY ConfiguratorConstants, TaskMessages DEF Wants
  <2> QED BY <1>2, <1>5, <1>6, <1>8, <2>1 DEF Wanted
<1>17. Begun(lms)
  BY <1>2, <1>4, <1>9, <1>14, Services DEF Begun, Rest
<1> QED BY <1>1, <1>2, <1>7, <1>13, <1>15, <1>16, <1>17 DEF Sane, Tasking

-----------------------------------------------------------------------------
(* The theorems                                                            *)

\* Every step keeps it.
LEMMA NextSane ==
    ASSUME CalmWorld, TypeOK, Sane(lms), [Next]_vars
    PROVE  Sane(lms')
<1>1. CASE ConfiguratorStep
  BY <1>1, ConfiguratorStepSane
<1>2. ASSUME NEW s \in Service, ServiceStep(s) PROVE Sane(lms')
  BY <1>2, ServiceStepSane
<1>3. CASE ScanTimeout
  BY <1>3, ScanTimeoutSane
<1>4. CASE DeferredResumeTimeout
  BY <1>4 DEF DeferredResumeTimeout, Sane, Calm
<1>5. CASE (\E t \in Changes : ReportChange(t)) \/ ReportPortForwarding \/ Stop
  BY <1>5, ReportsSane
<1>6. CASE PowerEvent \/ DeviceEvent
  <2>1. env.power \in 0..0 /\ env.device \in 0..0
    BY TypeOKStates DEF Environments, CalmWorld
  <2>2. ~(env.power < 0) /\ ~(env.device < 0)
    BY <2>1
  <2> QED BY <1>6, <2>2 DEF PowerEvent, DeviceEvent, CalmWorld
<1>7. CASE UNCHANGED vars
  BY <1>7 DEF vars
<1> QED BY <1>1, <1>2, <1>3, <1>4, <1>5, <1>6, <1>7 DEF Next, Reactor, Dispatch

\* The inductive invariant.
Inv == TypeOK /\ Sane(lms)

\* Sane is an invariant where no service fails to start and nobody suspends,
\* resumes or removes the device: the tasks run one after the other, every lock
\* has exactly one message under way, and between two tasks nothing is left of
\* the last one. The three properties below follow from it.
THEOREM CalmSane ==
    ASSUME CalmWorld
    PROVE  Spec => []Inv
<1>1. Init => Inv
  BY InitSane, InitSound DEF Inv
<1>2. TypeOK /\ Inv /\ [Next]_vars => Sane(lms')
  BY NextSane DEF Inv
<1>3. Spec => []TypeOK
  BY TypeCorrect
<1>4. Inv /\ [Next]_vars /\ TypeOK' => Inv'
  BY <1>2 DEF Inv
<1> QED BY <1>1, <1>3, <1>4, PTL DEF Spec

\* Whatever tasks come in whatever order, a service is loaded only together
\* with those it cannot do without (ReadAbsoluteDependencies): the batch
\* commands of loading, of a toggle and of the stop keep the order of mounting,
\* also where a batch is continued in the answers of other services.
THEOREM DependenciesKept ==
    ASSUME CalmWorld
    PROVE  Spec => []DependenciesLoaded
<1>1. Inv => DependenciesLoaded
  BY DEF Inv, Sane, Wire, Depend, DependenciesLoaded
<1> QED BY <1>1, CalmSane, PTL

\* A message of the conversation is an answer on its way in the words of
\* LockedIsAnswered.
LEMMA AnswerUnderWay ==
    ASSUME lms \in States, NEW s \in Service, UnderWay(lms.queue, s) # {}
    PROVE  AnswerOnItsWay(s)
<1>1. PICK k \in Kinds : Notice(s, k) \in Items(lms.queue[Box(s, k)])
  BY DEF UnderWay
<1>2. PICK i \in DOMAIN lms.queue[Box(s, k)] : Notice(s, k) = lms.queue[Box(s, k)][i]
  BY <1>1 DEF Items
<1>3. CASE k \in {"load", "unload"}
  <2>1. Box(s, k) = CONF /\ Notice(s, k).type = "STATUS" /\ Notice(s, k).service = s
    BY <1>3, NoticeMessages, StatusParts
  <2> QED BY <1>2, <2>1 DEF AnswerOnItsWay
<1>4. CASE k \in {"stop", "subscribed", "unsubscribed"}
  <2>1. Box(s, k) = s
    BY <1>4, NoticeMessages
  <2>2. lms.queue[s] # <<>>
    BY <1>2, <2>1
  <2> QED BY <2>2 DEF AnswerOnItsWay
<1>5. CASE k \in {"subscribe", "unsubscribe"}
  <2>1. /\ Box(s, k) = "EventManager"
        /\ Notice(s, k) \in {From("SUBSCRIBE", s), From("UNSUBSCRIBE", s)}
    BY <1>5, NoticeMessages
  <2>2. Notice(s, k).type \in {"SUBSCRIBE", "UNSUBSCRIBE"} /\ Notice(s, k).service = s
    BY <2>1 DEF From
  <2> QED BY <1>2, <2>1, <2>2 DEF AnswerOnItsWay
<1> QED BY <1>3, <1>4, <1>5 DEF Kinds

\* A service that was locked (LockService) has the request, the answer or the
\* event manager's part of the exchange under way, so no command skips it for
\* ever: Talk says which.
THEOREM LocksAnswered ==
    ASSUME CalmWorld
    PROVE  Spec => []LockedIsAnswered
<1>1. Inv => LockedIsAnswered
  <2> SUFFICES ASSUME Inv, NEW s \in lms.locked PROVE AnswerOnItsWay(s)
    BY DEF LockedIsAnswered
  <2>1. lms \in States /\ Wire(lms)
    BY DEF Inv, Sane
  <2>2. s \in Service
    BY <2>1, StateSets
  <2>3. Talk(lms, s)
    BY <2>1, <2>2 DEF Wire
  <2>4. UnderWay(lms.queue, s) # {}
    BY <2>3 DEF Talk, Converse
  <2> QED BY <2>1, <2>2, <2>4, AnswerUnderWay
<1> QED BY <1>1, CalmSane, PTL

\* The process ends (SetStop, in FiniAceService) only when every service was
\* removed from the repository.
THEOREM EndClean ==
    ASSUME CalmWorld
    PROVE  Spec => []EndedIsClean
<1>1. Inv => EndedIsClean
  <2> SUFFICES ASSUME Inv, lms.ended, NEW s \in Service PROVE lms.repository[s] = "absent"
    BY DEF EndedIsClean
  <2>1. lms.needToStop
    BY DEF Inv, Sane, Tasking, Open
  <2>2. lms.loaded = {} /\ lms.locked = {}
    BY <2>1 DEF Inv, Sane, Tasking, Closing
  <2>3. Talk(lms, s)
    BY DEF Inv, Sane, Wire
  <2> QED BY <2>2, <2>3 DEF Talk, Converse
<1> QED BY <1>1, CalmSane, PTL

-----------------------------------------------------------------------------
(* Lists of tasks                                                          *)

\* What is picked from a list that grows by one item.
LEMMA ListedAppend ==
    ASSUME NEW D, NEW S, NEW q \in Seq(D), NEW x \in D
    PROVE  Listed(Append(q, x), S) =
              IF x \in S THEN Append(Listed(q, S), x) ELSE Listed(q, S)
<1> DEFINE p == Append(q, x)
<1>1. PICK f \in [Nat -> Seq(S)] : Picks(f, q, S) /\ Listed(q, S) = f[Len(q)]
  BY ListedSteps
<1>2. PICK g \in [Nat -> Seq(S)] : Picks(g, p, S) /\ Listed(p, S) = g[Len(p)]
  BY ListedSteps
<1>3. Len(q) \in Nat /\ Len(p) = Len(q) + 1 /\ p[Len(q) + 1] = x
      /\ \A i \in 1..Len(q) : p[i] = q[i]
  BY AppendProperties, LenProperties
<1> HIDE DEF p
<1> DEFINE T == {n \in Nat : n <= Len(q) => g[n] = f[n]}
<1>4. 0 \in T
  BY <1>1, <1>2 DEF Picks
<1>5. ASSUME NEW n \in T PROVE n + 1 \in T
  <2> SUFFICES ASSUME n + 1 <= Len(q) PROVE g[n + 1] = f[n + 1]
    OBVIOUS
  <2>0. n \in Nat /\ n <= Len(q) /\ n + 1 \in 1..Len(q)
    BY <1>3
  <2>1. n \in Nat /\ g[n] = f[n] /\ p[n + 1] = q[n + 1]
    BY <1>3, <2>0
  <2> QED BY <1>1, <1>2, <2>1 DEF Picks
<1>6. \A n \in Nat : n \in T
  <2>1. T \subseteq Nat
    OBVIOUS
  <2> HIDE DEF T
  <2> QED BY <1>4, <1>5, <2>1, Induction
<1>7. g[Len(q)] = f[Len(q)]
  BY <1>3, <1>6
<1>8. g[Len(q) + 1] = IF x \in S THEN Append(g[Len(q)], x) ELSE g[Len(q)]
  BY <1>2, <1>3 DEF Picks
<1> QED BY <1>1, <1>2, <1>3, <1>7, <1>8 DEF p

\* Appending to the second of two lists appends to both.
Joined(a, b, y) == Append(a \o b, y) = a \o Append(b, y)

\* So it does, for lists of anything.
LEMMA ConcatAppend ==
    ASSUME NEW S, NEW a \in Seq(S), NEW b \in Seq(S), NEW y \in S
    PROVE  Joined(a, b, y)
<1> DEFINE u == Append(a \o b, y)
           v == a \o Append(b, y)
<1>1. /\ a \o b \in Seq(S) /\ Append(b, y) \in Seq(S)
      /\ Len(a \o b) = Len(a) + Len(b) /\ Len(Append(b, y)) = Len(b) + 1
      /\ Len(a) \in Nat /\ Len(b) \in Nat
  BY ConcatProperties, AppendProperties, LenProperties
<1>2. /\ u \in Seq(S) /\ v \in Seq(S)
      /\ Len(u) = Len(a) + Len(b) + 1 /\ Len(v) = Len(a) + Len(b) + 1
  BY <1>1, ConcatProperties, AppendProperties
<1>3. ASSUME NEW i \in 1..Len(u) PROVE u[i] = v[i]
  <2>0. i \in 1..(Len(a) + Len(Append(b, y)))
    BY <1>1, <1>2
  <2>1. v[i] = IF i <= Len(a) THEN a[i] ELSE Append(b, y)[i - Len(a)]
    <3> DEFINE c == Append(b, y)
    <3>1. c \in Seq(S) /\ i \in 1..(Len(a) + Len(c))
      BY <1>1, <2>0
    <3> HIDE DEF c
    <3>2. (a \o c)[i] = IF i <= Len(a) THEN a[i] ELSE c[i - Len(a)]
      BY <3>1, ConcatProperties
    <3> QED BY <3>2 DEF c
  <2>2. CASE i <= Len(a)
    <3>1. u[i] = (a \o b)[i]
      BY <1>1, <1>2, <2>2, AppendProperties
    <3>2. (a \o b)[i] = a[i]
      BY <1>1, <1>2, <2>2, ConcatProperties
    <3> QED BY <2>1, <2>2, <3>1, <3>2
  <2>3. CASE i > Len(a) /\ i <= Len(a) + Len(b)
    <3>1. u[i] = (a \o b)[i]
      BY <1>1, <1>2, <2>3, AppendProperties
    <3>2. (a \o b)[i] = b[i - Len(a)]
      BY <1>1, <1>2, <2>3, ConcatProperties
    <3>3. Append(b, y)[i - Len(a)] = b[i - Len(a)]
      BY <1>1, <1>2, <2>3, AppendProperties
    <3> QED BY <1>1, <1>2, <2>1, <2>3, <3>1, <3>2, <3>3
  <2>4. CASE i = Len(a) + Len(b) + 1
    <3>1. u[i] = y
      BY <1>1, <2>4, AppendProperties
    <3>2. i - Len(a) = Len(b) + 1 /\ ~(i <= Len(a))
      BY <1>1, <2>4
    <3> QED BY <2>1, <3>1, <3>2, AppendProperties
  <2> QED BY <1>1, <1>2, <2>2, <2>3, <2>4
<1> HIDE DEF u, v
<1>4. u = v
  BY <1>2, <1>3, SeqEqual
<1> QED BY <1>4 DEF u, v, Joined

\* What is picked from a list without its first item.
LEMMA ListedTail ==
    ASSUME NEW D, NEW S, NEW q \in Seq(D), q # <<>>
    PROVE  /\ Listed(Tail(q), S) \in Seq(S) /\ Listed(q, S) \in Seq(S)
           /\ Head(q) \in S => Listed(q, S) = <<Head(q)>> \o Listed(Tail(q), S)
           /\ Head(q) \notin S => Listed(q, S) = Listed(Tail(q), S)
<1> DEFINE p == Tail(q)
           pre == IF Head(q) \in S THEN <<Head(q)>> ELSE <<>>
<1>0. \A A \in Seq(S), B \in Seq(S), Y \in S : Joined(A, B, Y)
  BY ConcatAppend
<1>1. PICK f \in [Nat -> Seq(S)] : Picks(f, q, S) /\ Listed(q, S) = f[Len(q)]
  BY ListedSteps
<1>2. PICK g \in [Nat -> Seq(S)] : Picks(g, p, S) /\ Listed(p, S) = g[Len(p)]
  BY ListedSteps
<1>3. Len(p) \in Nat /\ Len(q) = Len(p) + 1 /\ q[1] = Head(q)
      /\ \A i \in 1..Len(p) : p[i] = q[i + 1]
  BY HeadTailProperties, LenProperties, EmptySeq
<1>4. /\ pre \in Seq(S)
      /\ Head(q) \in S => pre = <<Head(q)>>
      /\ Head(q) \notin S => pre = <<>>
  <2>1. CASE Head(q) \in S
    <3>1. ASSUME NEW x \in S PROVE <<x>> \in Seq(S)
      OBVIOUS
    <3> QED BY <2>1, <3>1
  <2>2. CASE Head(q) \notin S
    BY <2>2, EmptySeq
  <2> QED BY <2>1, <2>2
<1> HIDE DEF p, pre
<1> DEFINE join == [n \in Nat |-> pre \o g[n]]
           T == {n \in Nat : n <= Len(p) => f[n + 1] = join[n]}
<1>10. ASSUME NEW n \in Nat PROVE join[n] = pre \o g[n]
  OBVIOUS
<1>11. \A n \in Nat : n \in T <=> (n <= Len(p) => f[n + 1] = join[n])
  OBVIOUS
<1>12. T \subseteq Nat
  OBVIOUS
<1> HIDE DEF join, T
<1>5. 0 \in T
  <2>1. f[0] = <<>> /\ g[0] = <<>> /\ 0 + 1 = 1 /\ 0 \in Nat
    BY <1>1, <1>2 DEF Picks
  <2>2. f[1] = IF q[1] \in S THEN Append(<<>>, q[1]) ELSE <<>>
    BY <1>1, <2>1 DEF Picks
  <2>3. f[1] = pre
    <3>1. ASSUME NEW x \in S PROVE Append(<<>>, x) = <<x>>
      OBVIOUS
    <3> QED BY <1>3, <1>4, <2>2, <3>1
  <2>4. join[0] = pre
    BY <1>4, <1>10, <2>1, ConcatEmptySeq
  <2> QED BY <1>11, <2>1, <2>3, <2>4
<1>6. ASSUME NEW n \in T PROVE n + 1 \in T
  <2>0. n \in Nat /\ n + 1 \in Nat
    BY <1>12
  <2>00. PICK m \in Nat : m = n + 1
    BY <2>0
  <2> SUFFICES ASSUME m <= Len(p) PROVE f[m + 1] = join[m]
    BY <1>11, <2>0, <2>00
  <2>01. n <= Len(p) /\ m \in 1..Len(p)
    BY <1>3, <2>0, <2>00
  <2>1. f[m] = join[n] /\ p[m] = q[m + 1]
    BY <1>3, <1>11, <2>0, <2>00, <2>01
  <2>2. f[m + 1] = IF q[m + 1] \in S THEN Append(f[m], q[m + 1]) ELSE f[m]
    BY <1>1 DEF Picks
  <2>3. g[m] = IF p[m] \in S THEN Append(g[n], p[m]) ELSE g[n]
    BY <1>2, <2>0, <2>00 DEF Picks
  <2>5. g[n] \in Seq(S) /\ join[n] = pre \o g[n] /\ join[m] = pre \o g[m]
    BY <1>2, <1>10, <2>0
  <2>6. CASE p[m] \in S
    <3>1. f[m + 1] = Append(pre \o g[n], p[m]) /\ g[m] = Append(g[n], p[m])
      BY <2>1, <2>2, <2>3, <2>5, <2>6
    <3>2. PICK G \in Seq(S), y \in S : G = g[n] /\ y = p[m]
      BY <2>5, <2>6
    <3>3. PICK F \in Seq(S) : F = pre
      BY <1>4
    <3>4. Append(F \o G, y) = F \o Append(G, y)
      BY <1>0 DEF Joined
    <3> QED BY <2>5, <3>1, <3>2, <3>3, <3>4
  <2>7. CASE p[m] \notin S
    BY <2>1, <2>2, <2>3, <2>5, <2>7
  <2> QED BY <2>6, <2>7
<1>7. \A n \in Nat : n \in T
  BY <1>5, <1>6, <1>12, Induction
<1>8. f[Len(q)] = pre \o g[Len(p)]
  <2>1. f[Len(p) + 1] = join[Len(p)]
    <3>1. Len(p) \in Nat /\ Len(p) <= Len(p)
      BY <1>3
    <3>2. Len(p) \in T
      BY <1>7, <3>1
    <3> QED BY <1>11, <3>1, <3>2
  <2> QED BY <1>3, <1>10, <2>1
<1>9. g[Len(p)] \in Seq(S) /\ f[Len(q)] \in Seq(S)
  BY <1>1, <1>2, <1>3
<1>13. <<>> \o g[Len(p)] = g[Len(p)]
  BY <1>9, ConcatEmptySeq
<1> QED BY <1>1, <1>2, <1>4, <1>8, <1>9, <1>13 DEF p

\* What SubSeq returns, between two items of the list.
LEMMA SubSeqItems ==
    ASSUME NEW S, NEW p \in Seq(S), NEW a \in 1..(Len(p) + 1),
           NEW b \in 0..Len(p), a <= b + 1
    PROVE  /\ SubSeq(p, a, b) \in Seq(S)
           /\ Len(SubSeq(p, a, b)) = b - a + 1
           /\ \A i \in 1..(b - a + 1) : SubSeq(p, a, b)[i] = p[a + i - 1]
  BY SubSeqProperties, LenProperties

\* A list without one of its items.
LEMMA WithoutItem ==
    ASSUME NEW S, NEW p \in Seq(S), NEW r \in Seq(S), NEW n \in Nat,
           Len(p) = Len(r) + 1, n <= Len(r),
           \A i \in 1..Len(r) : r[i] = IF i <= n THEN p[i] ELSE p[i + 1]
    PROVE  /\ n + 1 \in DOMAIN p
           /\ r = SubSeq(p, 1, (n + 1) - 1) \o SubSeq(p, (n + 1) + 1, Len(p))
<1> DEFINE u == SubSeq(p, 1, n)
           v == SubSeq(p, n + 2, Len(p))
<1>0. Len(p) \in Nat /\ Len(r) \in Nat /\ DOMAIN p = 1..Len(p)
  BY LenProperties
<1>1. u \in Seq(S) /\ Len(u) = n /\ \A i \in 1..n : u[i] = p[i]
  <2>1. 1 \in 1..(Len(p) + 1) /\ n \in 0..Len(p) /\ 1 <= n + 1
    BY <1>0
  <2>2. /\ SubSeq(p, 1, n) \in Seq(S)
        /\ Len(SubSeq(p, 1, n)) = n - 1 + 1
        /\ \A i \in 1..(n - 1 + 1) : SubSeq(p, 1, n)[i] = p[1 + i - 1]
    BY <2>1, SubSeqItems
  <2> QED BY <2>2
<1>2. v \in Seq(S) /\ Len(v) = Len(r) - n /\ \A i \in 1..(Len(r) - n) : v[i] = p[n + i + 1]
  <2>1. n + 2 \in 1..(Len(p) + 1) /\ Len(p) \in 0..Len(p) /\ n + 2 <= Len(p) + 1
    BY <1>0
  <2>2. /\ SubSeq(p, n + 2, Len(p)) \in Seq(S)
        /\ Len(SubSeq(p, n + 2, Len(p))) = Len(p) - (n + 2) + 1
        /\ \A i \in 1..(Len(p) - (n + 2) + 1) : SubSeq(p, n + 2, Len(p))[i] = p[(n + 2) + i - 1]
    BY <2>1, SubSeqItems
  <2>3. Len(p) - (n + 2) + 1 = Len(r) - n
    BY <1>0
  <2>4. ASSUME NEW i \in 1..(Len(r) - n) PROVE v[i] = p[n + i + 1]
    <3>1. (n + 2) + i - 1 = n + i + 1
      OBVIOUS
    <3> QED BY <2>2, <2>3, <3>1
  <2> QED BY <2>2, <2>3, <2>4
<1> HIDE DEF u, v
<1>3. u \o v \in Seq(S) /\ Len(u \o v) = Len(r)
  BY <1>0, <1>1, <1>2, ConcatProperties
<1>4. ASSUME NEW i \in 1..Len(r) PROVE r[i] = (u \o v)[i]
  <2>1. (u \o v)[i] = IF i <= n THEN u[i] ELSE v[i - n]
    <3>1. i \in 1..(Len(u) + Len(v))
      BY <1>0, <1>1, <1>2
    <3> QED BY <1>1, <1>2, <3>1, ConcatProperties
  <2>2. CASE i <= n
    BY <1>1, <2>1, <2>2
  <2>3. CASE i > n
    <3>1. i - n \in 1..(Len(r) - n) /\ n + (i - n) + 1 = i + 1
      BY <1>0, <2>3
    <3>2. v[i - n] = p[i + 1]
      BY <1>2, <3>1
    <3> QED BY <2>1, <2>3, <3>2
  <2>4. i \in Int /\ (i <= n \/ i > n)
    BY <1>0
  <2> QED BY <2>2, <2>3, <2>4
<1>5. r = u \o v
  BY <1>3, <1>4, SeqEqual
<1>6. (n + 1) - 1 = n /\ (n + 1) + 1 = n + 2 /\ n + 1 \in 1..Len(p)
  BY <1>0
<1> QED BY <1>0, <1>5, <1>6 DEF u, v

\* The first of two lists without its head.
LEMMA ConcatTail ==
    ASSUME NEW S, NEW a \in Seq(S), NEW b \in Seq(S), a # <<>>
    PROVE  /\ a \o b # <<>> /\ Head(a \o b) = Head(a)
           /\ Tail(a \o b) = Tail(a) \o b
           /\ a \o b \in Seq(S) /\ Tail(a) \o b \in Seq(S)
<1> DEFINE p == a \o b
           t == Tail(a)
<1>1. /\ p \in Seq(S) /\ Len(p) = Len(a) + Len(b) /\ Len(a) \in Nat /\ Len(b) \in Nat
      /\ \A i \in 1..(Len(a) + Len(b)) : p[i] = IF i <= Len(a) THEN a[i] ELSE b[i - Len(a)]
  BY ConcatProperties, LenProperties
<1>2. /\ t \in Seq(S) /\ Len(t) = Len(a) - 1 /\ Len(a) > 0
      /\ \A i \in 1..Len(t) : t[i] = a[i + 1]
  BY HeadTailProperties, EmptySeq, LenProperties
<1> HIDE DEF p, t
<1>3. p # <<>> /\ Head(p) = p[1] /\ Head(a) = a[1] /\ p[1] = a[1]
  BY <1>1, <1>2, HeadTailProperties, EmptySeq
<1>4. /\ Tail(p) \in Seq(S) /\ Len(Tail(p)) = Len(p) - 1
      /\ \A i \in 1..Len(Tail(p)) : Tail(p)[i] = p[i + 1]
  BY <1>1, <1>3, HeadTailProperties
<1>5. /\ t \o b \in Seq(S) /\ Len(t \o b) = Len(t) + Len(b)
      /\ \A i \in 1..(Len(t) + Len(b)) : (t \o b)[i] = IF i <= Len(t) THEN t[i] ELSE b[i - Len(t)]
  BY <1>2, ConcatProperties
<1>6. ASSUME NEW i \in 1..Len(Tail(p)) PROVE Tail(p)[i] = (t \o b)[i]
  <2>1. /\ Tail(p)[i] = p[i + 1] /\ i + 1 \in 1..(Len(a) + Len(b))
        /\ i \in 1..(Len(t) + Len(b))
    BY <1>1, <1>2, <1>4
  <2>2. CASE i <= Len(t)
    BY <1>1, <1>2, <1>5, <2>1, <2>2
  <2>3. CASE i > Len(t)
    <3>1. i + 1 - Len(a) = i - Len(t) /\ ~(i + 1 <= Len(a))
      BY <1>1, <1>2, <2>3
    <3> QED BY <1>1, <1>5, <2>1, <2>3, <3>1
  <2> QED BY <1>2, <2>1, <2>2, <2>3
<1>7. Tail(p) = t \o b
  BY <1>1, <1>2, <1>4, <1>5, <1>6, SeqEqual, SMTT(30)
<1> QED BY <1>1, <1>3, <1>5, <1>7 DEF p, t

\* The first of two lists loses its head: one item less.
LEMMA ConcatTailDrop ==
    ASSUME NEW S, NEW a \in Seq(S), NEW b \in Seq(S), a # <<>>
    PROVE  LET p == a \o b IN
           \E i \in DOMAIN p :
              Tail(a) \o b = SubSeq(p, 1, i - 1) \o SubSeq(p, i + 1, Len(p))
<1> DEFINE p == a \o b
           r == Tail(a) \o b
<1>1. p \in Seq(S) /\ r \in Seq(S) /\ p # <<>> /\ r = Tail(p)
  BY ConcatTail
<1> HIDE DEF p, r
<1>2. Len(r) \in Nat /\ Len(p) = Len(r) + 1 /\ \A i \in 1..Len(r) : r[i] = p[i + 1]
  BY <1>1, HeadTailProperties, LenProperties
<1>3. PICK n \in Nat : n = 0
  OBVIOUS
<1>4. n <= Len(r) /\ \A i \in 1..Len(r) : r[i] = IF i <= n THEN p[i] ELSE p[i + 1]
  BY <1>2, <1>3
<1>5. n + 1 \in DOMAIN p /\ r = SubSeq(p, 1, (n + 1) - 1) \o SubSeq(p, (n + 1) + 1, Len(p))
  BY <1>1, <1>2, <1>4, WithoutItem
<1> QED BY <1>5 DEF p, r

\* The second of two lists loses its head.
LEMMA ConcatHeadDrop ==
    ASSUME NEW S, NEW a \in Seq(S), NEW b \in Seq(S), b # <<>>
    PROVE  LET p == a \o b IN
           \E i \in DOMAIN p :
              a \o Tail(b) = SubSeq(p, 1, i - 1) \o SubSeq(p, i + 1, Len(p))
<1> DEFINE p == a \o b
           t == Tail(b)
           r == a \o t
<1>1. /\ p \in Seq(S) /\ Len(p) = Len(a) + Len(b) /\ Len(a) \in Nat /\ Len(b) \in Nat
      /\ \A i \in 1..(Len(a) + Len(b)) : p[i] = IF i <= Len(a) THEN a[i] ELSE b[i - Len(a)]
  BY ConcatProperties, LenProperties
<1>2. /\ t \in Seq(S) /\ Len(t) = Len(b) - 1 /\ Len(b) > 0
      /\ \A i \in 1..Len(t) : t[i] = b[i + 1]
  BY HeadTailProperties, EmptySeq, LenProperties
<1> HIDE DEF p, t
<1>3. /\ r \in Seq(S) /\ Len(r) = Len(a) + Len(t)
      /\ \A i \in 1..(Len(a) + Len(t)) : r[i] = IF i <= Len(a) THEN a[i] ELSE t[i - Len(a)]
  BY <1>2, ConcatProperties
<1> HIDE DEF r
<1>4. ASSUME NEW i \in 1..Len(r) PROVE r[i] = IF i <= Len(a) THEN p[i] ELSE p[i + 1]
  <2>1. /\ i \in 1..(Len(a) + Len(t)) /\ i \in 1..(Len(a) + Len(b))
        /\ i + 1 \in 1..(Len(a) + Len(b))
    BY <1>1, <1>2, <1>3
  <2>2. CASE i <= Len(a)
    BY <1>1, <1>3, <2>1, <2>2
  <2>3. CASE i > Len(a)
    <3>1. /\ i - Len(a) \in 1..Len(t) /\ (i + 1) - Len(a) = (i - Len(a)) + 1
          /\ ~(i + 1 <= Len(a)) /\ ~(i <= Len(a))
      BY <1>1, <1>2, <2>1, <2>3
    <3>2. r[i] = t[i - Len(a)] /\ p[i + 1] = b[(i + 1) - Len(a)]
      BY <1>1, <1>3, <2>1, <3>1
    <3>3. t[i - Len(a)] = b[(i - Len(a)) + 1]
      BY <1>2, <3>1
    <3> QED BY <3>1, <3>2, <3>3
  <2> QED BY <1>1, <2>1, <2>2, <2>3
<1>5. /\ Len(p) = Len(r) + 1 /\ Len(a) <= Len(r) /\ p \in Seq(S) /\ r \in Seq(S)
      /\ Len(a) \in Nat
  BY <1>1, <1>2, <1>3
<1>6. /\ Len(a) + 1 \in DOMAIN p
      /\ r = SubSeq(p, 1, (Len(a) + 1) - 1) \o SubSeq(p, (Len(a) + 1) + 1, Len(p))
  BY <1>4, <1>5, WithoutItem
<1> QED BY <1>6 DEF p, r, t

\* The head of the second of two lists is moved to the end of the first.
LEMMA ConcatMove ==
    ASSUME NEW S, NEW a \in Seq(S), NEW b \in Seq(S), b # <<>>
    PROVE  Append(a, Head(b)) \o Tail(b) = a \o b
<1> DEFINE t == Tail(b)
           c == Append(a, Head(b))
<1>1. /\ a \o b \in Seq(S) /\ Len(a \o b) = Len(a) + Len(b) /\ Len(a) \in Nat
      /\ Len(b) \in Nat
      /\ \A i \in 1..(Len(a) + Len(b)) : (a \o b)[i] = IF i <= Len(a) THEN a[i] ELSE b[i - Len(a)]
  BY ConcatProperties, LenProperties
<1>2. /\ t \in Seq(S) /\ Len(t) = Len(b) - 1 /\ Len(b) > 0 /\ Head(b) \in S
      /\ Head(b) = b[1]
      /\ \A i \in 1..Len(t) : t[i] = b[i + 1]
  BY HeadTailProperties, EmptySeq, LenProperties
<1>3. /\ c \in Seq(S) /\ Len(c) = Len(a) + 1 /\ c[Len(a) + 1] = b[1]
      /\ \A i \in 1..Len(a) : c[i] = a[i]
  BY <1>2, AppendProperties
<1> HIDE DEF t, c
<1>4. /\ c \o t \in Seq(S) /\ Len(c \o t) = Len(c) + Len(t)
      /\ \A i \in 1..(Len(c) + Len(t)) : (c \o t)[i] = IF i <= Len(c) THEN c[i] ELSE t[i - Len(c)]
  BY <1>2, <1>3, ConcatProperties
<1>5. Len(c \o t) = Len(a \o b)
  BY <1>1, <1>2, <1>3, <1>4
<1>6. ASSUME NEW i \in 1..Len(c \o t) PROVE (c \o t)[i] = (a \o b)[i]
  <2>1. i \in 1..(Len(c) + Len(t)) /\ i \in 1..(Len(a) + Len(b))
    BY <1>1, <1>4, <1>5
  <2>2. CASE i <= Len(a)
    BY <1>1, <1>3, <1>4, <2>1, <2>2
  <2>3. CASE i = Len(a) + 1
    <3>1. (c \o t)[i] = c[i] /\ (a \o b)[i] = b[i - Len(a)] /\ i - Len(a) = 1
      BY <1>1, <1>3, <1>4, <2>1, <2>3
    <3> QED BY <1>3, <2>3, <3>1
  <2>4. CASE i > Len(a) + 1
    <3>1. /\ i - Len(c) \in 1..Len(t) /\ (i - Len(c)) + 1 = i - Len(a) /\ ~(i <= Len(c))
          /\ ~(i <= Len(a))
      BY <1>1, <1>2, <1>3, <2>1, <2>4
    <3>2. (c \o t)[i] = t[i - Len(c)] /\ (a \o b)[i] = b[i - Len(a)]
      BY <1>1, <1>4, <2>1, <3>1
    <3>3. t[i - Len(c)] = b[(i - Len(c)) + 1]
      BY <1>2, <3>1
    <3> QED BY <3>1, <3>2, <3>3
  <2>5. i <= Len(a) \/ i = Len(a) + 1 \/ i > Len(a) + 1
    BY <1>1, <2>1
  <2> QED BY <2>2, <2>3, <2>4, <2>5
<1>7. c \o t = a \o b
  BY <1>1, <1>4, <1>5, <1>6, SeqEqual
<1> QED BY <1>7 DEF c, t

-----------------------------------------------------------------------------
(* What leaves the waiting tasks and the one in process alone              *)

\* The tasks in the Configurator's message queue.
Posted(l) == Listed(l.queue[CONF], Tasks)

\* The same tasks wait, the same task is in process, the process closes or not.
Kept(l, m) ==
    /\ m.nextTasks = l.nextTasks /\ m.inProcess = l.inProcess
    /\ m.needToStop = l.needToStop /\ Posted(m) = Posted(l)

\* Kept, step after step.
LEMMA KeptTransitive ==
    ASSUME NEW l, NEW m, NEW n, Kept(l, m), Kept(m, n)
    PROVE  Kept(l, n)
  BY DEF Kept

\* Neither a status nor the end of a task is a task.
LEMMA NoTasks ==
    /\ \A s, op : Status(s, op) \notin Tasks
    /\ Completed \notin Tasks
<1>1. \A t \in Tasks : t.type \notin {"STATUS", "TASK_COMPLETED"}
  BY TaskTypes
<1>2. Completed.type = "TASK_COMPLETED" /\ \A s, op : Status(s, op).type = "STATUS"
  BY DEF Completed, Status
<1> QED BY <1>1, <1>2

\* Messages to other services leave the tasks alone, and so do the ones to the
\* Configurator that are no tasks; a task is put behind the others.
LEMMA PutQueued ==
    ASSUME NEW l \in States, NEW dest \in Components, NEW m
    PROVE  /\ dest # CONF => Kept(l, PutQ(l, dest, m)) /\ Kept(l, SendMessage(l, dest, m))
           /\ m \in Messages /\ m \notin Tasks =>
                 Kept(l, PutQ(l, CONF, m)) /\ Kept(l, SendMessage(l, CONF, m))
           /\ m \in Messages /\ m \in Tasks =>
                 Posted(PutQ(l, CONF, m)) = Append(Posted(l), m)
<1> DEFINE p == PutQ(l, dest, m)
           c == PutQ(l, CONF, m)
<1>1. /\ Frame(l, p) /\ Frame(l, c) /\ Kept(l, l)
  BY PutQFrame DEF Kept
<1>2. dest # CONF => p.queue[CONF] = l.queue[CONF]
  BY Services DEF PutQ, States, Lms
<1>3. c.queue[CONF] = Append(l.queue[CONF], m)
  <2>1. CONF \in Components /\ l.queue = [d \in Components |-> l.queue[d]]
    BY Services DEF States, Lms
  <2>2. c.queue = [l.queue EXCEPT ![CONF] = Append(l.queue[CONF], m)]
    BY DEF PutQ, States, Lms
  <2> QED BY <2>1, <2>2
<1> HIDE DEF p, c
<1>4. m \in Messages => Posted(c) = IF m \in Tasks THEN Append(Posted(l), m) ELSE Posted(l)
  <2> SUFFICES ASSUME m \in Messages
               PROVE  Posted(c) = IF m \in Tasks THEN Append(Posted(l), m) ELSE Posted(l)
    OBVIOUS
  <2>1. PICK q \in Seq(Messages) : q = l.queue[CONF]
    BY Services, StateQueues DEF Queues
  <2>2. Listed(Append(q, m), Tasks) = IF m
           \in Tasks THEN Append(Listed(q, Tasks), m) ELSE Listed(q, Tasks)
    BY ListedAppend
  <2> QED BY <1>3, <2>1, <2>2 DEF Posted
<1>5. dest # CONF => Kept(l, p)
  BY <1>1, <1>2 DEF Kept, Frame, Posted
<1>6. m \in Messages /\ m \notin Tasks => Kept(l, c)
  BY <1>1, <1>4 DEF Kept, Frame
<1> QED BY <1>1, <1>4, <1>5, <1>6 DEF SendMessage, p, c

\* The end of a task is announced.
LEMMA CompletedKept ==
    ASSUME NEW l \in States, NEW ok
    PROVE  Kept(l, TaskCompleted(l)) /\ Kept(l, CompletedUnless(ok, l))
<1>1. Completed \in Messages /\ CONF \in Components
  BY MessageSets, Services DEF ConfMessages
<1>2. Kept(l, TaskCompleted(l))
  BY <1>1, NoTasks, PutQueued DEF TaskCompleted
<1> QED BY <1>2 DEF CompletedUnless, Kept

\* A service is removed.
LEMMA FiniKept ==
    ASSUME NEW l \in States, NEW s \in Service
    PROVE  Kept(l, FiniAceService(l, s))
<1>1. FiniAceService(l, s).queue[CONF] = l.queue[CONF]
  BY Services DEF FiniAceService, States, Lms
<1> QED BY <1>1, FiniFrame DEF Kept, Frame, Posted

\* Each of the four operations on a service.
LEMMA DoOperationKept ==
    ASSUME NEW l \in States, NEW w \in Worlds, NEW s \in Service, NEW op \in Op
    PROVE  Kept(l, DoOperation(l, w, s, op).l)
<1> DEFINE up == [l EXCEPT !.repository[s] = "active"]
<1>0. up \in States /\ Kept(l, up) /\ Kept(l, l) /\ s # CONF
  <2>1. up \in States
    BY RepositoryChange, Services
  <2>2. up.queue = l.queue /\ up.nextTasks = l.nextTasks /\ up.inProcess = l.inProcess
        /\ up.needToStop = l.needToStop
    BY DEF States, Lms
  <2> QED BY <2>1, <2>2, Services DEF Kept, Posted
<1>1. /\ \A o \in Op : Status(s, o) \in Messages
      /\ Task("STOP_SERVICE") \in Messages /\ Task("SUSPEND_SERVICE") \in Messages
      /\ CONF \in Components /\ "EventManager" \in Components /\ "EventManager" # CONF
      /\ s \in Components
  BY MessageSets, Services DEF ConfMessages, Orders
<1> HIDE DEF up
<1>2. /\ \A m : Kept(l, SendMessage(up, "EventManager", m))
      /\ Kept(l, SendMessage(up, CONF, Status(s, "load")))
      /\ Kept(l, SendMessage(up, CONF, Status(s, "resume")))
      /\ Kept(l, SendMessage(l, CONF, Status(s, "resume")))
      /\ \A m : Kept(l, SendMessage(l, s, m))
  BY <1>0, <1>1, NoTasks, PutQueued, KeptTransitive DEF Op
<1>3. Kept(l, StartInRepository(l, w, s).l)
  BY <1>0, <1>2 DEF StartInRepository, up
<1>4. Kept(l, NotLoaded(l, s)) /\ Kept(l, [NotLoaded(l, s) EXCEPT !.waitPfw = @ \cup {s}])
  BY DEF Kept, Posted, NotLoaded, States, Lms
<1>5. Kept(l, StartAceService(l, w, s).l)
  BY <1>0, <1>3, <1>4 DEF StartAceService
<1>6. Kept(l, StopAceService(l, s).l)
  BY <1>0, <1>2, FiniKept DEF StopAceService
<1>7. Kept(l, SuspendAceService(l, s).l)
  BY <1>0, <1>2 DEF SuspendAceService
<1>8. Kept(l, ResumeAceService(l, s).l)
  BY <1>0, <1>2 DEF ResumeAceService, up
<1> QED BY <1>5, <1>6, <1>7, <1>8 DEF DoOperation, Op

\* A batch command visits a service.
LEMMA VisitKept ==
    ASSUME NEW b \in Batches, b.list # <<>>, NEW w \in Worlds, NEW op \in Op
    PROVE  Kept(b.l, Visit(b, w, op).l)
<1> DEFINE l == b.l
           s == Head(b.list)
           k == [l EXCEPT !.locked = @ \cup {s}]
           r == DoOperation(k, w, s, op)
<1>1. l \in States /\ s \in Service
  BY DEF Batches
<1> HIDE DEF l, s
<1>2. k \in States /\ Kept(l, k)
  <2>1. k \in States
    BY <1>1, LockSound, StateSets
  <2> QED BY <1>1, <2>1 DEF Kept, Posted, States, Lms
<1> HIDE DEF k
<1>3. Kept(l, r.l) /\ r \in Results
  BY <1>1, <1>2, DoOperationKept, DoOperationSound, KeptTransitive
<1> HIDE DEF r
<1>4. Kept(l, [r.l EXCEPT !.locked = @ \ {s}])
  BY <1>3 DEF Kept, Posted, Results, States, Lms
<1>5. Kept(l, [l EXCEPT !.waiting[op] = @ \cup {s}]) /\ Kept(l, l)
  BY <1>1 DEF Kept, Posted, States, Lms
<1>6. /\ [b EXCEPT !.list = Tail(b.list)].l = l
      /\ \A t : [b EXCEPT !.list = Tail(b.list), !.ret = t].l = l
  BY DEF Batches, l
<1>7. Visit(b, w, op).l
         \in {l, r.l, [r.l EXCEPT !.locked = @ \ {s}], [l EXCEPT !.waiting[op] = @ \cup {s}]}
  BY <1>6 DEF Visit, l, s, r, k
<1> QED BY <1>3, <1>4, <1>5, <1>7 DEF l

\* A batch command, as a whole.
LEMMA ExecuteKept ==
    ASSUME NEW l \in States, NEW list \in Seq(Service), NEW w \in Worlds, NEW op \in Op
    PROVE  Kept(l, ExecuteOrComplete(l, w, list, op))
<1> DEFINE start == BatchOf(l, list)
           I == {b \in Batches : Kept(l, b.l)}
<1>1. start \in I
  BY DEF Batches, BatchOf, Ret, Kept
<1>2. ASSUME NEW b \in I, b.list # <<>> PROVE Visit(b, w, op) \in I
  BY <1>2, VisitKept, VisitSound, KeptTransitive
<1>3. Iteration(start, w, op) \in I
  <2> HIDE DEF start, I
  <2> QED BY <1>1, <1>2 DEF Iteration
<1>4. I \subseteq Batches
  OBVIOUS
<1>5. Execute(l, w, list, op) \in I
  <2> HIDE DEF I
  <2> QED BY <1>2, <1>3, <1>4, ExecuteRule
<1>6. Execute(l, w, list, op).l \in States /\ Kept(l, Execute(l, w, list, op).l)
  BY <1>5 DEF Batches
<1> QED BY <1>6, CompletedKept, KeptTransitive DEF ExecuteOrComplete

\* TaskQueue sees no difference.
Still(l, m) == Kept(l, m) /\ m.locked = l.locked /\ m.waiting = l.waiting

\* Still, step after step.
LEMMA StillTransitive ==
    ASSUME NEW l, NEW m, NEW n, Still(l, m), Still(m, n)
    PROVE  Still(l, n)
  BY DEF Still, Kept

\* A message that is not a task to the Configurator.
LEMMA SendStill ==
    ASSUME NEW l \in States, NEW dest \in Components, NEW m,
           dest # CONF \/ (m \in Messages /\ m \notin Tasks)
    PROVE  Still(l, SendMessage(l, dest, m))
<1>1. Kept(l, SendMessage(l, dest, m))
  BY PutQueued, Services
<1>2. /\ SendMessage(l, dest, m).locked = l.locked
      /\ SendMessage(l, dest, m).waiting = l.waiting
  BY DEF SendMessage, PutQ, States, Lms
<1> QED BY <1>1, <1>2 DEF Still

\* What the handlers write into a state before or after they send.
LEMMA WriteStill ==
    ASSUME NEW l \in States, NEW s \in Components, NEW h
    PROVE  /\ \A r : Still(l, [l EXCEPT !.repository[s] = r])
           /\ Still(l, [l EXCEPT !.handlers = h]) /\ Still(l, [l EXCEPT !.notify = h])
  BY DEF Still, Kept, Posted, States, Lms

\* A service reports.
LEMMA StatusSent ==
    ASSUME NEW l \in States, NEW s \in Service, NEW op \in Op
    PROVE  Still(l, SendMessage(l, CONF, Status(s, op)))
<1>1. Status(s, op) \in Messages /\ Status(s, op) \notin Tasks
  BY MessageSets, Services, NoTasks DEF ConfMessages
<1> QED BY <1>1, SendStill, Services

\* A service stops or is suspended.
LEMMA HandleServiceMessageStill ==
    ASSUME NEW l \in States, NEW s \in Service, NEW m \in Orders
    PROVE  Still(l, HandleServiceMessage(l, s, m))
<1> DEFINE c == [l EXCEPT !.repository[s] = "closed"]
<1>1. c \in States /\ Still(l, c)
  BY RepositoryChange, WriteStill, Services
<1> HIDE DEF c
<1>2. Still(l, SendMessage(c, CONF, Status(s, "unload")))
  BY <1>1, StatusSent, StillTransitive DEF Op
<1>3. Still(l, SendMessage(l, CONF, Status(s, "suspend")))
  BY StatusSent DEF Op
<1> QED BY <1>2, <1>3 DEF HandleServiceMessage, Orders, Task, c

\* The event manager tells a handler that it is (un)bound.
LEMMA HandleManagerMessageStill ==
    ASSUME NEW l \in States, NEW m \in ManagerMessages
    PROVE  Still(l, HandleManagerMessage(l, m))
<1>1. CASE m \in Orders
  <2>1. m.type \notin {"SUBSCRIBE", "UNSUBSCRIBE"}
    BY <1>1 DEF Orders, Task
  <2> QED BY <1>1, <2>1, HandleServiceMessageStill, Services DEF HandleManagerMessage
<1>2. CASE m \in {From(t, s) : t \in {"SUBSCRIBE", "UNSUBSCRIBE"}, s \in Handler}
  <2>1. /\ m.service \in Handler /\ m.service \in Components /\ m.service # CONF
        /\ m.type \in {"SUBSCRIBE", "UNSUBSCRIBE"}
    BY <1>2, Services DEF From
  <2>2. ASSUME NEW h \in SUBSET Handler, NEW x
        PROVE  Still(l, SendMessage([l EXCEPT !.handlers = h], m.service, x))
    <3> DEFINE c == [l EXCEPT !.handlers = h]
    <3>1. c \in States
      BY DEF States, Lms
    <3>2. Still(l, c)
      BY WriteStill, Services
    <3> HIDE DEF c
    <3>3. Still(c, SendMessage(c, m.service, x))
      BY <2>1, <3>1, SendStill
    <3>4. Still(l, SendMessage(c, m.service, x))
      BY <3>2, <3>3, StillTransitive
    <3> QED BY <3>4 DEF c
  <2>3. /\ l.handlers \cup {m.service} \in SUBSET Handler
        /\ l.handlers \ {m.service} \in SUBSET Handler
    BY <2>1 DEF States, Lms
  <2>4. /\ Still(l, SendMessage([l EXCEPT !.handlers
              = @ \cup {m.service}], m.service, Task("SUBSCRIBED")))
        /\ Still(l, SendMessage([l EXCEPT !.handlers
              = @ \ {m.service}], m.service, Task("UNSUBSCRIBED")))
    BY <2>2, <2>3
  <2>5. Still(l, l)
    BY DEF Still, Kept
  <2> QED BY <2>1, <2>4, <2>5 DEF HandleManagerMessage
<1> QED BY <1>1, <1>2 DEF ManagerMessages

\* An event handler is (un)bound, stops or is suspended.
LEMMA HandleHandlerMessageStill ==
    ASSUME NEW l \in States, NEW s \in Handler, NEW m \in HandlerMessages
    PROVE  Still(l, HandleHandlerMessage(l, s, m))
<1>1. /\ s \in Service /\ s \in Components /\ "EventManager" \in Components
      /\ "EventManager" # CONF
  BY Services
<1>2. /\ Still(l, SendMessage(l, CONF, Status(s, "load")))
      /\ Still(l, SendMessage(l, CONF, Status(s, "unload")))
      /\ Still(l, SendMessage(l, CONF, Status(s, "suspend")))
  BY <1>1, StatusSent DEF Op
<1> DEFINE c == SendMessage(l, "EventManager", From("UNSUBSCRIBE", s))
<1>3. c \in States /\ Still(l, c)
  <2>1. From("UNSUBSCRIBE", s) \in MessagesTo("EventManager")
    BY MessageSets DEF ManagerMessages
  <2> QED BY <2>1, <1>1, SendMessageSound, SendStill
<1> HIDE DEF c
<1>4. Still(l, [c EXCEPT !.repository[s] = "closed"])
  BY <1>1, <1>3, WriteStill, StillTransitive
<1>5. Still(l, l)
  BY DEF Still, Kept
<1> QED BY <1>2, <1>4, <1>5 DEF HandleHandlerMessage, HandlerMessages, Orders, Task, c

\* Notifications are skipped.
LEMMA ServedStill ==
    ASSUME NEW l \in States
    PROVE  Still(l, Served(l))
<1> DEFINE todo == {i \in DOMAIN l.notify : ShouldPass(l, l.notify[i])}
           i == CHOOSE i \in todo : \A j \in todo : i <= j
<1>1. \A n : Still(l, [l EXCEPT !.notify = n])
  BY WriteStill, Services
<1>2. \/ Served(l) = [l EXCEPT !.notify = <<>>]
      \/ Served(l) = [l EXCEPT !.notify = SubSeq(l.notify, i, Len(l.notify))]
  BY DEF Served
<1> QED BY <1>1, <1>2

\* handle_output goes on or returns.
LEMMA HandledStill ==
    ASSUME NEW l, NEW m \in States, NEW s, Handled(s, m)
    PROVE  Still(m, lms')
<1>1. Still(m, m)
  BY DEF Still, Kept
<1> QED BY <1>1, ServedStill DEF Handled

\* The steps of the services are none of TaskQueue's business.
LEMMA ServiceStepStill ==
    ASSUME lms \in States, NEW s \in Service, ServiceStep(s)
    PROVE  Still(lms, lms')
<1>1. lms.queue[s] # <<>> /\ (running = None => lms.notify # <<>>) /\ s \in Components
      /\ Dispatched(s) /\ s # CONF
  BY Services, ConfiguratorConstants DEF ServiceStep, Dispatched, ShouldPass
<1> DEFINE k == Taken(s)
           m == Head(lms.queue[s])
           l == CASE s = "EventManager" -> HandleManagerMessage(k, m)
                  [] s \in Handler -> HandleHandlerMessage(k, s, m)
                  [] OTHER -> HandleServiceMessage(k, s, m)
<1>2. k \in States /\ m \in MessagesTo(s)
  BY <1>1, TakenSound
<1>3. Handled(s, l)
  BY DEF ServiceStep
<1>4. Still(lms, k)
  <2>1. Took(lms, k, s)
    BY <1>1, TakenTook
  <2>2. k.queue[CONF] = lms.queue[CONF]
    <3>1. k.queue = Take(lms.queue, s)
      BY <1>1, <2>1, TookFields
    <3> QED BY <1>1, <3>1, Services DEF Take, States, Lms
  <2> HIDE DEF k
  <2>3. /\ k.nextTasks = lms.nextTasks /\ k.inProcess = lms.inProcess
        /\ k.needToStop = lms.needToStop /\ k.locked = lms.locked /\ k.waiting = lms.waiting
    BY <1>1, <2>1, TookFields
  <2> QED BY <2>2, <2>3 DEF Still, Kept, Posted
<1> HIDE DEF k, m
<1>5. l \in States /\ Still(k, l)
  <2>4. CASE s = "EventManager"
    <3>1. m \in ManagerMessages /\ s \notin Handler
      BY <1>2, <2>4, MessageSets DEF Handler
    <3> QED BY <1>2, <2>4, <3>1, HandleManagerMessageSound, HandleManagerMessageStill
  <2>5. CASE s \in Handler
    <3>1. m \in HandlerMessages /\ s # "EventManager"
      BY <1>2, <2>5, MessageSets DEF Handler
    <3> QED BY <1>2, <2>5, <3>1, HandleHandlerMessageSound, HandleHandlerMessageStill
  <2>6. CASE s \notin Handler \cup {"EventManager"}
    <3>1. m \in Orders
      BY <1>2, <2>6, Services DEF MessagesTo
    <3> QED BY <1>2, <2>6, <3>1, HandleServiceMessageSound, HandleServiceMessageStill
  <2> QED BY <2>4, <2>5, <2>6
<1> HIDE DEF l
<1>6. Still(l, lms')
  BY <1>3, <1>5, HandledStill
<1> QED BY <1>4, <1>5, <1>6, StillTransitive

\* Fields that are none of TaskQueue's business.
LEMMA WriteKept ==
    ASSUME NEW l \in States, NEW v
    PROVE  /\ Kept(l, [l EXCEPT !.toLoad = v]) /\ Kept(l, [l EXCEPT !.scans = v])
           /\ Kept(l, [l EXCEPT !.scanTimer = v]) /\ Kept(l, [l EXCEPT !.deferred = v])
           /\ Kept(l, [l EXCEPT !.waitPfw = v]) /\ Kept(l, [l EXCEPT !.ended = v])
           /\ Kept(l, [l EXCEPT !.pfwStarted = v]) /\ Kept(l, CancelTimers(l))
           /\ \A op : Kept(l, [l EXCEPT !.waiting[op] = v])
           /\ \A x : Kept(l, [l EXCEPT !.onToggle = TRUE, !.toLoad = v])
           /\ \A x : Kept(l, [l EXCEPT !.onToggle = TRUE, !.toggled = x, !.toLoad = v])
  BY DEF Kept, Posted, CancelTimers, States, Lms

\* StopAllServices, but for the flag it sets first.
LEMMA StopAllKept ==
    ASSUME NEW l \in States, NEW w \in Worlds, NEW b \in BOOLEAN
    PROVE  Kept([l EXCEPT !.needToStop = b], StopAllServices(l, w, b))
<1> DEFINE m == [l EXCEPT !.needToStop = b]
           n == [m EXCEPT !.ended = @ \/ b]
<1>1. m \in States
  BY DEF States, Lms
<1>2. StopAllServices(l, w, b) = IF m.loaded # {}
                                 THEN ExecuteOrComplete(m, w, InOrder(m.loaded), "unload")
                                 ELSE TaskCompleted(n)
  BY DEF StopAllServices
<1> HIDE DEF m
<1>3. Kept(m, ExecuteOrComplete(m, w, InOrder(m.loaded), "unload"))
  <2>1. InOrder(m.loaded) \in Seq(Service)
    BY <1>1, StateSets, InOrderItems
  <2> QED BY <1>1, <2>1, ExecuteKept DEF Op
<1>4. n \in States /\ Kept(m, n)
  <2> DEFINE e == m.ended \/ b
  <2>1. e \in BOOLEAN /\ n = [m EXCEPT !.ended = e]
    BY <1>1 DEF States, Lms
  <2> HIDE DEF e
  <2>2. [m EXCEPT !.ended = e] \in States
    BY <1>1, <2>1 DEF States, Lms
  <2> QED BY <1>1, <2>1, <2>2, WriteKept
<1> HIDE DEF n
<1>5. Kept(m, TaskCompleted(n))
  BY <1>4, CompletedKept, KeptTransitive
<1> QED BY <1>2, <1>3, <1>5 DEF m

\* ScanConfiguration, whatever the scan answers.
LEMMA ScanKept ==
    ASSUME NEW l \in States, NEW w \in Worlds
    PROVE  Kept(l, ScanConfiguration(l, w))
<1>1. CASE w.scan = "ok"
  <2> DEFINE m == [l EXCEPT !.toLoad = ScanGroup]
             x == ExecuteOrComplete(m, w, InOrder(ScanGroup), "load")
  <2>1. m \in States
    BY ScanGroupServices DEF States, Lms
  <2>2. Kept(l, m)
    BY WriteKept
  <2>3. ScanConfiguration(l, w) = CancelTimers(x)
    BY <1>1 DEF ScanConfiguration
  <2> HIDE DEF m
  <2>4. x \in States /\ Kept(m, x)
    BY <2>1, ScanGroupServices, ExecuteSound, ExecuteKept DEF Op
  <2> HIDE DEF x
  <2>5. Kept(x, CancelTimers(x))
    BY <2>4, WriteKept
  <2> QED BY <2>2, <2>3, <2>4, <2>5, KeptTransitive
<1>2. CASE w.scan = "noMei"
  <2> DEFINE m == [l EXCEPT !.scans = 0]
  <2>1. m \in States
    <3>1. 0 \in 0..NumRetries
      BY ConfiguratorConstants
    <3> QED BY <3>1 DEF States, Lms
  <2>2. Kept(l, m)
    BY WriteKept
  <2>3. ScanConfiguration(l, w) = TaskCompleted(CancelTimers(m))
    BY <1>2 DEF ScanConfiguration
  <2> HIDE DEF m
  <2>4. CancelTimers(m) \in States
    BY <2>1 DEF States, Lms, CancelTimers
  <2>5. Kept(m, CancelTimers(m))
    BY <2>1, WriteKept
  <2>6. Kept(CancelTimers(m), TaskCompleted(CancelTimers(m)))
    BY <2>4, CompletedKept
  <2> QED BY <2>2, <2>3, <2>5, <2>6, KeptTransitive
<1>3. CASE w.scan \notin {"ok", "noMei"}
  BY <1>3, WriteKept DEF ScanConfiguration
<1> QED BY <1>1, <1>2, <1>3

\* LoadNow loads a list of services.
LEMMA LoadNowKept ==
    ASSUME NEW l \in States, NEW w \in Worlds, NEW list \in Seq(Service)
    PROVE  Kept(l, LoadNow(l, w, list))
<1> DEFINE L == l.toLoad \cup {list[i] : i \in DOMAIN list}
           m == [l EXCEPT !.toLoad = L]
<1>1. L \in SUBSET Service
  BY StateSets
<1>2. LoadNow(l, w, list) = ExecuteOrComplete(m, w, list, "load")
  BY DEF LoadNow
<1> HIDE DEF L
<1>3. m \in States
  BY <1>1 DEF States, Lms
<1>4. Kept(l, m)
  BY WriteKept
<1> HIDE DEF m
<1>5. Kept(m, ExecuteOrComplete(m, w, list, "load"))
  BY <1>3, ExecuteKept DEF Op
<1> QED BY <1>2, <1>4, <1>5, KeptTransitive

\* OnToggleService loads, unloads or has nothing to do.
LEMMA ToggleKept ==
    ASSUME NEW l \in States, NEW w \in Worlds, NEW s \in Service, NEW val \in BOOLEAN
    PROVE  Kept(l, OnToggleService(l, w, s, val))
<1> DEFINE m == [l EXCEPT !.onToggle = TRUE, !.toLoad = l.toLoad \cup {s}]
           n == [l EXCEPT !.onToggle = TRUE, !.toggled = s, !.toLoad = l.toLoad \ {s}]
<1>1. m \in States /\ n \in States
  BY StateSets DEF States, Lms
<1>2. Kept(l, m) /\ Kept(l, n)
  BY WriteKept
<1>3. OnToggleService(l, w, s, val) \in
         {TaskCompleted(l), ExecuteOrComplete(m, w, <<s>>, "load"),
          ExecuteOrComplete(n, w, <<s>>, "unload")}
  BY DEF OnToggleService
<1>4. <<s>> \in Seq(Service)
  OBVIOUS
<1> HIDE DEF m, n
<1>5. /\ Kept(l, ExecuteOrComplete(m, w, <<s>>, "load"))
      /\ Kept(l, ExecuteOrComplete(n, w, <<s>>, "unload"))
  BY <1>1, <1>2, <1>4, ExecuteKept, KeptTransitive DEF Op
<1> QED BY <1>3, <1>5, CompletedKept

\* UpdateConfiguration, for each setting.
LEMMA UpdateConfigurationKept ==
    ASSUME NEW l \in States, NEW w \in Worlds, NEW t \in ChangeTasks
    PROVE  Kept(l, UpdateConfiguration(l, w, t))
<1>1. t.conf \in {"ME", "AMT", "TIME_SYNC", "PFW"} /\ t.value \in BOOLEAN
  BY DEF ChangeTasks, Change
<1>2. Kept(l, OnToggleService(l, w, "TimeSync", t.value))
  BY <1>1, ToggleKept, Services
<1>3. Kept(l, LoadNow(l, w, Append(ManageabilityGroup, "AmtEnableLast")))
  <2>1. Append(ManageabilityGroup, "AmtEnableLast") \in Seq(Service)
    BY Services DEF ManageabilityGroup
  <2> QED BY <2>1, LoadNowKept
<1>4. Kept(l, [LoadNow(l, w, Append(InOrder(l.waitPfw), "WaitingForPfwLast"))
         EXCEPT !.waitPfw = {}])
  <2>1. InOrder(l.waitPfw) \in Seq(Service) /\ "WaitingForPfwLast" \in Service
    BY StateSets, InOrderItems, Services
  <2>2. Append(InOrder(l.waitPfw), "WaitingForPfwLast") \in Seq(Service)
    BY <2>1
  <2> DEFINE m == LoadNow(l, w, Append(InOrder(l.waitPfw), "WaitingForPfwLast"))
  <2>3. m \in States /\ Kept(l, m)
    BY <2>2, LoadNowSound, LoadNowKept
  <2> HIDE DEF m
  <2>4. Kept(m, [m EXCEPT !.waitPfw = {}])
    BY <2>3, WriteKept
  <2>5. Kept(l, [m EXCEPT !.waitPfw = {}])
    BY <2>3, <2>4, KeptTransitive
  <2> QED BY <2>5 DEF m
<1>5. Kept(l, l) /\ Kept(l, TaskCompleted(l))
  BY CompletedKept DEF Kept
<1> QED BY <1>1, <1>2, <1>3, <1>4, <1>5 DEF UpdateConfiguration

\* ContinueOrComplete wakes the services that waited, ends the task, or
\* neither.
LEMMA ContinueKept ==
    ASSUME NEW l \in States, NEW w \in Worlds, NEW op \in Op, NEW s, NEW marker
    PROVE  Kept(l, ContinueOrComplete(l, w, op, s, marker))
<1> DEFINE ready == RefreshOnOperation(l, op)
           m == [l EXCEPT !.waiting[op] = l.waiting[op] \ ready]
<1>1. ready \in SUBSET Service
  BY StateSets DEF RefreshOnOperation
<1>2. ContinueOrComplete(l, w, op, s, marker) \in
         {ExecuteOrComplete(m, w, InOrder(ready), op), TaskCompleted(l), l}
  BY DEF ContinueOrComplete
<1> HIDE DEF ready
<1>3. m \in States
  BY WaitSound, StateSets
<1>4. Kept(l, m)
  BY WriteKept
<1> HIDE DEF m
<1>5. Kept(l, ExecuteOrComplete(m, w, InOrder(ready), op))
  <2>1. InOrder(ready) \in Seq(Service)
    BY <1>1, InOrderItems
  <2> QED BY <1>3, <1>4, <2>1, ExecuteKept, KeptTransitive
<1>6. Kept(l, TaskCompleted(l)) /\ Kept(l, l)
  BY CompletedKept DEF Kept
<1> QED BY <1>2, <1>5, <1>6

\* ChangeServiceState, for the two statuses of the calm scenario.
LEMMA StatusKept ==
    ASSUME NEW l \in States, NEW w \in Worlds, NEW s \in Service,
           NEW op \in {"load", "unload"}
    PROVE  Kept(l, ChangeServiceState(l, w, s, op))
<1>1. CASE op = "unload"
  <2> DEFINE m == FiniAceService(l, s)
  <2>1. m \in States /\ Kept(l, m)
    BY FiniSound, FiniKept
  <2> HIDE DEF m
  <2>2. Kept(l, ContinueOrComplete(m, w, op, s, {"First"}))
    BY <1>1, <2>1, ContinueKept, KeptTransitive DEF Op
  <2>3. ServiceChanged(l, w, s, op) = ContinueOrComplete(m, w, op, s, {"First"})
    BY <1>1 DEF ServiceChanged, m
  <2>4. ContinueOrComplete(m, w, op, s, {"First"}) \in States
    BY <1>1, <2>1, ContinueOrCompleteSound DEF Op
  <2> QED BY <2>2, <2>3, <2>4, CompletedKept, KeptTransitive DEF ChangeServiceState
<1>2. CASE op = "load"
  <2> DEFINE m == [l EXCEPT !.loaded = @ \cup {s}, !.active = @ \cup {s}, !.locked = @ \ {s}]
             marker == {"Last", "AmtEnableLast", "WaitingForPfwLast"}
  <2>1. m \in States
    BY DEF States, Lms
  <2>2. Kept(l, m)
    BY DEF Kept, Posted, States, Lms
  <2>3. ServiceChanged(l, w, s, op) = ContinueOrComplete(m, w, op, s, marker)
    BY <1>2 DEF ServiceChanged
  <2> HIDE DEF m, marker
  <2>4. Kept(l, ContinueOrComplete(m, w, op, s, marker))
    BY <1>2, <2>1, <2>2, ContinueKept, KeptTransitive DEF Op
  <2>5. ContinueOrComplete(m, w, op, s, marker) \in States
    BY <1>2, <2>1, ContinueOrCompleteSound DEF Op
  <2> QED BY <2>3, <2>4, <2>5, CompletedKept, KeptTransitive DEF ChangeServiceState
<1> QED BY <1>1, <1>2

-----------------------------------------------------------------------------
(* The Configurator's steps as steps of TaskQueue                          *)

\* What the mapping to TaskQueue reads.
Pending(l) == l.nextTasks \o Posted(l)
Busy(l) == l.locked # {} \/ (\E op \in Op : l.waiting[op] # {})

\* The steps of TaskQueue, between two states of the record.
Same(l, m) ==
    /\ Pending(m) = Pending(l) /\ m.inProcess = l.inProcess
    /\ Busy(m) = Busy(l) /\ m.needToStop = l.needToStop
Submits(l, m) ==
    /\ \E t \in Tasks : Pending(m) = Append(Pending(l), t)
    /\ m.inProcess = l.inProcess /\ Busy(m) = Busy(l) /\ m.needToStop = l.needToStop
Starts(l, m) ==
    /\ ~l.needToStop /\ Pending(l) # <<>> /\ m.inProcess = Head(Pending(l))
    /\ \/ Pending(m) = Tail(Pending(l))
       \/ \E t \in Tasks : Pending(m) = Append(Tail(Pending(l)), t)
    /\ l.inProcess = None \/ ~Busy(l)
Works(l, m) ==
    /\ l.inProcess # None \/ l.needToStop
    /\ Pending(m) = Pending(l) /\ m.inProcess = l.inProcess
    /\ m.needToStop \in {l.needToStop, TRUE}
Finishes(l, m) ==
    /\ l.inProcess # None /\ m.inProcess = None
    /\ l.needToStop \/ ~Busy(l)
    /\ Busy(m) = Busy(l) /\ Pending(m) = Pending(l) /\ m.needToStop = l.needToStop
Drops(l, m) ==
    /\ l.needToStop
    /\ \E i \in DOMAIN Pending(l) :
          Pending(m) = SubSeq(Pending(l), 1, i - 1)
                       \o SubSeq(Pending(l), i + 1, Len(Pending(l)))
    /\ m.inProcess \in {l.inProcess, None}
    /\ Busy(m) = Busy(l) /\ m.needToStop = l.needToStop
Follows(l, m) ==
    \/ Same(l, m) \/ Submits(l, m) \/ Starts(l, m) \/ Works(l, m)
    \/ Finishes(l, m) \/ Drops(l, m)

\* What changes nothing of the tasks and of the locks is no step.
LEMMA StillSame ==
    ASSUME NEW l, NEW m, Still(l, m)
    PROVE  Same(l, m)
  BY DEF Still, Kept, Same, Pending, Busy

\* What a step is does not depend on what TaskQueue does not see.
LEMMA FollowsSame ==
    ASSUME NEW l, NEW k, NEW m, Follows(l, k), Same(k, m)
    PROVE  Follows(l, m)
<1> HIDE DEF Pending, Busy
<1>1. Pending(m) = Pending(k) /\ m.inProcess = k.inProcess /\ Busy(m) = Busy(k)
      /\ m.needToStop = k.needToStop
  BY DEF Same
<1>2. Submits(l, k) => Submits(l, m)
  BY <1>1 DEF Submits
<1>3. Starts(l, k) => Starts(l, m)
  BY <1>1 DEF Starts
<1>4. Works(l, k) => Works(l, m)
  BY <1>1 DEF Works
<1>5. Finishes(l, k) => Finishes(l, m)
  BY <1>1 DEF Finishes
<1>6. Drops(l, k) => Drops(l, m)
  BY <1>1 DEF Drops
<1>7. Same(l, k) => Same(l, m)
  BY <1>1 DEF Same
<1> QED BY <1>2, <1>3, <1>4, <1>5, <1>6, <1>7 DEF Follows

\* What the mapping reads are lists of tasks.
LEMMA PostedTasks ==
    ASSUME NEW l \in States
    PROVE  /\ Posted(l) \in Seq(Tasks) /\ l.nextTasks \in Seq(Tasks)
           /\ Pending(l) \in Seq(Tasks)
<1>1. PICK q \in Seq(Messages) : q = l.queue[CONF]
  BY Services, StateQueues DEF Queues
<1>2. Listed(q, Tasks) \in Seq(Tasks)
  <2>1. PICK f \in [Nat -> Seq(Tasks)] : Picks(f, q, Tasks) /\ Listed(q, Tasks) = f[Len(q)]
    BY ListedSteps
  <2> QED BY <2>1, LenProperties
<1>3. Posted(l) \in Seq(Tasks) /\ l.nextTasks \in Seq(Tasks)
  BY <1>1, <1>2 DEF Posted, States, Lms
<1> QED BY <1>3, ConcatProperties DEF Pending

\* A started task does what is asked of it, and may itself submit a task.
LEMMA StartTaskKept ==
    ASSUME NEW l \in States, NEW w \in Worlds, NEW t \in CalmTasks \cup {Begin},
           NEW n, n = StartTask(l, w, t)
    PROVE  /\ n.nextTasks = l.nextTasks /\ n.inProcess = l.inProcess
           /\ Posted(n) = Posted(l) \/ \E x \in Tasks : Posted(n) = Append(Posted(l), x)
<1>0. Kept(l, n) => n.nextTasks = l.nextTasks /\ n.inProcess = l.inProcess /\ Posted(n)
         = Posted(l)
  BY DEF Kept
<1>2. CASE t = Begin
  <2>1. n = ScanConfiguration(l, w)
    BY <1>2, StartTypes DEF StartTask
  <2> QED BY <1>0, <2>1, ScanKept
<1>3. CASE t = Task("PFW_STARTED")
  <2> DEFINE a == [l EXCEPT !.pfwStarted = TRUE]
             x == Change("PFW", TRUE)
             p == PutQ(a, CONF, x)
  <2>1. n = TaskCompleted(p)
    BY <1>3, StartTypes DEF StartTask
  <2>2. a \in States
    BY DEF States, Lms
  <2>3. Kept(l, a)
    BY WriteKept
  <2>4. x \in Tasks /\ x \in MessagesTo(CONF) /\ x \in Messages /\ CONF \in Components
    BY StartTypes, TaskMessages, MessageSets, Services
  <2> HIDE DEF a, x
  <2>5. p \in States
    BY <2>2, <2>4, PutQSound
  <2>6. Posted(p) = Append(Posted(a), x)
    BY <2>2, <2>4, PutQueued
  <2>7. p.nextTasks = a.nextTasks /\ p.inProcess = a.inProcess
    BY <2>2, PutQFrame DEF Frame
  <2> HIDE DEF p
  <2>8. Kept(p, n)
    BY <2>1, <2>5, CompletedKept
  <2> QED BY <2>3, <2>4, <2>6, <2>7, <2>8 DEF Kept
<1>4. CASE t = Task("PFW_STOPPED")
  <2> DEFINE a == [l EXCEPT !.pfwStarted = FALSE]
  <2>1. n = TaskCompleted(a)
    BY <1>4, StartTypes DEF StartTask
  <2>2. a \in States
    BY DEF States, Lms
  <2>3. Kept(l, a)
    BY WriteKept
  <2> HIDE DEF a
  <2> QED BY <1>0, <2>1, <2>2, <2>3, CompletedKept, KeptTransitive
<1>5. CASE t \in ChangeTasks
  <2>1. n = UpdateConfiguration(l, w, t)
    BY <1>5, StartTypes DEF StartTask
  <2> QED BY <1>0, <1>5, <2>1, UpdateConfigurationKept
<1>6. CASE t = Task("STOP")
  <2> DEFINE a == [l EXCEPT !.deferred = FALSE]
             b == [a EXCEPT !.needToStop = TRUE]
  <2>1. n = StopAllServices(a, w, TRUE)
    BY <1>6, StartTypes DEF StartTask
  <2>2. a \in States
    BY DEF States, Lms
  <2>3. Kept(l, a)
    BY WriteKept
  <2> HIDE DEF a
  <2>4. b.nextTasks = a.nextTasks /\ b.inProcess = a.inProcess /\ Posted(b) = Posted(a)
    BY <2>2 DEF Posted, States, Lms
  <2>5. Kept(b, n)
    BY <2>1, <2>2, StopAllKept
  <2> HIDE DEF b
  <2> QED BY <2>3, <2>4, <2>5 DEF Kept
<1> QED BY <1>2, <1>3, <1>4, <1>5, <1>6 DEF CalmTasks

\* What the Configurator takes from its queue.
LEMMA TookPosted ==
    ASSUME NEW l \in States, NEW k, Took(l, k, CONF), NEW x, x = Head(l.queue[CONF])
    PROVE  /\ k \in States /\ k.nextTasks = l.nextTasks /\ k.inProcess = l.inProcess
           /\ k.needToStop = l.needToStop /\ Busy(k) = Busy(l)
           /\ x \in Tasks => /\ Posted(l) # <<>> /\ Head(Posted(l)) = x
                             /\ Tail(Posted(l)) = Posted(k)
           /\ x \notin Tasks => Posted(k) = Posted(l) /\ Same(l, k)
<1>0. CONF \in Components /\ l.queue[CONF] # <<>>
  BY Services DEF Took
<1>1. /\ k \in States /\ k.nextTasks = l.nextTasks /\ k.inProcess = l.inProcess
      /\ k.needToStop = l.needToStop /\ k.locked = l.locked /\ k.waiting = l.waiting
      /\ k.queue = Take(l.queue, CONF)
  BY <1>0, TookFields
<1>2. k.queue[CONF] = Tail(l.queue[CONF])
  BY <1>0, <1>1 DEF Take, States, Lms
<1>3. PICK q \in Seq(Messages) : q = l.queue[CONF]
  BY <1>0, StateQueues DEF Queues
<1>4. /\ Posted(k) \in Seq(Tasks)
      /\ x \in Tasks => Posted(l) = <<x>> \o Posted(k)
      /\ x \notin Tasks => Posted(l) = Posted(k)
  <2>1. /\ Listed(Tail(q), Tasks) \in Seq(Tasks)
        /\ Head(q) \in Tasks => Listed(q, Tasks) = <<Head(q)>> \o Listed(Tail(q), Tasks)
        /\ Head(q) \notin Tasks => Listed(q, Tasks) = Listed(Tail(q), Tasks)
    BY <1>0, <1>3, ListedTail
  <2> QED BY <1>2, <1>3, <2>1 DEF Posted
<1>5. ASSUME x \in Tasks
      PROVE  Posted(l) # <<>> /\ Head(Posted(l)) = x /\ Tail(Posted(l)) = Posted(k)
  <2> DEFINE one == <<x>>
             p == Posted(k)
  <2>1. one \in Seq(Tasks) /\ one # <<>> /\ Head(one) = x /\ Tail(one) = <<>>
    BY <1>5
  <2>2. p \in Seq(Tasks) /\ Posted(l) = one \o p
    BY <1>4, <1>5
  <2> HIDE DEF one, p
  <2>3. one \o p # <<>> /\ Head(one \o p) = Head(one) /\ Tail(one \o p) = Tail(one) \o p
    BY <2>1, <2>2, ConcatTail
  <2>4. <<>> \o p = p
    BY <2>2, ConcatEmptySeq
  <2> QED BY <2>1, <2>2, <2>3, <2>4 DEF p
<1>6. Busy(k) = Busy(l)
  BY <1>1 DEF Busy
<1>7. Posted(k) = Posted(l) => Same(l, k)
  BY <1>1, <1>6 DEF Same, Pending
<1> QED BY <1>1, <1>4, <1>5, <1>6, <1>7

\* The announced end is not yet a step.
LEMMA CompletedSame ==
    ASSUME NEW l \in States
    PROVE  Same(l, TaskCompleted(l)) /\ TaskCompleted(l) \in States
<1> DEFINE n == TaskCompleted(l)
<1>1. Kept(l, n)
  BY CompletedKept
<1>2. n.locked = l.locked /\ n.waiting = l.waiting
  BY DEF TaskCompleted, PutQ, States, Lms
<1> HIDE DEF n
<1>3. Same(l, n)
  BY <1>1, <1>2 DEF Kept, Same, Pending, Busy
<1> QED BY <1>3, TaskCompletedSound DEF n

\* A task is put in process.
LEMMA StartedKept ==
    ASSUME NEW l \in States, NEW t \in Tasks, NEW m, m = Started(l, t)
    PROVE  m \in States /\ m.inProcess = t /\ m.nextTasks = l.nextTasks /\ Posted(m) = Posted(l)
  BY StartedFields DEF Posted

\* A status: services change state for the task in process.
LEMMA StatusFollows ==
    ASSUME NEW l, Sane(l), NEW k, Took(l, k, CONF), NEW s \in Service,
           NEW op \in {"load", "unload"}, Head(l.queue[CONF]) = Status(s, op), NEW w \in Worlds
    PROVE  Follows(l, ChangeServiceState(k, w, s, op))
<1> DEFINE h == ChangeServiceState(k, w, s, op)
           x == Head(l.queue[CONF])
<1>1. l \in States /\ Wire(l) /\ Tasking(l) /\ l.queue[CONF] # <<>>
  BY DEF Sane, Took
<1>2. k \in States /\ k.inProcess = l.inProcess /\ k.needToStop = l.needToStop /\ Same(l, k)
  <2>1. x \notin Tasks
    BY NoTasks
  <2> QED BY <1>1, <2>1, TookPosted
<1>3. Kept(k, h)
  BY <1>2, StatusKept
<1>4. l.inProcess # None \/ l.needToStop
  <2>1. Box(s, op) = CONF /\ Notice(s, op) = Status(s, op) /\ op \in Kinds
    BY DEF Box, Notice, Kinds
  <2>2. x \in Items(l.queue[CONF])
    <3>1. l.queue[CONF] \in Seq(MessagesTo(CONF))
      BY <1>1, Services DEF States
    <3> QED BY <1>1, <3>1 DEF Items
  <2>3. UnderWay(l.queue, s) # {}
    BY <2>1, <2>2 DEF UnderWay
  <2>4. s \in l.locked
    BY <1>1, <2>3 DEF Wire, Talk, Converse
  <2>5. ~l.needToStop => Open(l)
    BY <1>1 DEF Tasking
  <2> QED BY <2>4, <2>5 DEF Open, Rest, Quiet
<1> HIDE DEF h
<1>5. Works(l, h)
  BY <1>2, <1>3, <1>4 DEF Works, Kept, Same, Pending
<1> QED BY <1>5 DEF Follows, h

\* A request: it starts, waits, or is dropped.
LEMMA TaskFollows ==
    ASSUME NEW l, Sane(l), NEW k, Took(l, k, CONF), NEW t \in CalmTasks \cup {Begin},
           Head(l.queue[CONF]) = t, NEW w \in Worlds
    PROVE  Follows(l, ExecuteTask(k, w, t))
<1> DEFINE h == ExecuteTask(k, w, t)
<1>1. l \in States /\ Tasking(l) /\ t \in Tasks
  BY CalmMessages, TaskMessages DEF Sane, Begin
<1>2. /\ k \in States /\ k.nextTasks = l.nextTasks /\ k.inProcess = l.inProcess
      /\ k.needToStop = l.needToStop /\ Busy(k) = Busy(l)
      /\ Posted(l) # <<>> /\ Head(Posted(l)) = t /\ Tail(Posted(l)) = Posted(k)
  BY <1>1, TookPosted
<1>3. /\ Posted(l) \in Seq(Tasks) /\ l.nextTasks \in Seq(Tasks) /\ Posted(k) \in Seq(Tasks)
  BY <1>1, <1>2, PostedTasks
<1>4. CASE l.needToStop
  <2>1. h \in {k, TaskCompleted(k)}
    BY <1>2, <1>4 DEF ExecuteTask, CompletedUnless
  <2> HIDE DEF h
  <2>2. Same(k, h)
    <3>1. Same(k, k)
      BY DEF Same
    <3> QED BY <1>2, <2>1, <3>1, CompletedSame
  <2>3. Pending(k) = l.nextTasks \o Tail(Posted(l))
    BY <1>2 DEF Pending
  <2>4. \E i \in DOMAIN Pending(l) :
           Pending(k) = SubSeq(Pending(l), 1, i - 1)
                        \o SubSeq(Pending(l), i + 1, Len(Pending(l)))
    <3>1. PICK a \in Seq(Tasks), b \in Seq(Tasks) : a = l.nextTasks /\ b = Posted(l) /\ b # <<>>
      BY <1>2, <1>3
    <3>2. LET p == a \o b IN
          \E i \in DOMAIN p : a \o Tail(b) = SubSeq(p, 1, i - 1) \o SubSeq(p, i + 1, Len(p))
      BY <3>1, ConcatHeadDrop
    <3> QED BY <2>3, <3>1, <3>2 DEF Pending
  <2>5. Drops(l, k)
    BY <1>2, <1>4, <2>4 DEF Drops
  <2> QED BY <2>2, <2>5, FollowsSame DEF Follows, h
<1>5. CASE ~l.needToStop /\ l.inProcess = None
  <2> DEFINE m == Started(k, t)
  <2>1. h = StartTask(m, w, t)
    BY <1>2, <1>5 DEF ExecuteTask, Started
  <2>2. m = Started(k, t)
    OBVIOUS
  <2> HIDE DEF h, m
  <2>3. /\ m \in States /\ m.inProcess = t /\ m.nextTasks = k.nextTasks
        /\ Posted(m) = Posted(k)
    BY <1>1, <1>2, <2>2, StartedKept
  <2>4. l.nextTasks = <<>>
    BY <1>1, <1>5 DEF Tasking, Open
  <2>5. /\ h.nextTasks = <<>> /\ h.inProcess = t
        /\ Posted(h) = Posted(k) \/ \E x \in Tasks : Posted(h) = Append(Posted(k), x)
    BY <1>2, <2>1, <2>3, <2>4, StartTaskKept
  <2>6. \A p \in Seq(Tasks) : <<>> \o p = p
    BY ConcatEmptySeq
  <2>7. Pending(l) = Posted(l)
    BY <1>3, <2>4, <2>6 DEF Pending
  <2>8. Pending(h) = Posted(k) \/ \E x \in Tasks : Pending(h) = Append(Posted(k), x)
    <3>1. \A x \in Tasks : Append(Posted(k), x) \in Seq(Tasks)
      BY <1>3, AppendProperties
    <3> QED BY <1>3, <2>5, <2>6, <3>1 DEF Pending
  <2>9. Starts(l, h)
    BY <1>2, <1>5, <2>5, <2>7, <2>8 DEF Starts
  <2> QED BY <2>9 DEF Follows, h
<1>6. CASE ~l.needToStop /\ l.inProcess # None
  <2> DEFINE tasks == Append(k.nextTasks, t)
  <2>1. h = [k EXCEPT !.nextTasks = tasks]
    BY <1>2, <1>6 DEF ExecuteTask
  <2>2. h.nextTasks = tasks /\ h.inProcess = k.inProcess /\ h.needToStop = k.needToStop
        /\ h.locked = k.locked /\ h.waiting = k.waiting /\ h.queue = k.queue
    <3> HIDE DEF tasks, h
    <3> QED BY <1>2, <2>1 DEF States, Lms
  <2> HIDE DEF h
  <2>3. Append(l.nextTasks, t) \o Tail(Posted(l)) = l.nextTasks \o Posted(l)
    <3>1. PICK a \in Seq(Tasks), b \in Seq(Tasks) : a = l.nextTasks /\ b = Posted(l) /\ b # <<>>
      BY <1>2, <1>3
    <3>2. Append(a, Head(b)) \o Tail(b) = a \o b
      BY <3>1, ConcatMove
    <3> QED BY <1>2, <3>1, <3>2
  <2>4. Pending(h) = Pending(l)
    <3>1. Posted(h) = Tail(Posted(l))
      BY <1>2, <2>2 DEF Posted
    <3> QED BY <1>2, <2>2, <2>3, <3>1 DEF Pending
  <2>5. Busy(h) = Busy(l)
    <3>1. Busy(h) = Busy(k)
      BY <2>2 DEF Busy
    <3> QED BY <1>2, <3>1
  <2>6. Same(l, h)
    BY <1>2, <2>2, <2>4, <2>5 DEF Same
  <2> QED BY <2>6 DEF Follows, h
<1> QED BY <1>4, <1>5, <1>6

\* The end of a task, and what comes with it.
LEMMA EndFollows ==
    ASSUME NEW l, Sane(l), NEW k, Took(l, k, CONF), Head(l.queue[CONF]) = Completed,
           NEW w \in Worlds
    PROVE  Follows(l, TaskEnded(k, w))
<1> DEFINE m == EndOf(k)
           n == Queued(m, Tail(m.nextTasks))
           t == Head(m.nextTasks)
           h == TaskEnded(k, w)
<1>1. l \in States /\ Calm(l) /\ Tasking(l) /\ l.queue[CONF] # <<>>
  BY DEF Sane, Took
<1>2. /\ k \in States /\ k.nextTasks = l.nextTasks /\ k.inProcess = l.inProcess
      /\ k.needToStop = l.needToStop /\ Busy(k) = Busy(l) /\ Posted(k) = Posted(l)
  <2>1. Completed \notin Tasks
    BY NoTasks
  <2> QED BY <1>1, <2>1, TookPosted
<1>3. h = IF m.nextTasks = <<>> THEN m ELSE ExecuteTask(n, w, t)
  BY DEF TaskEnded, EndOf, Queued
<1>4. m = EndOf(k) /\ n = Queued(m, Tail(m.nextTasks))
  OBVIOUS
<1> HIDE DEF m, n, h
<1>5. /\ m \in States /\ m.inProcess = None /\ m.nextTasks = l.nextTasks
      /\ m.needToStop = l.needToStop /\ Busy(m) = Busy(l) /\ Posted(m) = Posted(l)
  <2>1. /\ m \in States /\ m.inProcess = None /\ m.nextTasks = k.nextTasks
        /\ m.needToStop = k.needToStop /\ m.locked = k.locked /\ m.waiting = k.waiting
        /\ m.queue = k.queue
    BY <1>2, <1>4, EndFields
  <2>2. Busy(m) = Busy(k) /\ Posted(m) = Posted(k)
    BY <2>1 DEF Busy, Posted
  <2> QED BY <1>2, <2>1, <2>2
<1>6. Pending(m) = Pending(l)
  BY <1>5 DEF Pending
<1>7. l.needToStop \/ ~Busy(l)
  <2> SUFFICES ASSUME ~l.needToStop PROVE ~Busy(l)
    OBVIOUS
  <2>1. Completed \in Items(l.queue[CONF])
    <3>1. l.queue[CONF] \in Seq(MessagesTo(CONF))
      BY <1>1, Services DEF States
    <3>2. Head(l.queue[CONF]) \in Items(l.queue[CONF])
      BY <1>1, <3>1 DEF Items
    <3> QED BY <3>2
  <2>2. Rest(l)
    BY <1>1, <2>1 DEF Tasking, Open, Ended
  <2> QED BY <1>1, <2>2 DEF Rest, Quiet, Calm, Busy, Op
<1>8. CASE m.nextTasks = <<>>
  <2>1. h = m
    BY <1>3, <1>8
  <2>2. l.inProcess # None => Finishes(l, m)
    BY <1>5, <1>6, <1>7 DEF Finishes
  <2>3. l.inProcess = None => Same(l, m)
    BY <1>5, <1>6 DEF Same
  <2> QED BY <2>1, <2>2, <2>3 DEF Follows, h
<1>9. CASE m.nextTasks # <<>>
  <2>1. h = ExecuteTask(n, w, t)
    BY <1>3, <1>9
  <2>2. t \in CalmTasks /\ Tail(m.nextTasks) \in Seq(CalmTasks)
    <3>1. m.nextTasks \in Seq(CalmTasks)
      BY <1>1, <1>5 DEF Calm
    <3> QED BY <1>9, <3>1
  <2>3. /\ n \in States /\ n.inProcess = None /\ n.nextTasks = Tail(l.nextTasks)
        /\ n.needToStop = l.needToStop /\ Busy(n) = Busy(l) /\ Posted(n) = Posted(l)
    <3>0. PICK tasks \in Seq(CalmTasks) : tasks = Tail(m.nextTasks) /\ n = Queued(m, tasks)
      BY <1>4, <2>2
    <3>1. /\ n \in States /\ n.nextTasks = Tail(m.nextTasks) /\ n.inProcess = m.inProcess
          /\ n.needToStop = m.needToStop /\ n.locked = m.locked /\ n.waiting = m.waiting
          /\ n.queue = m.queue
      <4>1. m \in States
        BY <1>5
      <4>2. PICK j \in States : j = m
        BY <4>1
      <4>3. PICK i : i = Queued(j, tasks)
        OBVIOUS
      <4>4. /\ i \in States /\ i.nextTasks = tasks /\ i.inProcess = j.inProcess
            /\ i.needToStop = j.needToStop /\ i.locked = j.locked
            /\ i.waiting = j.waiting /\ i.queue = j.queue
        BY <4>3, QueuedFields
      <4> QED BY <3>0, <4>2, <4>3, <4>4
    <3>2. Busy(n) = Busy(m) /\ Posted(n) = Posted(m)
      BY <3>1 DEF Busy, Posted
    <3> QED BY <1>5, <3>1, <3>2
  <2>4. PICK a \in Seq(Tasks), b \in Seq(Tasks) :
           a = l.nextTasks /\ b = Posted(l) /\ a # <<>> /\ Head(a) = t
    <3>1. Posted(l) \in Seq(Tasks) /\ l.nextTasks \in Seq(Tasks)
      BY <1>1, PostedTasks
    <3> QED BY <1>5, <1>9, <3>1
  <2>5. /\ Pending(l) = a \o b /\ Pending(n) = Tail(a) \o b
        /\ a \o b # <<>> /\ Head(a \o b) = t /\ Tail(a \o b) = Tail(a) \o b
    <3>0. a # <<>>
      BY <2>4
    <3>1. a \o b # <<>> /\ Head(a \o b) = Head(a) /\ Tail(a \o b) = Tail(a) \o b
      BY <3>0, ConcatTail
    <3> QED BY <2>3, <2>4, <3>1 DEF Pending
  <2>6. CASE l.needToStop
    <3>2. h \in {n, TaskCompleted(n)}
      BY <2>1, <2>3, <2>6 DEF ExecuteTask, CompletedUnless
    <3>3. Same(n, h)
      <4>1. Same(n, n)
        BY DEF Same
      <4> QED BY <2>3, <3>2, <4>1, CompletedSame
    <3>0. a # <<>>
      BY <2>4
    <3>4. LET p == a \o b IN
          \E i \in DOMAIN p : Tail(a) \o b = SubSeq(p, 1, i - 1) \o SubSeq(p, i + 1, Len(p))
      BY <3>0, ConcatTailDrop
    <3>5. Drops(l, n)
      BY <2>3, <2>5, <2>6, <3>4 DEF Drops
    <3> QED BY <3>3, <3>5, FollowsSame DEF Follows, h
  <2>7. CASE ~l.needToStop
    <3> DEFINE s == Started(n, t)
    <3>1. h = StartTask(s, w, t) /\ s = Started(n, t)
      BY <2>1, <2>3, <2>7 DEF ExecuteTask, Started
    <3> HIDE DEF s, t
    <3>2. /\ s \in States /\ s.inProcess = t /\ s.nextTasks = n.nextTasks
          /\ Posted(s) = Posted(n)
      <4>1. t \in Tasks
        BY <2>2, CalmMessages
      <4> QED BY <2>3, <3>1, <4>1, StartedKept
    <3>3. /\ h.nextTasks = Tail(a) /\ h.inProcess = t
          /\ Posted(h) = b \/ \E x \in Tasks : Posted(h) = Append(b, x)
      BY <2>2, <2>3, <2>4, <3>1, <3>2, StartTaskKept
    <3>4. Pending(h) = Tail(a) \o b \/ \E x \in Tasks : Pending(h) = Append(Tail(a) \o b, x)
      <4>1. CASE Posted(h) = b
        BY <3>3, <4>1 DEF Pending
      <4>2. CASE \E x \in Tasks : Posted(h) = Append(b, x)
        <5>1. PICK x \in Tasks : Posted(h) = Append(b, x)
          BY <4>2
        <5>2. Tail(a) \in Seq(Tasks)
          BY <2>4
        <5>3. Joined(Tail(a), b, x)
          BY <5>2, ConcatAppend
        <5> QED BY <3>3, <5>1, <5>3 DEF Pending, Joined
      <4> QED BY <3>3, <4>1, <4>2
    <3>5. Starts(l, h)
      BY <1>7, <2>5, <2>7, <3>3, <3>4 DEF Starts
    <3> QED BY <3>5 DEF Follows, h
  <2> QED BY <2>6, <2>7
<1> QED BY <1>8, <1>9

\* A message to the Configurator.
LEMMA HandleConfFollows ==
    ASSUME NEW l, Sane(l), NEW k, Took(l, k, CONF), NEW w \in Worlds,
           NEW x, x = Head(l.queue[CONF])
    PROVE  Follows(l, HandleConfMessage(k, w, x))
<1>1. l.queue[CONF] # <<>>
  BY DEF Took
<1>2. CASE \E s \in Service : x \in {Status(s, "load"), Status(s, "unload")}
  <2>1. PICK s \in Service, op \in {"load", "unload"} : x = Status(s, op)
    BY <1>2
  <2>2. HandleConfMessage(k, w, x) = ChangeServiceState(k, w, s, op)
    BY <2>1, StatusParts DEF HandleConfMessage
  <2> QED BY <2>1, <2>2, StatusFollows
<1>3. CASE x = Completed
  <2>1. HandleConfMessage(k, w, x) = TaskEnded(k, w)
    BY <1>3, StatusParts DEF HandleConfMessage
  <2> QED BY <1>3, <2>1, EndFollows
<1>4. CASE x \in CalmTasks \cup {Begin}
  <2>1. HandleConfMessage(k, w, x) = ExecuteTask(k, w, x)
    BY <1>4, StatusParts DEF HandleConfMessage
  <2> QED BY <1>4, <2>1, TaskFollows
<1> QED BY <1>1, <1>2, <1>3, <1>4, ConfLetters

\* Its dispatch, with what handle_output does last.
LEMMA ConfiguratorStepFollows ==
    ASSUME CalmWorld, Sane(lms), ConfiguratorStep
    PROVE  Follows(lms, lms')
<1>1. lms \in States /\ CONF \in Components /\ Dispatched(CONF)
  BY Services DEF Sane, ConfiguratorStep
<1> DEFINE k == Taken(CONF)
           x == Head(lms.queue[CONF])
<1>2. PICK w \in World : Handled(CONF, HandleConfMessage(k, w, x))
  BY DEF ConfiguratorStep
<1>3. w \in Worlds
  BY WorldTyped
<1>5. Took(lms, k, CONF)
  BY <1>1, TakenTook
<1> DEFINE h == HandleConfMessage(k, w, x)
<1>6. Follows(lms, h)
  <2> HIDE DEF k
  <2> QED BY <1>3, <1>5, HandleConfFollows
<1>7. h \in States
  <2>1. w.bad = {}
    BY DEF World, CalmWorld
  <2>2. Sane(h)
    <3> HIDE DEF k
    <3> QED BY <1>3, <1>5, <2>1, HandleConfSane
  <2> QED BY <2>2 DEF Sane
<1> HIDE DEF h
<1>8. Handled(CONF, h)
  BY <1>2 DEF h
<1>9. Same(h, lms')
  BY <1>7, <1>8, HandledStill, StillSame
<1> QED BY <1>6, <1>9, FollowsSame

\* While the timer runs the start task is in process.
LEMMA ScanTimeoutFollows ==
    ASSUME CalmWorld, Sane(lms), ScanTimeout
    PROVE  Follows(lms, lms')
<1>1. lms \in States /\ lms.scanTimer
  BY DEF Sane, ScanTimeout, ScanExpires
<1>2. lms.inProcess # None
  BY <1>1, ScanMidst, ConfiguratorConstants, TaskMessages DEF Begin
<1>3. PICK w \in World :
          IF lms.scans < NumRetries
          THEN lms' = [ScanConfiguration(lms, w) EXCEPT !.scans = @ + 1]
          ELSE lms' = TaskCompleted(StopAllServices(CancelTimers(lms), w, TRUE))
  BY DEF ScanTimeout
<1>4. w \in Worlds
  BY WorldTyped
<1>5. CASE lms.scans < NumRetries
  <2> DEFINE c == ScanConfiguration(lms, w)
             n == c.scans + 1
  <2>1. c \in States /\ Kept(lms, c)
    BY <1>1, <1>4, ScanConfigurationSound, ScanKept
  <2>2. lms' = [c EXCEPT !.scans = n]
    BY <1>3, <1>5
  <2> HIDE DEF c, n
  <2>3. Kept(c, [c EXCEPT !.scans = n])
    BY <2>1, WriteKept
  <2>4. Kept(lms, lms')
    BY <2>1, <2>2, <2>3, KeptTransitive
  <2>5. Works(lms, lms')
    BY <1>2, <2>4 DEF Works, Kept, Pending
  <2> QED BY <2>5 DEF Follows
<1>6. CASE ~(lms.scans < NumRetries)
  <2> DEFINE c == CancelTimers(lms)
             b == [c EXCEPT !.needToStop = TRUE]
             p == StopAllServices(c, w, TRUE)
  <2>1. lms' = TaskCompleted(p)
    BY <1>3, <1>6
  <2>2. c \in States
    BY <1>1 DEF CancelTimers, States, Lms
  <2>3. Kept(lms, c)
    BY <1>1, WriteKept
  <2> HIDE DEF c
  <2>4. b.nextTasks = c.nextTasks /\ b.inProcess = c.inProcess /\ Posted(b) = Posted(c)
        /\ b.needToStop = TRUE
    BY <2>2 DEF Posted, States, Lms
  <2>5. p \in States /\ Kept(b, p)
    BY <1>4, <2>2, StopAllServicesSound, StopAllKept
  <2> HIDE DEF b, p
  <2>6. Kept(p, lms')
    BY <2>1, <2>5, CompletedKept
  <2>7. Works(lms, lms')
    BY <1>2, <2>3, <2>4, <2>5, <2>6 DEF Works, Kept, Pending
  <2> QED BY <2>7 DEF Follows
<1> QED BY <1>5, <1>6

\* A request comes, or is lost because the Configurator is not reachable.
LEMMA RequestFollows ==
    ASSUME NEW l \in States, NEW t \in Tasks
    PROVE  Follows(l, SendMessage(l, CONF, t))
<1> DEFINE p == PutQ(l, CONF, t)
<1>1. Posted(p) = Append(Posted(l), t) /\ Frame(l, p)
  <2>1. t \in Messages
    BY TaskMessages, MessageSets, Services
  <2> QED BY <2>1, Services, PutQueued, PutQFrame
<1>2. p.locked = l.locked /\ p.waiting = l.waiting
  BY DEF PutQ, States, Lms
<1> HIDE DEF p
<1>3. Pending(p) = Append(Pending(l), t)
  <2>1. Posted(l) \in Seq(Tasks) /\ l.nextTasks \in Seq(Tasks)
    BY PostedTasks
  <2>2. PICK a \in Seq(Tasks), b \in Seq(Tasks) : a = l.nextTasks /\ b = Posted(l)
    BY <2>1
  <2>3. Joined(a, b, t)
    BY ConcatAppend
  <2> QED BY <1>1, <2>2, <2>3 DEF Pending, Frame, Joined
<1>4. Submits(l, p)
  BY <1>1, <1>2, <1>3 DEF Submits, Busy, Frame
<1>5. Same(l, l)
  BY DEF Same
<1> QED BY <1>4, <1>5 DEF Follows, SendMessage, p

\* Every step of the Configurator is one of TaskQueue or none.
LEMMA NextFollows ==
    ASSUME CalmWorld, TypeOK, Sane(lms), [Next]_vars
    PROVE  Follows(lms, lms')
<1>0. lms \in States
  BY DEF Sane
<1>1. CASE ConfiguratorStep
  BY <1>1, ConfiguratorStepFollows
<1>2. ASSUME NEW s \in Service, ServiceStep(s) PROVE Follows(lms, lms')
  BY <1>0, <1>2, ServiceStepStill, StillSame DEF Follows
<1>3. CASE ScanTimeout
  BY <1>3, ScanTimeoutFollows
<1>4. CASE DeferredResumeTimeout
  BY <1>4 DEF DeferredResumeTimeout, Sane, Calm
<1>5. CASE (\E t \in Changes : ReportChange(t)) \/ ReportPortForwarding \/ Stop
  <2>1. \E t \in Tasks : lms' = SendMessage(lms, CONF, t)
    <3>1. CASE \E t \in Changes : ReportChange(t)
      BY <3>1, ConfiguratorConstants, TaskMessages DEF ReportChange
    <3>2. CASE ReportPortForwarding
      <4>1. Task("PFW_STOPPED") \in Tasks /\ Task("PFW_STARTED") \in Tasks
        BY TaskMessages
      <4> QED BY <3>2, <4>1 DEF ReportPortForwarding
    <3>3. CASE Stop
      <4>1. Task("STOP") \in Tasks
        BY TaskMessages
      <4> QED BY <3>3, <4>1 DEF Stop
    <3> QED BY <1>5, <3>1, <3>2, <3>3
  <2> QED BY <1>0, <2>1, RequestFollows
<1>6. CASE PowerEvent \/ DeviceEvent
  <2>1. env.power \in 0..0 /\ env.device \in 0..0
    BY TypeOKStates DEF Environments, CalmWorld
  <2>2. ~(env.power < 0) /\ ~(env.device < 0)
    BY <2>1
  <2> QED BY <1>6, <2>2 DEF PowerEvent, DeviceEvent, CalmWorld
<1>7. CASE UNCHANGED vars
  BY <1>7 DEF vars, Follows, Same
<1> QED BY <1>1, <1>2, <1>3, <1>4, <1>5, <1>6, <1>7 DEF Next, Reactor, Dispatch

-----------------------------------------------------------------------------
(* The refinement                                                          *)

\* The process starts without a task in process and with one in the queue.
LEMMA MappedInit ==
    ASSUME Init
    PROVE  Sequential!TaskInit
<1>1. lms \in States
  BY InitSane DEF Sane
<1>2. Pending(lms) \in Seq(Tasks)
  BY <1>1, PostedTasks
<1>3. lms.inProcess = None /\ lms.needToStop = FALSE /\ ~Busy(lms)
  BY DEF Init, Busy
<1> QED BY <1>2, <1>3 DEF Sequential!TaskInit, Pending, Posted, Busy

\* The steps of TaskQueue between two states of the record are its actions
\* under the refinement mapping.
LEMMA MappedStep ==
    ASSUME lms \in States, lms' \in States, Follows(lms, lms')
    PROVE  [Sequential!TaskNext]_(Sequential!taskVars)
<1>1. lms.needToStop \in BOOLEAN /\ lms'.needToStop \in BOOLEAN
      /\ Busy(lms) \in BOOLEAN /\ Busy(lms)' \in BOOLEAN
  BY DEF States, Lms, Busy
<1>2. Same(lms, lms') => UNCHANGED Sequential!taskVars
  BY DEF Same, Pending, Posted, Busy, Sequential!taskVars
<1>3. Submits(lms, lms') => Sequential!Submit
  BY DEF Submits, Pending, Posted, Busy, Sequential!Submit
<1>4. Starts(lms, lms') => Sequential!StartWhenIdle \/ Sequential!FinishAndStart
  BY <1>1 DEF Starts, Pending, Posted, Busy, Sequential!StartWhenIdle,
         Sequential!FinishAndStart, Sequential!Start
<1>5. Works(lms, lms') => Sequential!Work
  BY <1>1 DEF Works, Pending, Posted, Busy, Sequential!Work
<1>6. Finishes(lms, lms') => Sequential!Finish
  BY DEF Finishes, Pending, Posted, Busy, Sequential!Finish
<1>7. Drops(lms, lms') => Sequential!Drop
  BY DEF Drops, Pending, Posted, Busy, Sequential!Drop
<1> QED BY <1>2, <1>3, <1>4, <1>5, <1>6, <1>7 DEF Follows, Sequential!TaskNext

\* Configurator implements TaskQueue (the "sequential tasks management" of
\* Configurator.h): requests are started one at a time in the order in which
\* they came, also the ones that came while another was in process and those a
\* task submits itself; services change state only for the task in process, and
\* it is over only when none is on its way; once the process closes, what is
\* left is dropped. Sane is needed for the last two: that a status comes only
\* from a service that was locked for the task in process, and that the end of
\* a task is announced only when nothing is locked or waits.
THEOREM TasksInOrder ==
    ASSUME CalmWorld
    PROVE  Spec => SequentialTasks
<1>1. Init => Sequential!TaskInit
  BY MappedInit
<1>2. Inv /\ Inv' /\ [Next]_vars => [Sequential!TaskNext]_(Sequential!taskVars)
  <2>1. Inv /\ Inv' => lms \in States /\ lms' \in States
    BY DEF Inv, Sane
  <2>2. Inv /\ [Next]_vars => Follows(lms, lms')
    BY NextFollows DEF Inv
  <2> QED BY <2>1, <2>2, MappedStep
<1> QED
  BY <1>1, <1>2, CalmSane, PTL DEF Spec, SequentialTasks, Sequential!TaskSpec
=============================================================================
