------------------------- MODULE ConfiguratorProofs -------------------------
(***************************************************************************)
(* Proofs about Configurator, for any world and any bounds: the types      *)
(* (TypeCorrect), and what the proofs about its tasks, in                  *)
(* ConfiguratorTasksProofs, rest on.                                       *)
(*                                                                         *)
(* The model's loops, the batch command above all, are recursive functions *)
(* on the numbers. That such a function exists, and what its steps keep,   *)
(* is proved first; everything said of a batch command then comes from     *)
(* ExecuteRule, with an invariant of the visits.                           *)
(*                                                                         *)
(* The second half is about the conversation between the Configurator and  *)
(* one service, in which each message answers the one before: Wire. It is  *)
(* kept by the steps of the services (ServiceStepSane) and of the other    *)
(* threads (ReportsSane); what a batch command that loads does to it is    *)
(* LoadVisit.                                                              *)
(***************************************************************************)
EXTENDS Configurator, TLAPS, WellFoundedInduction, SequenceTheorems

-----------------------------------------------------------------------------
(* Recursive functions                                                     *)

\* A set of numbers that is not empty has a least one: the well-foundedness of
\* < as a fact about sets.
LEMMA LeastNumber ==
    ASSUME NEW T, T \subseteq Nat, T # {}
    PROVE  \E x \in T : \A y \in T : x <= y
<1> DEFINE R == {p \in Nat \X Nat : p[1] < p[2]}
<1>1. IsWellFoundedOn(R, Nat)
  BY NatLessThanWellFounded DEF OpToRel
<1>2. PICK x \in T : \A y \in T : ~ (<<y, x>> \in R)
  <2> HIDE DEF R
  <2> QED BY <1>1, WFMin
<1>3. ASSUME NEW y \in T PROVE x <= y
  <2>1. <<y, x>> \in Nat \X Nat /\ <<y, x>>[1] = y /\ <<y, x>>[2] = x
    OBVIOUS
  <2>2. ~(y < x)
    BY <1>2, <2>1
  <2> QED BY <2>2
<1> QED BY <1>3

\* Induction over the numbers with a set in the place of a predicate, the form
\* in which the lemmas below use it.
LEMMA Induction ==
    ASSUME NEW T, T \subseteq Nat, 0 \in T, \A n \in T : n + 1 \in T
    PROVE  \A n \in Nat : n \in T
<1> SUFFICES ASSUME NEW m \in Nat, m \notin T PROVE FALSE
  OBVIOUS
<1> DEFINE U == Nat \ T
<1>1. U \subseteq Nat /\ U # {}
  OBVIOUS
<1>2. PICK x \in U : \A y \in U : x <= y
  <2> HIDE DEF U
  <2> QED BY <1>1, LeastNumber
<1>3. x \in Nat /\ x # 0 
  OBVIOUS
<1>4. x - 1 \in Nat /\ x - 1 \notin U /\ (x - 1) + 1 = x
  BY <1>2, <1>3
<1> QED BY <1>4

\* The first n values of an iteration: functions on 0..n that start with d0 and
\* take every step.
Runs(D, d0, step, n) ==
    {g \in [0..n -> D] : g[0] = d0 /\ \A i \in 0..n : i < n => g[i + 1] = step[i][g[i]]}

\* f is the whole iteration of step from d0.
Iterates(f, d0, step) ==
    f[0] = d0 /\ \A n \in Nat : f[n + 1] = step[n][f[n]]

\* Every iteration exists. The loops of the model (Listed, Visits) are
\* recursive functions over the numbers, which only mean something when such a
\* function exists.
LEMMA Recursion ==
    ASSUME NEW D, NEW d0 \in D, NEW step \in [Nat -> [D -> D]]
    PROVE  \E f \in [Nat -> D] : Iterates(f, d0, step)
<1> DEFINE R(n) == Runs(D, d0, step, n)
<1>1. ASSUME NEW n \in Nat PROVE \E g : g \in R(n)
  <2> DEFINE T == {k \in Nat : \E g : g \in R(k)}
  <2>1. 0 \in T
    <3>1. [i \in 0..0 |-> d0] \in R(0)
      BY DEF Runs
    <3> QED BY <3>1
  <2>2. ASSUME NEW k \in Nat, NEW g, g \in R(k) PROVE \E h : h \in R(k + 1)
    <3> DEFINE h == [i \in 0..(k+1) |-> IF i <= k THEN g[i] ELSE step[k][g[k]]]
    <3>2. /\ g \in [0..k -> D] /\ g[0] = d0
          /\ \A i \in 0..k : i < k => g[i + 1] = step[i][g[i]]
      BY <2>2 DEF Runs
    <3>3. step[k][g[k]] \in D
      <4>1. g[k] \in D
        BY <3>2
      <4> QED BY <4>1
    <3>4. h \in [0..(k+1) -> D]
      BY <3>2, <3>3
    <3>5. h[0] = d0
      BY <3>2
    <3>6. ASSUME NEW i \in 0..(k+1), i < k + 1 PROVE h[i + 1] = step[i][h[i]]
      <4>1. h[i] = g[i]
        BY <3>6
      <4>2. CASE i = k
        BY <4>1, <4>2
      <4>3. CASE i < k
        BY <4>1, <4>3, <3>2
      <4> QED BY <4>2, <4>3, <3>6
    <3>7. h \in R(k + 1)
      BY <3>4, <3>5, <3>6 DEF Runs
    <3> QED BY <3>7
  <2>3. T \subseteq Nat /\ \A k \in T : k + 1 \in T
    BY <2>2
  <2> HIDE DEF T
  <2>4. n \in T
    BY <2>1, <2>2, <2>3, Induction
  <2> QED BY <2>4 DEF T
<1>2. ASSUME NEW n \in Nat, NEW m \in Nat, NEW g \in R(n), NEW h \in R(m),
             NEW i \in Nat, i <= n, i <= m
      PROVE  g[i] = h[i]
  <2> DEFINE T == {k \in Nat : k <= n /\ k <= m => g[k] = h[k]}
  <2>1. 0 \in T
    BY DEF Runs
  <2>2. ASSUME NEW k \in T PROVE k + 1 \in T
    <3> SUFFICES ASSUME k + 1 <= n, k + 1 <= m PROVE g[k + 1] = h[k + 1]
      OBVIOUS
    <3>1. k \in 0..n /\ k \in 0..m /\ k < n /\ k < m /\ g[k] = h[k]
      OBVIOUS
    <3> QED BY <3>1 DEF Runs
  <2>3. T \subseteq Nat
    OBVIOUS
  <2> HIDE DEF T
  <2>4. i \in T
    BY <2>1, <2>2, <2>3, Induction
  <2> QED BY <2>4, <1>2 DEF T
<1> DEFINE f == [n \in Nat |-> (CHOOSE g : g \in R(n))[n]]
<1>3. ASSUME NEW n \in Nat, NEW m \in Nat, m <= n, NEW g \in R(n) PROVE f[m] = g[m]
  <2>1. (CHOOSE h : h \in R(m)) \in R(m)
    BY <1>1
  <2>2. (CHOOSE h : h \in R(m))[m] = g[m]
    BY <2>1, <1>2, <1>3
  <2> QED BY <2>2
<1>4. ASSUME NEW n \in Nat PROVE f[n] \in D /\ f[n + 1] = step[n][f[n]]
  <2>1. PICK g : g \in R(n + 1)
    BY <1>1
  <2>2. f[n] = g[n] /\ f[n + 1] = g[n + 1]
    <3> HIDE DEF f
    <3> QED BY <1>3, <2>1
  <2>3. g[n + 1] = step[n][g[n]] /\ g[n] \in D
    BY <2>1 DEF Runs
  <2> QED BY <2>2, <2>3
<1>5. f[0] = d0
  <2>1. PICK g : g \in R(0)
    BY <1>1
  <2>2. f[0] = g[0]
    <3> HIDE DEF f
    <3> QED BY <1>3, <2>1
  <2> QED BY <2>1, <2>2 DEF Runs
<1>6. f \in [Nat -> D]
  BY <1>4
<1> HIDE DEF f
<1> QED BY <1>4, <1>5, <1>6 DEF Iterates

-----------------------------------------------------------------------------
(* Types: what the handlers of the Configurator are made of                *)

\* The services by name, and which of the named sets they contain.
LEMMA Services ==
    /\ Service = {"AmtEnableLast", "DBus", "EventManager", "First",
                  "HostChanges", "Last", "PortForwarding", "PowerOperations",
                  "StatusEventHandler", "TimeSync", "WaitingForPfwLast"}
    /\ Handler \subseteq Service /\ "EventManager" \in Service
    /\ CheckLoad \subseteq Service /\ DummyServicesToRemove \subseteq Service
    /\ Service \subseteq Components /\ CONF \in Components
    /\ CONF \notin Service
  BY DEF Service, ByName, Handler, CheckLoad, DummyServicesToRemove, Components, CONF

\* Every message of the program.
Messages == UNION {MessagesTo(d) : d \in Components}

\* The states of the process in which every queue holds only messages its owner
\* handles: TypeOK without running and env.
States ==
    {l \in Lms : \A dest \in Components : l.queue[dest] \in Seq(MessagesTo(dest))}

\* Who may be sent what.
LEMMA MessageSets ==
    /\ MessagesTo(CONF) = ConfMessages
    /\ MessagesTo("EventManager") = ManagerMessages
    /\ \A s \in Handler : MessagesTo(s) = HandlerMessages
    /\ \A s \in Service : Orders \subseteq MessagesTo(s)
    /\ \A dest \in Components : MessagesTo(dest) \subseteq Messages
<1>1. MessagesTo(CONF) = ConfMessages
  BY DEF MessagesTo, CONF, Handler
<1>2. MessagesTo("EventManager") = ManagerMessages
  BY DEF MessagesTo, CONF, Handler
<1>3. \A s \in Handler : MessagesTo(s) = HandlerMessages
  BY DEF MessagesTo, CONF, Handler
<1>4. \A s \in Service : Orders \subseteq MessagesTo(s)
  BY <1>2, <1>3, Services DEF MessagesTo, ManagerMessages, HandlerMessages
<1>5. \A dest \in Components : MessagesTo(dest) \subseteq Messages
  BY DEF Messages
<1> QED BY <1>1, <1>2, <1>3, <1>4, <1>5

\* Putting a queue and the notifications, a queue into a state.
LEMMA QueueChange ==
    ASSUME NEW l \in States, NEW dest \in Components,
           NEW q \in Seq(MessagesTo(dest)), NEW n \in Seq(Components)
    PROVE  [l EXCEPT !.queue[dest] = q, !.notify = n] \in States
<1>1. q \in Seq(Messages)
  BY MessageSets
<1>2. [l EXCEPT !.queue[dest] = q, !.notify = n] \in Lms
  BY <1>1 DEF States, Lms, Messages
<1> QED BY <1>2, ZenonT(30) DEF States, Lms

\* A service of the repository changes its state.
LEMMA RepositoryChange ==
    ASSUME NEW l \in States, NEW s \in Components,
           NEW r \in {"absent", "active", "closed", "suspended"}
    PROVE  [l EXCEPT !.repository[s] = r] \in States
  BY DEF States, Lms

\* putq keeps the types if the receiver handles the message.
LEMMA PutQSound ==
    ASSUME NEW l \in States, NEW dest \in Components, NEW m \in MessagesTo(dest)
    PROVE  PutQ(l, dest, m) \in States
<1>1. /\ Append(l.queue[dest], m) \in Seq(MessagesTo(dest))
      /\ Append(l.notify, dest) \in Seq(Components)
  BY DEF States, Lms
<1> QED BY <1>1, QueueChange DEF PutQ

\* So does SendMessage, which may lose it.
LEMMA SendMessageSound ==
    ASSUME NEW l \in States, NEW dest \in Components, NEW m \in MessagesTo(dest)
    PROVE  SendMessage(l, dest, m) \in States
  BY PutQSound DEF SendMessage

\* And the end of a task.
LEMMA TaskCompletedSound ==
    ASSUME NEW l \in States
    PROVE  TaskCompleted(l) \in States
<1>1. Completed \in MessagesTo(CONF)
  BY MessageSets DEF ConfMessages
<1> QED BY <1>1, PutQSound, Services DEF TaskCompleted

\* The answers of the world, in any environment.
Worlds == [off : SUBSET CheckLoad, bad : SUBSET Service, scan : {"ok", "error", "noMei"}]

\* What an operation on a service returns.
Results == [l : States, ok : BOOLEAN]

\* A service that is started subscribes or reports, in messages the event
\* manager and the Configurator handle.
LEMMA StartInRepositorySound ==
    ASSUME NEW l \in States, NEW w \in Worlds, NEW s \in Service
    PROVE  StartInRepository(l, w, s) \in Results
<1> DEFINE up == [l EXCEPT !.repository[s] = "active"]
<1>1. up \in States
  BY RepositoryChange, Services
<1>2. s \in Handler => From("SUBSCRIBE", s) \in MessagesTo("EventManager")
  BY MessageSets DEF ManagerMessages
<1>3. Status(s, "load") \in MessagesTo(CONF)
  BY MessageSets DEF ConfMessages, Op
<1> HIDE DEF up
<1>4. s \in Handler => SendMessage(up, "EventManager", From("SUBSCRIBE", s)) \in States
  BY <1>1, <1>2, SendMessageSound, Services
<1>5. SendMessage(up, CONF, Status(s, "load")) \in States
  BY <1>1, <1>3, SendMessageSound, Services
<1> QED BY <1>4, <1>5 DEF StartInRepository, Results, up

\* StartAceService, which may not start the service at all.
LEMMA StartAceServiceSound ==
    ASSUME NEW l \in States, NEW w \in Worlds, NEW s \in Service
    PROVE  StartAceService(l, w, s) \in Results
<1>1. NotLoaded(l, s) \in States
  BY DEF States, Lms, NotLoaded
<1>2. [NotLoaded(l, s) EXCEPT !.waitPfw = @ \cup {s}] \in States
  BY DEF States, Lms, NotLoaded
<1> QED BY <1>1, <1>2, StartInRepositorySound DEF StartAceService, Results

\* The removal of a service with its queue.
LEMMA RemovedSound ==
    ASSUME NEW l \in States, NEW s \in Service, NEW h \in SUBSET Handler
    PROVE  [l EXCEPT !.repository[s] = "absent", !.queue[s] = <<>>,
                     !.handlers = h,
                     !.loaded = @ \ {s}, !.active = @ \ {s},
                     !.locked = @ \ {s}] \in States
<1>1. <<>> \in Seq(MessagesTo(s)) /\ <<>> \in Seq(Messages)
  OBVIOUS
<1> DEFINE m == [l EXCEPT !.repository[s] = "absent", !.queue[s] = <<>>,
                     !.handlers = h,
                     !.loaded = @ \ {s}, !.active = @ \ {s},
                     !.locked = @ \ {s}]
<1>2. m.queue = [l.queue EXCEPT ![s] = <<>>]
  BY DEF States, Lms
<1>3. m.queue \in [Components -> Seq(Messages)]
  BY <1>1, <1>2, Services DEF States, Lms, Messages
<1>4. \A dest \in Components : m.queue[dest] \in Seq(MessagesTo(dest))
  BY <1>1, <1>2, Services DEF States, Lms, Messages
<1>5. m.repository \in [Components -> {"absent", "active", "closed", "suspended"}]
  BY Services DEF States, Lms
<1>6. m \in Lms
  BY <1>3, <1>5 DEF States, Lms, Messages
<1> QED BY <1>4, <1>6 DEF States

\* FiniAceService, which may also end the process.
LEMMA FiniSound ==
    ASSUME NEW l \in States, NEW s \in Service
    PROVE  FiniAceService(l, s) \in States
<1> DEFINE h == IF s = "EventManager" THEN {} ELSE l.handlers
           m == [l EXCEPT !.repository[s] = "absent", !.queue[s] = <<>>,
                     !.handlers = h,
                     !.loaded = @ \ {s}, !.active = @ \ {s},
                     !.locked = @ \ {s}]
<1>1. h \in SUBSET Handler
  BY DEF States, Lms
<1>2. m \in States
  <2> HIDE DEF h
  <2> QED BY <1>1, RemovedSound
<1>3. m = [l EXCEPT !.repository[s] = "absent", !.queue[s] = <<>>,
                     !.handlers = IF s = "EventManager" THEN {} ELSE @,
                     !.loaded = @ \ {s}, !.active = @ \ {s},
                     !.locked = @ \ {s}]
  OBVIOUS
<1> HIDE DEF m
<1>4. [m EXCEPT !.toLoad = {}, !.ended = @ \/ m.needToStop] \in States
  <2> DEFINE e == m.ended \/ m.needToStop
  <2>1. e \in BOOLEAN
    BY <1>2 DEF States, Lms
  <2> HIDE DEF e
  <2>2. [m EXCEPT !.toLoad = {}, !.ended = e] \in States
    BY <1>2, <2>1 DEF States, Lms
  <2> QED BY <2>2 DEF e
<1> QED BY <1>2, <1>3, <1>4 DEF FiniAceService

\* Each of the four operations on a service returns a state and a result.
LEMMA DoOperationSound ==
    ASSUME NEW l \in States, NEW w \in Worlds, NEW s \in Service, NEW op \in Op
    PROVE  DoOperation(l, w, s, op) \in Results
<1>1. StopAceService(l, s) \in Results
  <2>1. Task("STOP_SERVICE") \in MessagesTo(s)
    BY MessageSets DEF Orders
  <2>2. SendMessage(l, s, Task("STOP_SERVICE")) \in States
    BY <2>1, SendMessageSound, Services
  <2> QED BY <2>2, FiniSound DEF StopAceService, Results, Reachable
<1>2. SuspendAceService(l, s) \in Results
  <2>1. Task("SUSPEND_SERVICE") \in MessagesTo(s)
    BY MessageSets DEF Orders
  <2>2. SendMessage(l, s, Task("SUSPEND_SERVICE")) \in States
    BY <2>1, SendMessageSound, Services
  <2> QED BY <2>2 DEF SuspendAceService, Results, Reachable
<1>3. ResumeAceService(l, s) \in Results
  <2>1. [l EXCEPT !.repository[s] = "active"] \in States
    BY RepositoryChange, Services
  <2>2. Status(s, "resume") \in MessagesTo(CONF)
    BY MessageSets DEF ConfMessages, Op
  <2> QED BY <2>1, <2>2, SendMessageSound, Services DEF ResumeAceService, Results
<1> QED BY <1>1, <1>2, <1>3, StartAceServiceSound DEF DoOperation, Op

\* f[n] lists the members of S among the first n of an order.
Picks(f, order, S) ==
    /\ f[0] = <<>>
    /\ \A n \in Nat : f[n + 1] = IF order[n + 1] \in S
                                 THEN Append(f[n], order[n + 1])
                                 ELSE f[n]

\* What Listed does, at every n.
LEMMA ListedSteps ==
    ASSUME NEW order, NEW S
    PROVE  \E f \in [Nat -> Seq(S)] :
              Picks(f, order, S) /\ Listed(order, S) = f[Len(order)]
<1> DEFINE step == [n \in Nat |-> [q \in Seq(S) |->
                         IF order[n + 1] \in S THEN Append(q, order[n + 1]) ELSE q]]
           Eq(g) == g = [n \in Nat |-> IF n = 0 THEN <<>>
                            ELSE IF order[n] \in S THEN Append(g[n - 1], order[n])
                                                   ELSE g[n - 1]]
           g == CHOOSE g : Eq(g)
<1>1. step \in [Nat -> [Seq(S) -> Seq(S)]]
  OBVIOUS
<1>2. PICK f \in [Nat -> Seq(S)] : Iterates(f, <<>>, step)
  <2>1. <<>> \in Seq(S)
    OBVIOUS
  <2> HIDE DEF step
  <2> QED BY <1>1, <2>1, Recursion
<1>3. ASSUME NEW n \in Nat, n # 0
      PROVE  f[n] = IF order[n] \in S THEN Append(f[n - 1], order[n]) ELSE f[n - 1]
  <2>1. n - 1 \in Nat /\ (n - 1) + 1 = n /\ f[n - 1] \in Seq(S)
    BY <1>3
  <2>2. f[n] = step[n - 1][f[n - 1]]
    BY <1>2, <2>1 DEF Iterates
  <2> QED BY <2>1, <2>2
<1>4. Eq(f)
  BY <1>2, <1>3 DEF Iterates
<1>5. Eq(g)
  BY <1>4
<1>6. Listed(order, S) = g[Len(order)]
  BY DEF Listed
<1> HIDE DEF g
<1>7. g[0] = <<>>
  BY <1>5
<1>8. ASSUME NEW n \in Nat
      PROVE  g[n + 1] = IF order[n + 1] \in S THEN Append(g[n], order[n + 1]) ELSE g[n]
  <2>1. n + 1 \in Nat /\ n + 1 # 0 /\ (n + 1) - 1 = n
    OBVIOUS
  <2> QED BY <1>5, <2>1
<1>9. g \in [Nat -> Seq(S)]
  <2> DEFINE T == {n \in Nat : g[n] \in Seq(S)}
  <2>1. T \subseteq Nat /\ 0 \in T
    <3>1. g[0] \in Seq(S)
      BY <1>7
    <3> QED BY <3>1
  <2>2. ASSUME NEW n \in T PROVE n + 1 \in T
    <3>1. n \in Nat /\ g[n] \in Seq(S)
      OBVIOUS
    <3>2. g[n + 1] \in Seq(S)
      <4>1. CASE order[n + 1] \in S
        <5>1. Append(g[n], order[n + 1]) \in Seq(S)
          BY <3>1, <4>1
        <5> QED BY <3>1, <4>1, <5>1, <1>8
      <4>2. CASE order[n + 1] \notin S
        BY <3>1, <4>2, <1>8
      <4> QED BY <4>1, <4>2
    <3> QED BY <3>1, <3>2
  <2> HIDE DEF T
  <2>3. \A n \in Nat : n \in T
    BY <2>1, <2>2, Induction
  <2> QED BY <1>5, <2>3 DEF T
<1>10. Picks(g, order, S)
  BY <1>7, <1>8 DEF Picks
<1> QED BY <1>6, <1>9, <1>10

\* What is in a queue.
Items(q) == {q[i] : i \in DOMAIN q}

\* What an appended item adds.
LEMMA ItemsAppend ==
    ASSUME NEW S, NEW q \in Seq(S), NEW x \in S
    PROVE  Items(Append(q, x)) = Items(q) \cup {x}
<1>1. /\ DOMAIN Append(q, x) = 1..(Len(q) + 1) /\ DOMAIN q = 1..Len(q)
      /\ Append(q, x)[Len(q) + 1] = x /\ \A i \in 1..Len(q) : Append(q, x)[i] = q[i]
      /\ Len(q) \in Nat
  OBVIOUS
<1>2. 1..(Len(q) + 1) = 1..Len(q) \cup {Len(q) + 1}
  BY <1>1
<1> QED BY <1>1, <1>2 DEF Items

\* Listed(order, S) lists the members of S that are in the order.
LEMMA ListedItems ==
    ASSUME NEW S, NEW order \in Seq(Service)
    PROVE  /\ Listed(order, S) \in Seq(S)
           /\ Items(Listed(order, S)) = Items(order) \cap S
<1>1. PICK f \in [Nat -> Seq(S)] :
              Picks(f, order, S) /\ Listed(order, S) = f[Len(order)]
  BY ListedSteps
<1> DEFINE T == {n \in Nat : Items(f[n]) = {order[i] : i \in 1..n} \cap S}
<1>2. T \subseteq Nat /\ 0 \in T
  <2>1. Items(f[0]) = {}
    BY <1>1 DEF Items, Picks
  <2>2. {order[i] : i \in 1..0} = {}
    OBVIOUS
  <2> QED BY <2>1, <2>2
<1>3. ASSUME NEW n \in Nat, Items(f[n]) = {order[i] : i \in 1..n} \cap S
      PROVE  Items(f[n + 1]) = {order[i] : i \in 1..(n + 1)} \cap S
  <2>1. {order[i] : i \in 1..(n + 1)} = {order[i] : i \in 1..n} \cup {order[n + 1]}
    <3>1. 1..(n + 1) = 1..n \cup {n + 1}
      BY SMTT(30)
    <3> QED BY <3>1
  <2>2. f[n] \in Seq(S)
    OBVIOUS
  <2>3. CASE order[n + 1] \in S
    <3>1. Items(Append(f[n], order[n + 1])) = Items(f[n]) \cup {order[n + 1]}
      BY <2>2, <2>3, ItemsAppend, SMTT(30)
    <3> QED BY <1>1, <1>3, <2>1, <2>3, <3>1 DEF Picks
  <2>4. CASE order[n + 1] \notin S
    BY <1>1, <1>3, <2>1, <2>4 DEF Picks
  <2> QED BY <2>3, <2>4
<1>4. \A n \in T : n + 1 \in T
  <2> SUFFICES ASSUME NEW n \in T PROVE n + 1 \in T
    OBVIOUS
  <2>1. n \in Nat /\ Items(f[n]) = {order[i] : i \in 1..n} \cap S
    OBVIOUS
  <2>2. n + 1 \in Nat
    BY <2>1
  <2>3. Items(f[n + 1]) = {order[i] : i \in 1..(n + 1)} \cap S
    BY <1>3, <2>1, Zenon
  <2> QED BY <2>2, <2>3
<1> HIDE DEF T
<1>5. \A n \in Nat : n \in T
  BY <1>2, <1>4, Induction
<1>6. Items(order) = {order[i] : i \in 1..Len(order)} /\ Len(order) \in Nat
  BY DEF Items
<1> QED BY <1>1, <1>5, <1>6 DEF T

\* The two orders of the services and what they contain: the dependency lists
\* do not know HostChanges.
LEMMA Orderings ==
    /\ ByName \in Seq(Service) /\ Items(ByName) = Service
    /\ ByMountOrder \in Seq(Service) /\ Items(ByMountOrder) = Service \ {"HostChanges"}
    /\ DOMAIN MountOrder = Items(ByMountOrder)
  BY DEF ByName, Service, Items, ByMountOrder, MountOrder

\* InOrder(S) lists S and nothing else.
LEMMA InOrderItems ==
    ASSUME NEW S \in SUBSET Service
    PROVE  InOrder(S) \in Seq(S) /\ Items(InOrder(S)) = S
<1>1. Listed(ByName, S) \in Seq(S) /\ Items(Listed(ByName, S)) = Items(ByName) \cap S
  BY ListedItems, Orderings
<1> QED BY <1>1, Orderings DEF InOrder

\* The results of a batch command.
Ret == {"NOTHING_TO_DO", "SUCCESS", "FAILURE"}

\* A batch command that is under way.
Batches == [l : States, list : Seq(Service), ret : Ret, seen : SUBSET Service]

\* LockService and UnlockService.
LEMMA LockSound ==
    ASSUME NEW l \in States, NEW S \in SUBSET Service
    PROVE  [l EXCEPT !.locked = S] \in States
  BY DEF States, Lms

\* The lists of AsyncActivationManager.
LEMMA WaitSound ==
    ASSUME NEW l \in States, NEW S \in SUBSET Service, NEW op \in Op
    PROVE  [l EXCEPT !.waiting[op] = S] \in States
  BY DEF States, Lms

\* The sets of services in a state.
LEMMA StateSets ==
    ASSUME NEW l \in States
    PROVE  /\ l.loaded \in SUBSET Service /\ l.active \in SUBSET Service
           /\ l.locked \in SUBSET Service /\ l.toLoad \in SUBSET Service
           /\ l.waitPfw \in SUBSET Service
           /\ \A op \in Op : l.waiting[op] \in SUBSET Service
  BY DEF States, Lms

\* GetPrerequisites lists the prerequisites, which are services.
LEMMA PrerequisitesItems ==
    ASSUME NEW l \in States, NEW s, NEW op
    PROVE  /\ Prerequisites(l, s, op) \in SUBSET Service
           /\ GetPrerequisites(l, s, op) \in Seq(Service)
           /\ Items(GetPrerequisites(l, s, op)) = Prerequisites(l, s, op)
<1> DEFINE P == Prerequisites(l, s, op)
<1>1. P \subseteq l.toLoad /\ P \subseteq DOMAIN MountOrder
  BY DEF Prerequisites, Before
<1>2. P \in SUBSET Service /\ Seq(P) \subseteq Seq(Service)
  BY <1>1, StateSets
<1>3. /\ Listed(ByMountOrder, P) \in Seq(P)
      /\ Items(Listed(ByMountOrder, P)) = Items(ByMountOrder) \cap P
  BY ListedItems, Orderings
<1> QED BY <1>1, <1>2, <1>3, Orderings DEF GetPrerequisites

\* A visit of a batch command leads from a batch to a batch: whatever it does
\* to the service at the head of the list.
LEMMA VisitSound ==
    ASSUME NEW b \in Batches, b.list # <<>>, NEW w \in Worlds, NEW op \in Op
    PROVE  Visit(b, w, op) \in Batches
<1> DEFINE l == b.l
           s == Head(b.list)
           left == Tail(b.list)
           todo == IF b.ret = "FAILURE" THEN "FAILURE" ELSE "SUCCESS"
           done == s \in l.locked \/ DoneCriteria(l, s, op)
           r == DoOperation([l EXCEPT !.locked = @ \cup {s}], w, s, op)
<1>1. /\ l \in States /\ s \in Service /\ left \in Seq(Service) /\ todo \in Ret
      /\ b.seen \in SUBSET Service /\ b.seen \cup {s} \in SUBSET Service
  BY DEF Batches, Ret
<1> HIDE DEF l, s, left, todo
<1>2. [l EXCEPT !.locked = @ \cup {s}] \in States
  BY <1>1, LockSound, StateSets
<1>3. r \in Results
  BY <1>1, <1>2, DoOperationSound
<1> HIDE DEF r, done
<1>4. [r.l EXCEPT !.locked = @ \ {s}] \in States /\ r.l \in States /\ r.ok \in BOOLEAN
  <2>1. r.l \in States /\ r.ok \in BOOLEAN
    BY <1>3 DEF Results
  <2> QED BY <2>1, LockSound, StateSets
<1>5. [l EXCEPT !.waiting[op] = @ \cup {s}] \in States
  BY <1>1, WaitSound, StateSets
<1>6. GetPrerequisites(l, s, op) \o left \in Seq(Service)
  BY <1>1, PrerequisitesItems
<1>7. /\ [b EXCEPT !.list = left] \in Batches
      /\ [b EXCEPT !.list = left, !.ret = todo] \in Batches
  BY <1>1 DEF Batches
<1>8. [l    |-> IF r.ok THEN r.l ELSE [r.l EXCEPT !.locked = @ \ {s}],
       list |-> left,
       ret  |-> IF r.ok THEN todo ELSE "FAILURE",
       seen |-> IF r.ok THEN {} ELSE b.seen] \in Batches
  BY <1>1, <1>4 DEF Batches, Ret
<1>9. [l    |-> [l EXCEPT !.waiting[op] = @ \cup {s}],
       list |-> GetPrerequisites(l, s, op) \o left,
       ret  |-> todo,
       seen |-> b.seen \cup {s}] \in Batches
  BY <1>1, <1>5, <1>6 DEF Batches
<1> QED BY <1>7, <1>8, <1>9 DEF Visit, l, s, left, todo, r, done

\* One iteration of the loop, and what the loop does at every n.
Iteration(b, w, op) == IF b.list = <<>> THEN b ELSE Visit(b, w, op)

\* The loop of the batch command takes one visit after the other, until nothing
\* is left.
LEMMA VisitsSteps ==
    ASSUME NEW start \in Batches, NEW w \in Worlds, NEW op \in Op
    PROVE  /\ Visits(start, w, op)[0] = start
           /\ \A n \in Nat :
                 Visits(start, w, op)[n + 1] = Iteration(Visits(start, w, op)[n], w, op)
<1> DEFINE step == [n \in Nat |-> [b \in Batches |-> Iteration(b, w, op)]]
           Eq(g) == g = [n \in Nat |-> IF n = 0 THEN start
                            ELSE IF g[n - 1].list
                               = <<>> THEN g[n - 1] ELSE Visit(g[n - 1], w, op)]
           g == CHOOSE g : Eq(g)
<1>1. step \in [Nat -> [Batches -> Batches]]
  BY VisitSound DEF Iteration
<1>2. PICK f \in [Nat -> Batches] : Iterates(f, start, step)
  <2> HIDE DEF step
  <2> QED BY <1>1, Recursion
<1>3. ASSUME NEW n \in Nat, n # 0
      PROVE  f[n] = IF f[n - 1].list = <<>> THEN f[n - 1] ELSE Visit(f[n - 1], w, op)
  <2>1. n - 1 \in Nat /\ (n - 1) + 1 = n /\ f[n - 1] \in Batches
    BY <1>3
  <2>2. f[n] = step[n - 1][f[n - 1]]
    BY <1>2, <2>1 DEF Iterates
  <2> QED BY <2>1, <2>2 DEF Iteration
<1>4. Eq(f)
  BY <1>2, <1>3 DEF Iterates
<1>5. Eq(g)
  BY <1>4
<1>6. Visits(start, w, op) = g
  BY DEF Visits
<1> HIDE DEF g
<1>7. g[0] = start
  BY <1>5
<1>8. ASSUME NEW n \in Nat PROVE g[n + 1] = Iteration(g[n], w, op)
  <2>1. n + 1 \in Nat /\ n + 1 # 0 /\ (n + 1) - 1 = n
    OBVIOUS
  <2> QED BY <1>5, <2>1 DEF Iteration
<1> QED BY <1>6, <1>7, <1>8

\* A batch command that begins.
BatchOf(l, list) == [l |-> l, list |-> list, ret |-> "NOTHING_TO_DO", seen |-> {}]

\* The loop rule.
LEMMA EveryServiceVisited ==
    MaxVisits \in Nat /\ MaxVisits >= 11
<1>1. Len(ByName) = 11
  BY DEF ByName
<1> QED BY <1>1, ConfiguratorConstants

\* The rule for a batch command: what holds after the first visit and is kept
\* by every visit holds when the command returns. There is always a first
\* visit, since MaxVisits is not zero.
LEMMA ExecuteRule ==
    ASSUME NEW l \in States, NEW list \in Seq(Service), NEW w \in Worlds, NEW op \in Op,
           NEW I, I \subseteq Batches,
           Iteration(BatchOf(l, list), w, op) \in I,
           \A b \in I : b.list # <<>> => Visit(b, w, op) \in I
    PROVE  Execute(l, w, list, op) \in I
<1> DEFINE start == BatchOf(l, list)
           f == Visits(start, w, op)
           T == {n \in Nat : f[n + 1] \in I}
<1>1. start \in Batches
  BY DEF Batches, BatchOf, Ret
<1>2. f[0] = start /\ \A n \in Nat : f[n + 1] = Iteration(f[n], w, op)
  <2> HIDE DEF start
  <2> QED BY <1>1, VisitsSteps
<1>3. Execute(l, w, list, op) = f[MaxVisits]
  BY DEF Execute, BatchOf
<1> HIDE DEF start, f
<1>4. T \subseteq Nat /\ 0 \in T
  <2>1. f[0 + 1] = Iteration(start, w, op)
    BY <1>2
  <2> QED BY <2>1 DEF start
<1>5. ASSUME NEW n \in T PROVE n + 1 \in T
  <2>1. n \in Nat /\ n + 1 \in Nat /\ f[n + 1] \in I
    OBVIOUS
  <2>2. f[(n + 1) + 1] = Iteration(f[n + 1], w, op)
    BY <1>2, <2>1
  <2>3. Iteration(f[n + 1], w, op) \in I
    BY <2>1 DEF Iteration
  <2> QED BY <2>1, <2>2, <2>3
<1> HIDE DEF T
<1>6. \A n \in Nat : n \in T
  BY <1>4, <1>5, Induction
<1>7. MaxVisits - 1 \in Nat /\ (MaxVisits - 1) + 1 = MaxVisits
  BY EveryServiceVisited
<1> QED BY <1>3, <1>6, <1>7 DEF T

\* A batch command keeps the types, with the end of the task when it has not
\* succeeded.
LEMMA ExecuteSound ==
    ASSUME NEW l \in States, NEW list \in Seq(Service), NEW w \in Worlds, NEW op \in Op
    PROVE  /\ Execute(l, w, list, op) \in Batches
           /\ ExecuteOrComplete(l, w, list, op) \in States
<1>1. BatchOf(l, list) \in Batches
  BY DEF Batches, BatchOf, Ret
<1>2. Iteration(BatchOf(l, list), w, op) \in Batches
  BY <1>1, VisitSound DEF Iteration
<1>3. Execute(l, w, list, op) \in Batches
  BY <1>2, VisitSound, ExecuteRule
<1>4. Execute(l, w, list, op).l \in States
  BY <1>3 DEF Batches
<1> QED BY <1>3, <1>4, TaskCompletedSound DEF ExecuteOrComplete, CompletedUnless

\* What a batch leaves alone.
Frame(l, m) ==
    /\ m.toLoad \subseteq l.toLoad
    /\ m.inProcess = l.inProcess /\ m.onToggle = l.onToggle
    /\ m.toggled = l.toggled /\ m.nextTasks = l.nextTasks
    /\ m.needToStop = l.needToStop /\ m.pfwStarted = l.pfwStarted
    /\ m.scans = l.scans /\ m.scanTimer = l.scanTimer
    /\ m.deferred = l.deferred /\ m.asleep = l.asleep

\* Messages touch queues only.
LEMMA PutQFrame ==
    ASSUME NEW l \in States, NEW dest, NEW m
    PROVE  Frame(l, PutQ(l, dest, m)) /\ Frame(l, SendMessage(l, dest, m))
  BY DEF Frame, PutQ, SendMessage, States, Lms

\* Starting a service may take it off the services to be loaded, and leaves the
\* task alone.
LEMMA StartFrame ==
    ASSUME NEW l \in States, NEW w, NEW s
    PROVE  Frame(l, StartAceService(l, w, s).l)
<1> DEFINE up == [l EXCEPT !.repository[s] = "active"]
<1>1. /\ Frame(l, up) /\ Frame(l, NotLoaded(l, s))
      /\ Frame(l, [NotLoaded(l, s) EXCEPT !.waitPfw = @ \cup {s}]) /\ Frame(l, l)
  BY DEF Frame, NotLoaded, States, Lms
<1>2. \A dest, m : Frame(l, SendMessage(up, dest, m))
  BY DEF Frame, PutQ, SendMessage, States, Lms
<1> HIDE DEF up
<1>3. Frame(l, StartInRepository(l, w, s).l)
  BY <1>1, <1>2 DEF StartInRepository, up
<1> QED BY <1>1, <1>3 DEF StartAceService

\* Removing one leaves the task alone.
LEMMA FiniFrame ==
    ASSUME NEW l \in States, NEW s
    PROVE  Frame(l, FiniAceService(l, s))
  BY DEF FiniAceService, States, Lms, Frame

\* So does resuming one.
LEMMA ResumeFrame ==
    ASSUME NEW l \in States, NEW s
    PROVE  Frame(l, ResumeAceService(l, s).l)
<1>1. \A dest, m : Frame(l, SendMessage([l EXCEPT !.repository[s] = "active"], dest, m))
  BY DEF Frame, PutQ, SendMessage, States, Lms
<1>2. Frame(l, l)
  BY DEF Frame
<1> QED BY <1>1, <1>2 DEF ResumeAceService

\* And every operation.
LEMMA DoOperationFrame ==
    ASSUME NEW l \in States, NEW w, NEW s, NEW op \in Op
    PROVE  Frame(l, DoOperation(l, w, s, op).l)
<1>1. Frame(l, l)
  BY DEF Frame
<1>2. Frame(l, StopAceService(l, s).l)
  BY <1>1, PutQFrame, FiniFrame DEF StopAceService
<1>3. Frame(l, SuspendAceService(l, s).l)
  BY <1>1, PutQFrame DEF SuspendAceService
<1> QED BY <1>2, <1>3, StartFrame, ResumeFrame DEF DoOperation, Op

\* Two operations in a row.
LEMMA FrameTransitive ==
    ASSUME NEW l, NEW m, NEW n, Frame(l, m), Frame(m, n)
    PROVE  Frame(l, n)
  BY DEF Frame

\* A visit does not touch the task.
LEMMA VisitFrame ==
    ASSUME NEW b \in Batches, b.list # <<>>, NEW w \in Worlds, NEW op \in Op
    PROVE  Frame(b.l, Visit(b, w, op).l)
<1> DEFINE l == b.l
           s == Head(b.list)
           k == [l EXCEPT !.locked = @ \cup {s}]
           r == DoOperation(k, w, s, op)
<1>1. l \in States /\ s \in Service
  BY DEF Batches
<1> HIDE DEF l, s
<1>2. k \in States /\ Frame(l, k)
  <2>1. k \in States
    BY <1>1, LockSound, StateSets
  <2> QED BY <1>1, <2>1 DEF Frame, States, Lms
<1> HIDE DEF k
<1>3. Frame(l, r.l) /\ r \in Results
  BY <1>1, <1>2, DoOperationFrame, DoOperationSound, FrameTransitive
<1> HIDE DEF r
<1>4. Frame(l, [r.l EXCEPT !.locked = @ \ {s}])
  BY <1>3 DEF Frame, Results, States, Lms
<1>5. Frame(l, [l EXCEPT !.waiting[op] = @ \cup {s}]) /\ Frame(l, l)
  BY <1>1 DEF Frame, States, Lms
<1>6. /\ [b EXCEPT !.list = Tail(b.list)].l = l
      /\ \A t : [b EXCEPT !.list = Tail(b.list), !.ret = t].l = l
  BY DEF Batches, l
<1>7. Visit(b, w, op).l
         \in {l, r.l, [r.l EXCEPT !.locked = @ \ {s}], [l EXCEPT !.waiting[op] = @ \cup {s}]}
  BY <1>6 DEF Visit, l, s, r, k
<1> QED BY <1>3, <1>4, <1>5, <1>7 DEF l

\* A batch command does not touch the task, the timers or the lists of tasks:
\* what ExecuteTask decided still holds when it returns.
LEMMA ExecuteFrame ==
    ASSUME NEW l \in States, NEW list \in Seq(Service), NEW w \in Worlds, NEW op \in Op
    PROVE  /\ Frame(l, Execute(l, w, list, op).l)
           /\ Frame(l, ExecuteOrComplete(l, w, list, op))
<1> DEFINE start == BatchOf(l, list)
           I == {b \in Batches : Frame(l, b.l)}
<1>1. start \in I
  BY DEF Batches, BatchOf, Ret, Frame
<1>2. ASSUME NEW b \in I, b.list # <<>> PROVE Visit(b, w, op) \in I
  BY <1>2, VisitFrame, VisitSound, FrameTransitive
<1>3. Iteration(start, w, op) \in I
  <2> HIDE DEF start, I
  <2> QED BY <1>1, <1>2 DEF Iteration
<1>4. I \subseteq Batches
  OBVIOUS
<1>5. Execute(l, w, list, op) \in I
  <2> HIDE DEF I
  <2> QED BY <1>2, <1>3, <1>4, ExecuteRule
<1>6. Execute(l, w, list, op).l \in States /\ Frame(l, Execute(l, w, list, op).l)
  BY <1>5 DEF Batches
<1> QED BY <1>6, PutQFrame, FrameTransitive DEF ExecuteOrComplete, CompletedUnless,
      TaskCompleted

-----------------------------------------------------------------------------
(* Types: the handlers and the steps                                       *)

\* The end of the task that follows a command without success.
LEMMA CompletedUnlessSound ==
    ASSUME NEW l \in States, NEW ok
    PROVE  CompletedUnless(ok, l) \in States
  BY TaskCompletedSound DEF CompletedUnless

\* StopAllServices keeps the types.
LEMMA StopAllServicesSound ==
    ASSUME NEW l \in States, NEW w \in Worlds, NEW stopMain \in BOOLEAN
    PROVE  StopAllServices(l, w, stopMain) \in States
<1> DEFINE m == [l EXCEPT !.needToStop = stopMain]
           e == m.ended \/ stopMain
<1>1. m \in States
  BY DEF States, Lms
<1> HIDE DEF m
<1>2. ExecuteOrComplete(m, w, InOrder(m.loaded), "unload") \in States
  <2>1. InOrder(m.loaded) \in Seq(Service)
    BY <1>1, StateSets, InOrderItems
  <2> QED BY <1>1, <2>1, ExecuteSound DEF Op
<1>3. e \in BOOLEAN
  BY <1>1 DEF States, Lms
<1> HIDE DEF e
<1>4. [m EXCEPT !.ended = e] \in States
  BY <1>1, <1>3 DEF States, Lms
<1>5. TaskCompleted([m EXCEPT !.ended = @ \/ stopMain]) \in States
  BY <1>4, TaskCompletedSound DEF e
<1> QED BY <1>2, <1>5 DEF StopAllServices, m

\* SuspendAllServices and ResumeAllServices keep them.
LEMMA AllServicesSound ==
    ASSUME NEW l \in States, NEW w \in Worlds, NEW op \in Op
    PROVE  SuspendResumeAllServices(l, w, op) \in States
<1>1. InOrder(l.loaded) \in Seq(Service)
  BY StateSets, InOrderItems
<1> QED BY <1>1, ExecuteSound DEF SuspendResumeAllServices

\* The services the scan selects are services, and so is the list it is
\* executed with.
LEMMA ScanGroupServices ==
    /\ ScanGroup \in SUBSET Service
    /\ InOrder(ScanGroup) \in Seq(Service)
<1>1. ScanGroup \in SUBSET Service
  <2> DEFINE base == {"First", "Last", "DBus", "StatusEventHandler",
                      "PortForwarding", "HostChanges"}
             all == base \cup IF Manageability
                              THEN {ManageabilityGroup[i] : i \in DOMAIN ManageabilityGroup}
                              ELSE {}
  <2>1. all \subseteq Service
    BY Services DEF ManageabilityGroup
  <2>2. \A s \in Service : AbsoluteDependencies[s] \subseteq Service
    BY Services DEF AbsoluteDependencies
  <2>3. ScanGroup = all \cup UNION {AbsoluteDependencies[s] : s \in all}
    BY DEF ScanGroup
  <2> HIDE DEF all
  <2> QED BY <2>1, <2>2, <2>3
<1> QED BY <1>1, InOrderItems

\* ScanConfiguration keeps the types, whatever the firmware answers.
LEMMA ScanConfigurationSound ==
    ASSUME NEW l \in States, NEW w \in Worlds
    PROVE  ScanConfiguration(l, w) \in States
<1>1. ASSUME NEW k \in States PROVE CancelTimers(k) \in States
  BY ZenonT(30) DEF States, Lms, CancelTimers
<1>2. CancelTimers(ExecuteOrComplete([l EXCEPT !.toLoad
         = ScanGroup], w, InOrder(ScanGroup), "load")) \in States
  <2>1. [l EXCEPT !.toLoad = ScanGroup] \in States
    BY ScanGroupServices DEF States, Lms
  <2>2. ExecuteOrComplete([l EXCEPT !.toLoad
           = ScanGroup], w, InOrder(ScanGroup), "load") \in States
    BY <2>1, ScanGroupServices, ExecuteSound DEF Op
  <2> QED BY <2>2, <1>1
<1>3. TaskCompleted(CancelTimers([l EXCEPT !.scans = 0])) \in States
  <2>1. [l EXCEPT !.scans = 0] \in States
    <3>1. 0 \in 0..NumRetries
      BY ConfiguratorConstants
    <3> QED BY <3>1 DEF States, Lms
  <2> QED BY <2>1, <1>1, TaskCompletedSound
<1>4. [l EXCEPT !.scanTimer = TRUE] \in States
  BY DEF States, Lms
<1> QED BY <1>2, <1>3, <1>4 DEF ScanConfiguration, Worlds

\* So does the loading of a list of services.
LEMMA LoadNowSound ==
    ASSUME NEW l \in States, NEW w \in Worlds, NEW list \in Seq(Service)
    PROVE  LoadNow(l, w, list) \in States
<1> DEFINE L == l.toLoad \cup {list[i] : i \in DOMAIN list}
<1>1. L \in SUBSET Service
  BY StateSets
<1> HIDE DEF L
<1>2. [l EXCEPT !.toLoad = L] \in States
  BY <1>1 DEF States, Lms
<1>3. ExecuteOrComplete([l EXCEPT !.toLoad = L], w, list, "load") \in States
  BY <1>2, ExecuteSound DEF Op
<1> QED BY <1>3 DEF LoadNow, L

\* A toggle of a service, in either direction.
LEMMA OnToggleServiceSound ==
    ASSUME NEW l \in States, NEW w \in Worlds, NEW s \in Service, NEW val \in BOOLEAN
    PROVE  OnToggleService(l, w, s, val) \in States
<1>1. <<s>> \in Seq(Service)
  OBVIOUS
<1>2. [l EXCEPT !.onToggle = TRUE, !.toLoad = @ \cup {s}] \in States
  BY StateSets DEF States, Lms
<1>3. [l EXCEPT !.onToggle = TRUE, !.toggled = s, !.toLoad = @ \ {s}] \in States
  BY StateSets DEF States, Lms
<1>4. ExecuteOrComplete([l EXCEPT !.onToggle = TRUE, !.toLoad
         = @ \cup {s}], w, <<s>>, "load") \in States
  BY <1>1, <1>2, ExecuteSound DEF Op
<1>5. ExecuteOrComplete([l EXCEPT !.onToggle = TRUE, !.toggled = s, !.toLoad
         = @ \ {s}], w, <<s>>, "unload") \in States
  BY <1>1, <1>3, ExecuteSound DEF Op
<1> QED BY <1>4, <1>5, TaskCompletedSound DEF OnToggleService

\* A change of the configuration.
LEMMA UpdateConfigurationSound ==
    ASSUME NEW l \in States, NEW w \in Worlds, NEW t \in ChangeTasks
    PROVE  UpdateConfiguration(l, w, t) \in States
<1>1. t.conf \in {"ME", "AMT", "TIME_SYNC", "PFW"} /\ t.value \in BOOLEAN
  BY DEF ChangeTasks, Change
<1>2. OnToggleService(l, w, "TimeSync", t.value) \in States
  BY <1>1, OnToggleServiceSound, Services
<1>3. LoadNow(l, w, Append(ManageabilityGroup, "AmtEnableLast")) \in States
  <2>1. Append(ManageabilityGroup, "AmtEnableLast") \in Seq(Service)
    BY Services DEF ManageabilityGroup
  <2> QED BY <2>1, LoadNowSound
<1>4. [LoadNow(l, w, Append(InOrder(l.waitPfw), "WaitingForPfwLast")) EXCEPT !.waitPfw
         = {}] \in States
  <2>1. InOrder(l.waitPfw) \in Seq(Service) /\ "WaitingForPfwLast" \in Service
    BY StateSets, InOrderItems, Services
  <2>2. Append(InOrder(l.waitPfw), "WaitingForPfwLast") \in Seq(Service)
    BY <2>1
  <2>3. LoadNow(l, w, Append(InOrder(l.waitPfw), "WaitingForPfwLast")) \in States
    BY <2>2, LoadNowSound
  <2> QED BY <2>3 DEF States, Lms
<1> QED BY <1>1, <1>2, <1>3, <1>4, TaskCompletedSound DEF UpdateConfiguration

\* What follows the status of a service.
LEMMA ContinueOrCompleteSound ==
    ASSUME NEW l \in States, NEW w \in Worlds, NEW op \in Op, NEW s, NEW marker
    PROVE  ContinueOrComplete(l, w, op, s, marker) \in States
<1> DEFINE ready == RefreshOnOperation(l, op)
<1>1. ready \in SUBSET Service
  BY StateSets DEF RefreshOnOperation
<1> HIDE DEF ready
<1>2. [l EXCEPT !.waiting[op] = @ \ ready] \in States
  BY WaitSound, StateSets
<1>3. ExecuteOrComplete([l EXCEPT !.waiting[op] = @ \ ready], w, InOrder(ready), op) \in States
  <2>1. InOrder(ready) \in Seq(Service)
    BY <1>1, InOrderItems
  <2> QED BY <1>2, <2>1, ExecuteSound
<1> QED BY <1>3, TaskCompletedSound DEF ContinueOrComplete, ready

\* ChangeServiceState keeps the types. The Configurator itself reports only a
\* resume.
LEMMA ServiceChangedSound ==
    ASSUME NEW l \in States, NEW w \in Worlds, NEW s \in Components, NEW op \in Op,
           s = CONF => op = "resume"
    PROVE  ChangeServiceState(l, w, s, op) \in States
<1>1. op = "unload" => ServiceChanged(l, w, s, op) \in States
  BY FiniSound, ContinueOrCompleteSound DEF ServiceChanged, Components
<1>2. op = "load" => ServiceChanged(l, w, s, op) \in States
  <2> HAVE op = "load"
  <2>1. s \in Service
    BY DEF Components
  <2>2. [l EXCEPT !.loaded = @ \cup {s}, !.active = @ \cup {s}, !.locked = @ \ {s}] \in States
    BY <2>1 DEF States, Lms
  <2> QED BY <2>2, ContinueOrCompleteSound DEF ServiceChanged
<1>3. op = "suspend" => ServiceChanged(l, w, s, op) \in States
  <2> HAVE op = "suspend"
  <2>1. s \in Components /\ CONF \in Components
    BY Services
  <2> DEFINE k == [l EXCEPT !.active = @ \ {s}, !.locked = @ \ {s}]
             r == IF k.repository[s] = "absent" THEN k.repository[s] ELSE "suspended"
             m == [k EXCEPT !.repository[s] = r]
  <2>2. k \in States
    BY DEF States, Lms
  <2> HIDE DEF k
  <2>3. r \in {"absent", "active", "closed", "suspended"}
    BY <2>1, <2>2 DEF States, Lms
  <2> HIDE DEF r
  <2>4. m \in States
    BY <2>1, <2>2, <2>3, RepositoryChange
  <2>5. m = [k EXCEPT !.repository[s] = IF @ = "absent" THEN @ ELSE "suspended"]
    BY DEF r
  <2> HIDE DEF m
  <2>6. [m EXCEPT !.repository[CONF] = "suspended"] \in States
    BY <2>1, <2>4, RepositoryChange
  <2>7. [m EXCEPT !.repository[CONF] = "suspended", !.asleep = TRUE] \in States
    <3>1. \A x \in States : [x EXCEPT !.asleep = TRUE] \in States
      BY DEF States, Lms
    <3> QED BY <2>4, <2>6, <3>1, ZenonT(30) DEF States, Lms
  <2>8. CompleteSuspendAceService(k, s) \in States
    BY <2>4, <2>5, <2>7 DEF CompleteSuspendAceService
  <2> QED BY <2>8, ContinueOrCompleteSound DEF ServiceChanged, k
<1>4. op = "resume" => ServiceChanged(l, w, s, op) \in States
  <2> HAVE op = "resume"
  <2>1. [l EXCEPT !.active = @ \cup ({s} \cap l.loaded), !.locked = @ \ {s}] \in States
    BY DEF States, Lms
  <2> QED BY <2>1, ContinueOrCompleteSound DEF ServiceChanged
<1> QED BY <1>1, <1>2, <1>3, <1>4, CompletedUnlessSound DEF ChangeServiceState, Op

\* What kinds of tasks there are.
LEMMA TaskTypes ==
    /\ \A t \in SimpleTasks : t = Task(t.type) /\ t.type \in
          {"START", "STOP", "SUSPEND", "RESUME", "UNLOCK", "DEFERRED_RESUME",
           "PFW_STARTED", "PFW_STOPPED", "DEVICE_ARRIVAL", "DEVICE_REMOVED"}
    /\ \A t \in ChangeTasks : t.type = "CHANGE"
    /\ Tasks = SimpleTasks \cup ChangeTasks
  BY DEF SimpleTasks, ChangeTasks, Task, Change, Tasks

\* The switch of ExecuteTask keeps the types.
LEMMA StartTaskSound ==
    ASSUME NEW l \in States, NEW w \in Worlds, NEW t \in Tasks
    PROVE  StartTask(l, w, t) \in States
<1>1. ASSUME NEW k \in States
                PROVE TaskCompleted(SuspendResumeAllServices(k, w, "suspend")) \in States /\
           TaskCompleted(SuspendResumeAllServices(k, w, "resume")) \in States
  BY AllServicesSound, TaskCompletedSound DEF Op
<1>2. [l EXCEPT !.deferred = FALSE] \in States /\ [l EXCEPT !.deferred = TRUE] \in States
  BY DEF States, Lms
<1>3. CASE t.type \in {"START", "DEVICE_ARRIVAL"}
  BY <1>3, ScanConfigurationSound DEF StartTask
<1>4. CASE t.type = "STOP"
  BY <1>2, <1>4, StopAllServicesSound DEF StartTask
<1>5. CASE t.type = "DEVICE_REMOVED"
  BY <1>5, StopAllServicesSound DEF StartTask
<1>6. CASE t.type = "SUSPEND"
  BY <1>1, <1>2, <1>6 DEF StartTask
<1>7. CASE t.type = "RESUME"
  BY <1>1, <1>2, <1>7, TaskCompletedSound DEF StartTask, ResumeNow
<1>8. CASE t.type = "UNLOCK"
  BY <1>1, <1>2, <1>8, TaskCompletedSound DEF StartTask, ResumeNow
<1>9. CASE t.type = "DEFERRED_RESUME"
  BY <1>1, <1>9 DEF StartTask
<1>10. CASE t.type = "PFW_STARTED"
  <2>1. [l EXCEPT !.pfwStarted = TRUE] \in States
    BY DEF States, Lms
  <2>2. Change("PFW", TRUE) \in MessagesTo(CONF)
    <3>1. ASSUME NEW c \in {"ME", "AMT", "TIME_SYNC", "PFW"}, NEW v \in BOOLEAN
          PROVE  Change(c, v) \in ChangeTasks
      BY DEF ChangeTasks
    <3>2. Change("PFW", TRUE) \in ChangeTasks
      BY <3>1
    <3>3. ChangeTasks \subseteq Tasks /\ Tasks \subseteq MessagesTo(CONF)
      BY MessageSets DEF Tasks, ConfMessages
    <3> QED BY <3>2, <3>3
  <2>3. TaskCompleted(PutQ([l EXCEPT !.pfwStarted = TRUE], CONF, Change("PFW", TRUE))) \in States
    BY <2>1, <2>2, PutQSound, TaskCompletedSound, Services
  <2> QED BY <1>10, <2>3 DEF StartTask
<1>11. CASE t.type = "PFW_STOPPED"
  <2>1. [l EXCEPT !.pfwStarted = FALSE] \in States
    BY DEF States, Lms
  <2> QED BY <1>11, <2>1, TaskCompletedSound DEF StartTask
<1>12. CASE t.type = "CHANGE"
  <2>1. t \in ChangeTasks
    BY <1>12, TaskTypes
  <2> QED BY <1>12, <2>1, UpdateConfigurationSound DEF StartTask
<1> QED BY <1>3, <1>4, <1>5, <1>6, <1>7, <1>8, <1>9, <1>10, <1>11, <1>12, TaskTypes

\* ExecuteTask keeps them, with a task that is started, put aside or refused.
LEMMA ExecuteTaskSound ==
    ASSUME NEW l \in States, NEW w \in Worlds, NEW t \in Tasks
    PROVE  ExecuteTask(l, w, t) \in States
<1>1. [l EXCEPT !.inProcess = t] \in States
  BY DEF States, Lms
<1>2. [l EXCEPT !.nextTasks = Append(@, t)] \in States
  <2>1. Append(l.nextTasks, t) \in Seq(Tasks)
    BY DEF States, Lms
  <2> QED BY <2>1 DEF States, Lms
<1> QED BY <1>1, <1>2, StartTaskSound, CompletedUnlessSound DEF ExecuteTask

\* So does the end of a task, which may start the next.
LEMMA TaskEndedSound ==
    ASSUME NEW l \in States, NEW w \in Worlds
    PROVE  TaskEnded(l, w) \in States
<1> DEFINE x == IF l.onToggle THEN None ELSE l.toggled
           m == [l EXCEPT !.toggled = x, !.onToggle = FALSE, !.inProcess = None]
<1>1. x \in Service \cup {None}
  BY DEF States, Lms
<1> HIDE DEF x
<1>2. m \in States
  BY <1>1 DEF States, Lms
<1>3. m = [l EXCEPT !.toggled = IF l.onToggle THEN None ELSE @,
                    !.onToggle = FALSE, !.inProcess = None]
  BY DEF x
<1> HIDE DEF m
<1>4. ASSUME m.nextTasks # <<>>
      PROVE  ExecuteTask([m EXCEPT !.nextTasks = Tail(@)], w, Head(m.nextTasks)) \in States
  <2>1. Tail(m.nextTasks) \in Seq(Tasks) /\ Head(m.nextTasks) \in Tasks
    <3>1. m.nextTasks \in Seq(Tasks)
      BY <1>2 DEF States, Lms
    <3> QED BY <3>1, <1>4
  <2>2. [m EXCEPT !.nextTasks = Tail(@)] \in States
    BY <1>2, <2>1 DEF States, Lms
  <2> QED BY <2>1, <2>2, ExecuteTaskSound
<1> QED BY <1>2, <1>3, <1>4 DEF TaskEnded

\* The Configurator keeps the types in every message it can get.
LEMMA HandleConfMessageSound ==
    ASSUME NEW l \in States, NEW w \in Worlds, NEW m \in ConfMessages
    PROVE  HandleConfMessage(l, w, m) \in States
<1>1. CASE m \in {Status(s, op) : s \in Service, op \in Op}
  <2>1. m.type = "STATUS" /\ m.service \in Service /\ m.op \in Op
    BY <1>1 DEF Status
  <2> QED BY <2>1, ServiceChangedSound, Services DEF HandleConfMessage
<1>2. CASE m = Status(CONF, "resume")
  <2>1. m.type = "STATUS" /\ m.service = CONF /\ m.op = "resume"
    BY <1>2 DEF Status
  <2> QED BY <2>1, ServiceChangedSound, Services DEF HandleConfMessage, Op
<1>3. CASE m = Completed
  BY <1>3, TaskEndedSound DEF HandleConfMessage, Completed
<1>4. CASE m \in Tasks
  <2>1. m.type \notin {"STATUS", "TASK_COMPLETED"}
    BY <1>4, TaskTypes
  <2> QED BY <2>1, <1>4, ExecuteTaskSound DEF HandleConfMessage
<1> QED BY <1>1, <1>2, <1>3, <1>4 DEF ConfMessages

\* So does a service.
LEMMA HandleServiceMessageSound ==
    ASSUME NEW l \in States, NEW s \in Service, NEW m \in Orders
    PROVE  HandleServiceMessage(l, s, m) \in States
<1>1. [l EXCEPT !.repository[s] = "closed"] \in States
  BY RepositoryChange, Services
<1>2. Status(s, "unload") \in MessagesTo(CONF) /\ Status(s, "suspend") \in MessagesTo(CONF)
  BY MessageSets DEF ConfMessages, Op
<1>3. SendMessage([l EXCEPT !.repository[s] = "closed"], CONF, Status(s, "unload")) \in States
  BY <1>1, <1>2, SendMessageSound, Services
<1>4. SendMessage(l, CONF, Status(s, "suspend")) \in States
  BY <1>2, SendMessageSound, Services
<1> QED BY <1>3, <1>4 DEF HandleServiceMessage, Orders, Task

\* The event manager.
LEMMA HandleManagerMessageSound ==
    ASSUME NEW l \in States, NEW m \in ManagerMessages
    PROVE  HandleManagerMessage(l, m) \in States
<1>1. CASE m \in Orders
  <2>1. m.type \notin {"SUBSCRIBE", "UNSUBSCRIBE"}
    BY <1>1 DEF Orders, Task
  <2> QED BY <1>1, <2>1, HandleServiceMessageSound, Services DEF HandleManagerMessage
<1>2. CASE m \in {From(t, s) : t \in {"SUBSCRIBE", "UNSUBSCRIBE"}, s \in Handler}
  <2>1. /\ m.service \in Handler /\ m.service \in Components
        /\ m.type \in {"SUBSCRIBE", "UNSUBSCRIBE"}
    BY <1>2, Services DEF From
  <2>2. /\ Task("SUBSCRIBED") \in MessagesTo(m.service)
        /\ Task("UNSUBSCRIBED") \in MessagesTo(m.service)
    BY <2>1, MessageSets DEF HandlerMessages
  <2>3. /\ [l EXCEPT !.handlers = @ \cup {m.service}] \in States
        /\ [l EXCEPT !.handlers = @ \ {m.service}] \in States
    BY <2>1 DEF States, Lms
  <2>4. SendMessage([l EXCEPT !.handlers
           = @ \cup {m.service}], m.service, Task("SUBSCRIBED")) \in States
    BY <2>1, <2>2, <2>3, SendMessageSound
  <2>5. SendMessage([l EXCEPT !.handlers
           = @ \ {m.service}], m.service, Task("UNSUBSCRIBED")) \in States
    BY <2>1, <2>2, <2>3, SendMessageSound
  <2> QED BY <2>1, <2>4, <2>5 DEF HandleManagerMessage
<1> QED BY <1>1, <1>2 DEF ManagerMessages

\* And an event handler.
LEMMA HandleHandlerMessageSound ==
    ASSUME NEW l \in States, NEW s \in Handler, NEW m \in HandlerMessages
    PROVE  HandleHandlerMessage(l, s, m) \in States
<1>1. s \in Service /\ s \in Components
  BY Services
<1>2. \A op \in Op : SendMessage(l, CONF, Status(s, op)) \in States
  <2>1. \A op \in Op : Status(s, op) \in MessagesTo(CONF)
    BY <1>1, MessageSets DEF ConfMessages
  <2> QED BY <2>1, SendMessageSound, Services
<1>3. [SendMessage(l, "EventManager", From("UNSUBSCRIBE", s)) EXCEPT !.repository[s]
         = "closed"] \in States
  <2>1. From("UNSUBSCRIBE", s) \in MessagesTo("EventManager")
    BY MessageSets DEF ManagerMessages
  <2> QED BY <2>1, <1>1, SendMessageSound, RepositoryChange, Services
<1> QED BY <1>2, <1>3 DEF HandleHandlerMessage, HandlerMessages, Orders, Task, Op

\* The notifications that lead to nothing are dropped.
LEMMA ServedSound ==
    ASSUME NEW l \in States
    PROVE  Served(l) \in States
<1> DEFINE todo == {i \in DOMAIN l.notify : ShouldPass(l, l.notify[i])}
           i == CHOOSE i \in todo : \A j \in todo : i <= j
<1>1. l.notify \in Seq(Components)
  BY DEF States, Lms
<1>2. ASSUME NEW q \in Seq(Components) PROVE [l EXCEPT !.notify = q] \in States
  BY DEF States, Lms
<1>3. CASE todo = {}
  <2>1. <<>> \in Seq(Components)
    OBVIOUS
  <2> QED BY <1>2, <1>3, <2>1 DEF Served
<1>4. CASE todo # {}
  <2>1. todo \subseteq Nat
    BY <1>1
  <2>2. \E x \in todo : \A y \in todo : x <= y
    <3> HIDE DEF todo
    <3> QED BY <1>4, <2>1, LeastNumber
  <2>3. i \in todo
    <3> HIDE DEF todo
    <3> QED BY <2>2
  <2>4. i \in 1..Len(l.notify)
    BY <1>1, <2>3
  <2>5. SubSeq(l.notify, i, Len(l.notify)) \in Seq(Components)
    <3> HIDE DEF i
    <3> QED BY <1>1, <2>4
  <2>6. Served(l) = [l EXCEPT !.notify = SubSeq(@, i, Len(@))]
    BY <1>4 DEF Served
  <2> HIDE DEF i
  <2> QED BY <1>2, <2>5, <2>6
<1> QED BY <1>3, <1>4

\* The message that is taken is one its owner handles.
LEMMA TakenSound ==
    ASSUME lms \in States, NEW s \in Components, lms.queue[s] # <<>>,
           running = None => lms.notify # <<>>
    PROVE  Taken(s) \in States /\ Head(lms.queue[s]) \in MessagesTo(s)
<1> DEFINE n == IF running = None THEN Tail(lms.notify) ELSE lms.notify
<1>1. lms.queue[s] \in Seq(MessagesTo(s)) /\ lms.notify \in Seq(Components)
  BY DEF States, Lms
<1>2. Tail(lms.queue[s]) \in Seq(MessagesTo(s)) /\ Head(lms.queue[s]) \in MessagesTo(s)
  BY <1>1
<1>3. n \in Seq(Components)
  BY <1>1
<1>4. Taken(s) = [lms EXCEPT !.queue[s] = Tail(lms.queue[s]), !.notify = n]
  BY DEF Taken
<1> HIDE DEF n
<1>5. [lms EXCEPT !.queue[s] = Tail(lms.queue[s]), !.notify = n] \in States
  BY <1>2, <1>3, QueueChange
<1> QED BY <1>2, <1>4, <1>5

\* What a dispatch leaves.
LEMMA HandledSound ==
    ASSUME NEW s \in Components, NEW l \in States, Handled(s, l)
    PROVE  lms' \in States /\ running' \in Components \cup {None}
  BY ServedSound DEF Handled

\* The values of env.
Environments ==
    [stop : BOOLEAN, changes : 0..MaxChanges, pfw : 0..MaxPfw,
     up : BOOLEAN, suspended : BOOLEAN, power : 0..MaxPower,
     device : 0..MaxDevice, present : BOOLEAN]

\* TypeOK in terms of States.
LEMMA TypeOKStates ==
    TypeOK <=> lms \in States /\ running \in Components \cup {None} /\ env \in Environments
  BY DEF TypeOK, States, Environments

\* What the world may answer in a step is an answer.
LEMMA WorldTyped ==
    ASSUME NEW w \in World
    PROVE  w \in Worlds
<1>1. w.off \in SUBSET CheckLoad /\ w.bad \in SUBSET Service
  BY ConfiguratorConstants DEF World
<1>2. w.scan \in {"ok", "error", "noMei"}
  BY ConfiguratorConstants DEF World
<1> QED BY <1>1, <1>2 DEF World, Worlds

\* The Configurator's steps keep the types.
LEMMA ConfiguratorStepSound ==
    ASSUME lms \in States, ConfiguratorStep
    PROVE  lms' \in States /\ running' \in Components \cup {None}
<1>1. lms.queue[CONF] # <<>> /\ (running = None => lms.notify # <<>>)
  BY Services, ConfiguratorConstants DEF ConfiguratorStep, Dispatched, ShouldPass
<1>2. Taken(CONF) \in States /\ Head(lms.queue[CONF]) \in ConfMessages
  BY <1>1, TakenSound, Services, MessageSets
<1>3. PICK w \in World : Handled(CONF, HandleConfMessage(Taken(CONF), w, Head(lms.queue[CONF])))
  BY DEF ConfiguratorStep
<1>4. HandleConfMessage(Taken(CONF), w, Head(lms.queue[CONF])) \in States
  BY <1>2, WorldTyped, HandleConfMessageSound
<1> QED BY <1>3, <1>4, HandledSound, Services

\* The services' steps keep them.
LEMMA ServiceStepSound ==
    ASSUME lms \in States, NEW s \in Service, ServiceStep(s)
    PROVE  lms' \in States /\ running' \in Components \cup {None}
<1>1. lms.queue[s] # <<>> /\ (running = None => lms.notify # <<>>) /\ s \in Components
  BY Services, ConfiguratorConstants DEF ServiceStep, Dispatched, ShouldPass
<1> DEFINE k == Taken(s)
           m == Head(lms.queue[s])
           l == CASE s = "EventManager" -> HandleManagerMessage(k, m)
                  [] s \in Handler -> HandleHandlerMessage(k, s, m)
                  [] OTHER -> HandleServiceMessage(k, s, m)
<1>2. k \in States /\ m \in MessagesTo(s)
  BY <1>1, TakenSound
<1>3. Handled(s, l)
  BY DEF ServiceStep
<1> HIDE DEF k, m
<1>4. CASE s = "EventManager"
  <2>1. m \in ManagerMessages /\ s \notin Handler
    BY <1>2, <1>4, MessageSets DEF Handler
  <2>2. l \in States
    BY <1>2, <1>4, <2>1, HandleManagerMessageSound
  <2> QED BY <1>1, <1>3, <2>2, HandledSound
<1>5. CASE s \in Handler
  <2>1. m \in HandlerMessages /\ s # "EventManager"
    BY <1>2, <1>5, MessageSets DEF Handler
  <2>2. l \in States
    BY <1>2, <1>5, <2>1, HandleHandlerMessageSound
  <2> QED BY <1>1, <1>3, <2>2, HandledSound
<1>6. CASE s \notin Handler \cup {"EventManager"}
  <2>1. m \in Orders
    BY <1>2, <1>6, Services DEF MessagesTo
  <2>2. l \in States
    BY <1>2, <1>6, <2>1, HandleServiceMessageSound
  <2> QED BY <1>1, <1>3, <2>2, HandledSound
<1> QED BY <1>4, <1>5, <1>6

\* A scan leaves the count of the retries alone or clears it.
LEMMA ScanScans ==
    ASSUME NEW l \in States, NEW w \in Worlds
    PROVE  ScanConfiguration(l, w).scans \in {0, l.scans}
<1> DEFINE m == [l EXCEPT !.toLoad = ScanGroup]
<1>1. m \in States /\ m.scans = l.scans
  BY ScanGroupServices DEF States, Lms
<1> HIDE DEF m
<1>2. ExecuteOrComplete(m, w, InOrder(ScanGroup), "load") \in States
      /\ ExecuteOrComplete(m, w, InOrder(ScanGroup), "load").scans = l.scans
  BY <1>1, ExecuteSound, ExecuteFrame, ScanGroupServices DEF Op, Frame
<1>3. CancelTimers(ExecuteOrComplete(m, w, InOrder(ScanGroup), "load")).scans = l.scans
  BY <1>2 DEF CancelTimers, States, Lms
<1>4. TaskCompleted(CancelTimers([l EXCEPT !.scans = 0])).scans = 0
  BY DEF CancelTimers, TaskCompleted, PutQ, States, Lms
<1>5. [l EXCEPT !.scanTimer = TRUE].scans = l.scans
  BY DEF States, Lms
<1> QED BY <1>3, <1>4, <1>5 DEF ScanConfiguration, Worlds, m

\* The two timers keep them. The scan counter stays below NUM_RETRIES because
\* handle_timeout looks at it before it scans again.
LEMMA TimeoutsSound ==
    ASSUME lms \in States, ScanTimeout \/ DeferredResumeTimeout
    PROVE  lms' \in States /\ running' = running /\ env' = env
<1>1. CancelTimers(lms) \in States
  BY DEF States, Lms, CancelTimers
<1>2. CASE ScanTimeout
  <2>1. PICK w \in World :
          IF lms.scans < NumRetries
          THEN lms' = [ScanConfiguration(lms, w) EXCEPT !.scans = @ + 1]
          ELSE lms' = TaskCompleted(StopAllServices(CancelTimers(lms), w, TRUE))
    BY <1>2 DEF ScanTimeout
  <2>2. w \in Worlds
    BY WorldTyped
  <2> DEFINE k == ScanConfiguration(lms, w)
  <2>3. k \in States
    BY <2>2, ScanConfigurationSound
  <2>4. k.scans \in {0, lms.scans}
    BY <2>2, ScanScans
  <2>5. lms.scans < NumRetries => [k EXCEPT !.scans = @ + 1] \in States
    <3> HAVE lms.scans < NumRetries
    <3>1. lms.scans \in 0..NumRetries
      BY DEF States, Lms
    <3>2. k.scans + 1 \in 0..NumRetries
      BY <2>4, <3>1, ConfiguratorConstants
    <3> HIDE DEF k
    <3> QED BY <2>3, <3>2 DEF States, Lms
  <2>6. TaskCompleted(StopAllServices(CancelTimers(lms), w, TRUE)) \in States
    BY <1>1, <2>2, StopAllServicesSound, TaskCompletedSound
  <2> QED BY <1>2, <2>1, <2>5, <2>6 DEF ScanTimeout
<1>3. CASE DeferredResumeTimeout
  <2>1. Task("DEFERRED_RESUME") \in MessagesTo(CONF)
    <3>1. Task("DEFERRED_RESUME") \in SimpleTasks
      BY DEF SimpleTasks
    <3> QED BY <3>1, MessageSets DEF ConfMessages, Tasks
  <2> QED BY <1>1, <1>3, <2>1, PutQSound, Services DEF DeferredResumeTimeout
<1> QED BY <1>2, <1>3

\* What the other threads and the handlers put into the Configurator's queue
\* are messages it handles.
LEMMA TaskMessages ==
    /\ Tasks \subseteq MessagesTo(CONF) /\ SimpleTasks \subseteq Tasks
    /\ \A t \in {"START", "STOP", "SUSPEND", "RESUME", "UNLOCK",
                 "DEFERRED_RESUME", "PFW_STARTED", "PFW_STOPPED",
                 "DEVICE_ARRIVAL", "DEVICE_REMOVED"} : Task(t) \in SimpleTasks
    /\ ChangeTasks \subseteq Tasks
    /\ Status(CONF, "resume") \in MessagesTo(CONF)
  BY MessageSets DEF SimpleTasks, ConfMessages, Tasks

\* The other threads keep the types, and the bounds of env.
LEMMA WorldStepsSound ==
    ASSUME TypeOK,
           \/ \E t \in Changes : ReportChange(t)
           \/ ReportPortForwarding
           \/ Stop
           \/ PowerEvent
           \/ DeviceEvent
    PROVE  lms' \in States /\ running' = running /\ env' \in Environments
<1>1. lms \in States /\ env \in Environments
  BY TypeOKStates
<1>2. \A t \in Tasks : SendMessage(lms, CONF, t) \in States
  BY <1>1, TaskMessages, SendMessageSound, Services
<1>3. {MaxChanges, MaxPfw, MaxPower, MaxDevice} \subseteq Nat
  BY ConfiguratorConstants
<1>4. ASSUME NEW t \in Changes, ReportChange(t)
                PROVE lms' \in States /\ running' = running /\ env' \in Environments
  BY <1>1, <1>2, <1>3, <1>4, TaskMessages, ConfiguratorConstants, SMTT(30) DEF ReportChange,
     Environments
<1>5. CASE ReportPortForwarding
  <2>1. Task(IF env.up THEN "PFW_STOPPED" ELSE "PFW_STARTED") \in Tasks
    BY TaskMessages
  <2>2. lms' \in States /\ running' = running
    BY <1>2, <1>5, <2>1 DEF ReportPortForwarding
  <2> DEFINE now == ~env.up
  <2>3. now \in BOOLEAN /\ env.pfw + 1 \in 0..MaxPfw
    BY <1>1, <1>3, <1>5 DEF Environments, ReportPortForwarding
  <2>4. env' = [env EXCEPT !.pfw = @ + 1, !.up = now]
    BY <1>5 DEF ReportPortForwarding
  <2> HIDE DEF now
  <2>5. env' \in Environments
    BY <1>1, <2>3, <2>4 DEF Environments
  <2> QED BY <2>2, <2>5
<1>6. CASE Stop
  <2>1. Task("STOP") \in Tasks
    BY TaskMessages
  <2>2. Reachable(lms, CONF) \in BOOLEAN
    BY DEF Reachable
  <2> QED BY <1>1, <1>2, <1>6, <2>1, <2>2 DEF Environments, Stop
<1>7. CASE PowerEvent
  <2>1. Task("SUSPEND") \in Tasks /\ Task("RESUME") \in Tasks /\ Task("UNLOCK") \in Tasks
    BY TaskMessages
  <2> DEFINE awake == [lms EXCEPT !.asleep = FALSE, !.repository[CONF] = "active"]
  <2>2. awake \in States
    <3>1. [lms EXCEPT !.asleep = FALSE] \in States
      BY <1>1 DEF States, Lms
    <3>2. awake = [[lms EXCEPT !.asleep = FALSE] EXCEPT !.repository[CONF] = "active"]
      BY <1>1 DEF States, Lms
    <3> QED BY <3>1, <3>2, RepositoryChange, Services
  <2> HIDE DEF awake
  <2>3. SendMessage(SendMessage(awake, CONF, Status(CONF, "resume")), CONF, Task("RESUME")) \in States
    BY <2>1, <2>2, TaskMessages, SendMessageSound, Services
  <2>4. lms' \in States /\ running' = running
    BY <1>2, <1>7, <2>1, <2>3 DEF PowerEvent, awake
  <2>5. env' \in Environments
    <3>1. /\ env.power < MaxPower
          /\ \/ env' = [env EXCEPT !.power = @ + 1, !.suspended = TRUE]
             \/ env' = [env EXCEPT !.power = @ + 1, !.suspended = FALSE]
             \/ env' = [env EXCEPT !.power = @ + 1]
      BY <1>7 DEF PowerEvent
    <3>2. env.power + 1 \in 0..MaxPower
      BY <1>1, <1>3, <3>1 DEF Environments
    <3> QED BY <1>1, <3>1, <3>2 DEF Environments
  <2> QED BY <2>4, <2>5
<1>8. CASE DeviceEvent
  <2>1. Task(IF env.present THEN "DEVICE_REMOVED" ELSE "DEVICE_ARRIVAL") \in Tasks
    BY TaskMessages
  <2>2. lms' \in States /\ running' = running
    BY <1>2, <1>8, <2>1 DEF DeviceEvent
  <2> DEFINE now == ~env.present
  <2>3. now \in BOOLEAN /\ env.device + 1 \in 0..MaxDevice
    BY <1>1, <1>3, <1>8 DEF Environments, DeviceEvent
  <2>4. env' = [env EXCEPT !.device = @ + 1, !.present = now]
    BY <1>8 DEF DeviceEvent
  <2> HIDE DEF now
  <2>5. env' \in Environments
    BY <1>1, <2>3, <2>4 DEF Environments
  <2> QED BY <2>2, <2>5
<1> QED BY <1>4, <1>5, <1>6, <1>7, <1>8

\* The process starts in a typed state.
LEMMA InitSound ==
    ASSUME Init
    PROVE  TypeOK
<1>1. lms \in Lms
  <2> DEFINE q == [s \in Components |-> IF s = CONF THEN <<Task("START")>> ELSE <<>>]
  <2>1. <<Task("START")>> \in Seq(MessagesTo(CONF))
    BY TaskMessages
  <2>2. q \in [Components -> Seq(Messages)]
    BY <2>1, MessageSets, Services
  <2>3. <<CONF>> \in Seq(Components) /\ <<>> \in Seq(Tasks) /\ 0 \in 0..NumRetries
    BY Services, ConfiguratorConstants
  <2> HIDE DEF q
  <2>4. lms.queue = q
    BY DEF Init, q
  <2> QED BY <2>2, <2>3, <2>4 DEF Init, Lms, Messages
<1>2. \A dest \in Components : lms.queue[dest] \in Seq(MessagesTo(dest))
  <2>1. <<Task("START")>> \in Seq(MessagesTo(CONF))
    BY TaskMessages
  <2> QED BY <2>1 DEF Init
<1>3. running \in Components \cup {None}
  BY DEF Init
<1>4. env \in Environments
  BY ConfiguratorConstants DEF Init, Environments
<1> QED BY <1>1, <1>2, <1>3, <1>4 DEF TypeOK, Environments

\* The state of the process is typed and nobody is sent a message that it
\* cannot handle, whatever fails, however the requests of the system overlap
\* and for any bounds: each object handles what reaches it (HandleAceMessage of
\* Configurator, EventManager, EventHandler and GmsSubService), the scan
\* counter stays within NUM_RETRIES.
THEOREM TypeCorrect == Spec => []TypeOK
<1>1. Init => TypeOK
  BY InitSound
<1>2. TypeOK /\ [Next]_vars => TypeOK'
  <2> SUFFICES ASSUME TypeOK, [Next]_vars PROVE TypeOK'
    OBVIOUS
  <2>1. lms \in States /\ running \in Components \cup {None} /\ env \in Environments
    BY TypeOKStates
  <2>2. TypeOK' <=> lms' \in States /\ running' \in Components \cup {None} /\ env'
           \in Environments
    BY DEF TypeOK, States, Environments
  <2>3. CASE ConfiguratorStep
    BY <2>1, <2>2, <2>3, ConfiguratorStepSound DEF ConfiguratorStep
  <2>4. ASSUME NEW s \in Service, ServiceStep(s) PROVE TypeOK'
    BY <2>1, <2>2, <2>4, ServiceStepSound DEF ServiceStep
  <2>5. CASE ScanTimeout \/ DeferredResumeTimeout
    BY <2>1, <2>2, <2>5, TimeoutsSound
  <2>6. CASE \/ \E t \in Changes : ReportChange(t)
             \/ ReportPortForwarding
             \/ Stop
             \/ PowerEvent
             \/ DeviceEvent
    BY <2>1, <2>2, <2>6, WorldStepsSound
  <2>7. CASE UNCHANGED vars
    BY <2>1, <2>2, <2>7 DEF vars
  <2> QED BY <2>3, <2>4, <2>5, <2>6, <2>7 DEF Next, Reactor, Dispatch
<1> QED BY <1>1, <1>2, PTL DEF Spec

-----------------------------------------------------------------------------
(* The inductive invariant of the tasks                                    *)

\* The kinds of messages about the loading or unloading of one service.
Kinds == {"load", "unload", "stop", "subscribe", "subscribed", "unsubscribe",
          "unsubscribed"}

\* The message of that kind about s.
Notice(s, k) ==
    CASE k \in {"load", "unload"} -> Status(s, k)
      [] k = "stop"         -> Task("STOP_SERVICE")
      [] k = "subscribe"    -> From("SUBSCRIBE", s)
      [] k = "unsubscribe"  -> From("UNSUBSCRIBE", s)
      [] k = "subscribed"   -> Task("SUBSCRIBED")
      [] k = "unsubscribed" -> Task("UNSUBSCRIBED")

\* Whose queue it travels in.
Box(s, k) ==
    CASE k \in {"load", "unload"} -> CONF
      [] k \in {"subscribe", "unsubscribe"} -> "EventManager"
      [] OTHER -> s

\* All those messages.
Notices == {Notice(s, k) : s \in Service, k \in Kinds}

\* The kinds of messages about s that are under way.
UnderWay(queue, s) == {k \in Kinds : Notice(s, k) \in Items(queue[Box(s, k)])}

\* The members of U occur in q at most once.
Once(q, U) == \A i, j \in DOMAIN q : q[i] \in U /\ q[i] = q[j] => i = j

\* The tasks other than the first: what the status event handler, port
\* forwarding and the signal handler ask for.
CalmTasks == {Task("STOP"), Task("PFW_STARTED"), Task("PFW_STOPPED")} \cup ChangeTasks

\* Nobody sleeps and nothing waits for a resume; the services that are loaded
\* are active. It is what the world of CalmWorld (below, in the proofs about
\* the tasks) leaves of the state.
Calm(l) ==
    /\ ~l.asleep /\ ~l.deferred /\ l.active = l.loaded
    /\ l.repository[CONF] = "active"
    /\ l.waiting["suspend"] = {} /\ l.waiting["resume"] = {}
    /\ l.waitPfw \subseteq {"TimeSync"}
    /\ l.nextTasks \in Seq(CalmTasks)
    /\ l.inProcess \in CalmTasks \cup {Task("START"), None}

\* The queues hold tasks and messages about services, and none of the latter
\* twice.
Letters(queue) ==
    /\ Items(queue[CONF]) \subseteq CalmTasks \cup Notices \cup {Completed, Task("START")}
    /\ \A d \in Service : Items(queue[d]) \subseteq Notices
    /\ \A d \in Components : Once(queue[d], Notices)

\* The conversation between the Configurator and a service: where s stands,
\* from the locks (K) and the lists (L) of the Configurator, the repository
\* (r), the handlers the event manager knows (h) and the messages under way
\* (T). A lock is there exactly when one message of the conversation is under
\* way, which is what LockedIsAnswered needs; it is not inductive without the
\* order in which the messages follow each other.
Converse(s, L, K, r, h, T) ==
    LET H == s \in Handler IN
    \/ ~L /\ ~K /\ r = "absent" /\ T = {} /\ ~h
    \/ L /\ ~K /\ r = "active" /\ T = {} /\ (H <=> h)
    \/ ~L /\ K /\ r = "active" /\ T = {"load"} /\ (H <=> h)
    \/ ~L /\ K /\ r = "active" /\ T = {"subscribe"} /\ H /\ ~h
    \/ ~L /\ K /\ r = "active" /\ T = {"subscribed"} /\ H /\ h
    \/ L /\ K /\ r = "active" /\ T = {"stop"} /\ (H <=> h)
    \/ L /\ K /\ r = "closed" /\ T = {"unload"} /\ ~h
    \/ L /\ K /\ r = "closed" /\ T = {"unsubscribe"} /\ H /\ h
    \/ L /\ K /\ r = "closed" /\ T = {"unsubscribed"} /\ H /\ ~h

\* The conversation with s in the state l.
Talk(l, s) ==
    Converse(s, s \in l.loaded, s \in l.locked, l.repository[s],
             s \in l.handlers, UnderWay(l.queue, s))

\* A service that is loaded or locked has what it depends on, and that is not
\* being unloaded. DependenciesLoaded alone could be lost by a service that was
\* started before the unloading of another began.
Depend(l) ==
    \A s \in l.loaded \cup l.locked : AbsoluteDependencies[s] \subseteq l.loaded \ l.locked

\* The services without which no others are loaded, or without which the end of
\* a task would not be noticed: the dummies "first" and "last" end a task that
\* unloads or loads.
Base == {"First", "EventManager", "PortForwarding", "Last"}

\* The services that may be among those to be loaded and not be loaded when all
\* is done: the firmware said so, or nobody waits for them.
Extra == {"TimeSync", "HostChanges"}

\* The first task.
Begin == Task("START")

\* The two toggles of TimeSync.
On == Change("TIME_SYNC", TRUE)

\* The same.
Off == Change("TIME_SYNC", FALSE)

\* The tasks that load services.
LoadTasks == {Begin, Change("AMT", TRUE), Change("PFW", TRUE), On}

\* The services a task may load.
Scope(t) ==
    CASE t = Begin -> Service \ {"AmtEnableLast", "WaitingForPfwLast"}
      [] t = Change("AMT", TRUE) -> {"PowerOperations", "TimeSync", "AmtEnableLast"}
      [] t = Change("PFW", TRUE) -> {"TimeSync", "WaitingForPfwLast"}
      [] OTHER -> {"TimeSync"}

\* No service is under way or waits.
Quiet(l) == l.locked = {} /\ l.waiting["load"] = {} /\ l.waiting["unload"] = {}

\* Between two tasks: what is loaded is to be loaded, and what is to be loaded
\* is loaded, but for the extras.
Rest(l) == Quiet(l) /\ l.loaded \subseteq l.toLoad /\ l.toLoad \ l.loaded \subseteq Extra

\* Every x in q comes before every y.
Precedes(q, x, y) == \A i, j \in DOMAIN q : q[i] = x /\ q[j] = y => i < j

\* A task that loads is in process: only services in its scope are locked or
\* wait, each locked one has its prerequisites, a toggle has nothing that
\* waits. HostChanges has no mount order, so nothing depends on it: it is
\* loaded by the first batch, and its status arrives before the one of the
\* event manager, long before the marker "last" ends the task. Without that,
\* the task could end with HostChanges locked.
Loading(l, t) ==
    /\ l.loaded \subseteq l.toLoad
    /\ l.toLoad \ l.loaded \subseteq Scope(t) \cup Extra
    /\ l.waiting["unload"] = {}
    /\ l.locked \cup l.waiting["load"] \subseteq (l.toLoad \ l.loaded) \cap Scope(t)
    /\ l.locked \cap l.waiting["load"] = {}
    /\ "HostChanges" \notin l.waiting["load"]
    /\ \A s \in l.locked : Prerequisites(l, s, "load") \subseteq l.loaded
    /\ t = On => l.waiting["load"] = {} /\ (l.locked # {} => l.onToggle)
    /\ "HostChanges" \in l.locked =>
          /\ "EventManager" \notin l.loaded
          /\ Precedes(l.queue[CONF], Status("HostChanges", "load"), Status("EventManager", "load"))

\* TimeSync is being switched off, or that is over.
Unloading(l) ==
    /\ l.toLoad \ l.loaded \subseteq Extra
    /\ l.waiting["load"] = {} /\ l.waiting["unload"] = {}
    /\ \/ l.locked = {} /\ l.loaded \subseteq l.toLoad
       \/ l.locked = {"TimeSync"} /\ "TimeSync" \in l.loaded /\ l.onToggle
          /\ l.loaded \ {"TimeSync"} \subseteq l.toLoad

\* The end of the task in process has been put into the queue.
Ended(l) == Completed \in Items(l.queue[CONF])

\* What the Configurator's lists say of the task in process, while no stop was
\* executed: with no task, or one whose end is under way, everything is at
\* rest; MB_TASK_COMPLETED is there once at most, and not without a task; the
\* dummies take part in the prerequisites again once the toggle is over; the
\* scan timer runs only for the first task.
Open(l) ==
    /\ ~l.ended
    /\ l.toLoad = {} \/ Base \subseteq l.toLoad
    /\ Once(l.queue[CONF], {Completed})
    /\ l.inProcess = None => l.nextTasks = <<>> /\ ~Ended(l)
    /\ l.inProcess # Task("STOP")
    /\ l.inProcess = None \/ Ended(l) \/ l.inProcess \notin LoadTasks \cup {Off} => Rest(l)
    /\ l.inProcess \in LoadTasks => Loading(l, l.inProcess)
    /\ l.inProcess = Off => Unloading(l)
    /\ l.onToggle => l.inProcess \in {On, Off}
    /\ l.toggled = IF l.inProcess = Off /\ l.onToggle THEN "TimeSync" ELSE None
    /\ l.scanTimer => l.inProcess = Begin /\ l.toLoad = {} /\ ~Ended(l)

\* After a stop was executed: services are only unloaded, and the process ends
\* when none is left.
Closing(l) ==
    /\ l.locked \subseteq l.loaded /\ l.loaded \subseteq l.toLoad
    /\ l.waiting["load"] = {} /\ l.toggled = None /\ ~l.onToggle
    /\ ~l.scanTimer
    /\ l.ended => l.loaded = {}

\* The tasks that presuppose that the scan was done.
Wants == ChangeTasks \cup {Task("PFW_STARTED")}

\* They only come when it was: those who ask for them are loaded services.
Wanted(l) ==
    (l.inProcess \in Wants \/ Items(l.nextTasks) \cap Wants # {}
       \/ Items(l.queue[CONF]) \cap Wants # {}) => l.toLoad # {}

\* Before the first task is executed nothing was done, and it is the first to
\* be executed.
Begun(l) ==
    Begin \in Items(l.queue[CONF]) =>
    /\ l.loaded = {} /\ l.toLoad = {} /\ Quiet(l) /\ l.inProcess = None /\ ~l.needToStop
    /\ ~l.scanTimer
    /\ l.queue[CONF][1] = Begin
    /\ Once(l.queue[CONF], {Begin})

\* Where the tasks stand.
Tasking(l) ==
    /\ ~l.needToStop => Open(l) /\ Wanted(l)
    /\ l.needToStop => Closing(l)
    /\ Begun(l)

\* What is in a queue is its head and what is in its tail.
LEMMA ItemsTail ==
    ASSUME NEW S, NEW q \in Seq(S), q # <<>>
    PROVE  /\ Items(q) = {Head(q)} \cup Items(Tail(q))
           /\ Tail(q) \in Seq(S) /\ Head(q) \in S
<1>1. /\ DOMAIN q = 1..Len(q) /\ Len(q) \in Nat /\ Len(q) > 0
      /\ DOMAIN Tail(q) = 1..(Len(q) - 1)
      /\ \A i \in 1..(Len(q) - 1) : Tail(q)[i] = q[i + 1]
      /\ Head(q) = q[1] /\ Tail(q) \in Seq(S) /\ q[1] \in S
  OBVIOUS
<1>2. ASSUME NEW x \in Items(q) PROVE x \in {Head(q)} \cup Items(Tail(q))
  <2>1. PICK i \in 1..Len(q) : x = q[i]
    BY <1>1 DEF Items
  <2>2. CASE i = 1
    BY <1>1, <2>1, <2>2
  <2>3. CASE i # 1
    <3>1. i - 1 \in 1..(Len(q) - 1) /\ Tail(q)[i - 1] = x
      BY <1>1, <2>1, <2>3
    <3> QED BY <1>1, <3>1 DEF Items
  <2> QED BY <2>2, <2>3
<1>3. ASSUME NEW x \in Items(Tail(q)) PROVE x \in Items(q)
  <2>1. PICK i \in 1..(Len(q) - 1) : x = Tail(q)[i]
    BY <1>1 DEF Items
  <2>2. i + 1 \in 1..Len(q) /\ q[i + 1] = x
    BY <1>1, <2>1
  <2> QED BY <1>1, <2>2 DEF Items
<1>4. Head(q) \in Items(q)
  BY <1>1 DEF Items
<1> QED BY <1>1, <1>2, <1>3, <1>4

\* What is in a queue once is once at most in its tail.
LEMMA OnceTail ==
    ASSUME NEW S, NEW q \in Seq(S), q # <<>>, NEW U, Once(q, U)
    PROVE  /\ Once(Tail(q), U)
           /\ Head(q) \in U => Head(q) \notin Items(Tail(q))
<1>1. /\ DOMAIN q = 1..Len(q) /\ Len(q) \in Nat /\ Len(q) > 0
      /\ DOMAIN Tail(q) = 1..(Len(q) - 1)
      /\ \A i \in 1..(Len(q) - 1) : Tail(q)[i] = q[i + 1]
      /\ Head(q) = q[1]
  OBVIOUS
<1>2. ASSUME NEW i \in DOMAIN Tail(q), NEW j \in DOMAIN Tail(q),
             Tail(q)[i] \in U, Tail(q)[i] = Tail(q)[j]
      PROVE  i = j
  <2>1. i + 1 \in DOMAIN q /\ j + 1 \in DOMAIN q /\ q[i + 1] = q[j + 1] /\ q[i + 1] \in U
    BY <1>1, <1>2
  <2>2. i + 1 = j + 1
    BY <2>1 DEF Once
  <2> QED BY <1>1, <2>2
<1>3. ASSUME Head(q) \in U, NEW i \in DOMAIN Tail(q), Tail(q)[i] = Head(q) PROVE FALSE
  <2>1. /\ i + 1 \in DOMAIN q /\ 1 \in DOMAIN q /\ q[i + 1] = q[1] /\ q[1] \in U
        /\ i \in Nat /\ i # 0
    BY <1>1, <1>3
  <2> QED BY <2>1 DEF Once
<1> QED BY <1>2, <1>3 DEF Once, Items

\* An item that is not in the queue may be appended.
LEMMA OnceAppend ==
    ASSUME NEW S, NEW q \in Seq(S), NEW U, Once(q, U), NEW m \in S,
           m \in U => m \notin Items(q)
    PROVE  Once(Append(q, m), U)
<1>1. /\ DOMAIN q = 1..Len(q) /\ Len(q) \in Nat
      /\ DOMAIN Append(q, m) = 1..(Len(q) + 1)
      /\ \A i \in 1..Len(q) : Append(q, m)[i] = q[i]
      /\ Append(q, m)[Len(q) + 1] = m
  OBVIOUS
<1> SUFFICES ASSUME NEW i \in 1..(Len(q) + 1), NEW j \in 1..(Len(q) + 1),
                    Append(q, m)[i] \in U, Append(q, m)[i] = Append(q, m)[j]
             PROVE  i = j
  BY <1>1 DEF Once
<1>2. m \in U => \A k \in 1..Len(q) : q[k] # m
  BY <1>1 DEF Items
<1>3. i \in 1..Len(q) \/ i = Len(q) + 1
  BY <1>1
<1>4. j \in 1..Len(q) \/ j = Len(q) + 1
  BY <1>1
<1>5. CASE i \in 1..Len(q) /\ j \in 1..Len(q)
  BY <1>1, <1>5 DEF Once
<1>6. CASE i = Len(q) + 1 /\ j \in 1..Len(q)
  BY <1>1, <1>2, <1>6
<1>7. CASE j = Len(q) + 1 /\ i \in 1..Len(q)
  BY <1>1, <1>2, <1>7
<1> QED BY <1>3, <1>4, <1>5, <1>6, <1>7

\* Messages of one queue differ when they are about different services or of
\* different kinds.
LEMMA NoticesDiffer ==
    ASSUME NEW s \in Service, NEW t \in Service, NEW k \in Kinds, NEW j \in Kinds,
           Box(s, k) = Box(t, j), Notice(s, k) = Notice(t, j)
    PROVE  s = t /\ k = j
<1>1. k = j
  BY DEF Kinds, Notice, Status, From, Task
<1>2. s = t
  BY <1>1 DEF Kinds, Notice, Box, Status, From, Task
<1> QED BY <1>1, <1>2

\* Messages about services go to components, and are no tasks.
LEMMA NoticeTypes ==
    /\ \A s \in Service, k \in Kinds :
          /\ Box(s, k) \in Components /\ Notice(s, k) \in Notices
          /\ Notice(s, k).type \in {"STATUS", "STOP_SERVICE", "SUBSCRIBE",
                "UNSUBSCRIBE", "SUBSCRIBED", "UNSUBSCRIBED"}
    /\ Completed \notin Notices /\ \A t \in Tasks : t \notin Notices
<1>1. \A s \in Service, k \in Kinds : Box(s, k) \in Components
  BY Services DEF Box
<1>2. \A s \in Service, k \in Kinds : Notice(s, k).type \in {"STATUS", "STOP_SERVICE",
                "SUBSCRIBE", "UNSUBSCRIBE", "SUBSCRIBED", "UNSUBSCRIBED"}
  BY DEF Kinds, Notice, Status, From, Task
<1>3. Completed.type = "TASK_COMPLETED"
  BY DEF Completed
<1>4. \A t \in Tasks : t.type \in {"START", "STOP", "SUSPEND", "RESUME", "UNLOCK",
          "DEFERRED_RESUME", "PFW_STARTED", "PFW_STOPPED", "DEVICE_ARRIVAL",
          "DEVICE_REMOVED", "CHANGE"}
  BY TaskTypes
<1> QED BY <1>1, <1>2, <1>3, <1>4 DEF Notices

-----------------------------------------------------------------------------
(* Queues and the messages about a service                                 *)

\* The queues of a state.
Queues == {Q \in [Components -> Seq(Messages)] :
              \A d \in Components : Q[d] \in Seq(MessagesTo(d))}

\* A state has such queues.
LEMMA StateQueues ==
    ASSUME NEW l \in States
    PROVE  l.queue \in Queues
  BY DEF States, Lms, Queues, Messages

\* A message is put into a queue.
Put(Q, d, m) == [Q EXCEPT ![d] = Append(@, m)]

\* A message is taken from a queue.
Take(Q, d) == [Q EXCEPT ![d] = Tail(@)]

\* What a queue holds after putq.
LEMMA PutItems ==
    ASSUME NEW Q \in Queues, NEW d \in Components, NEW m \in Messages
    PROVE  LET P == Put(Q, d, m) IN
           /\ Items(P[d]) = Items(Q[d]) \cup {m}
           /\ \A e \in Components : e # d => P[e] = Q[e]
           /\ \A U : Once(Q[d], U) /\ (m \in U => m \notin Items(Q[d])) => Once(P[d], U)
<1> DEFINE P == Put(Q, d, m)
<1>1. Q[d] \in Seq(Messages) /\ P[d] = Append(Q[d], m)
  BY DEF Queues, Put
<1>2. Items(P[d]) = Items(Q[d]) \cup {m}
  BY <1>1, ItemsAppend
<1>3. \A e \in Components : e # d => P[e] = Q[e]
  BY DEF Queues, Put
<1>4. ASSUME NEW U, Once(Q[d], U), m \in U => m \notin Items(Q[d]) PROVE Once(P[d], U)
  BY <1>1, <1>4, OnceAppend
<1> QED BY <1>2, <1>3, <1>4

\* A message that is no notice changes no conversation.
LEMMA PutOther ==
    ASSUME NEW Q \in Queues, NEW d \in Components, NEW m \in Messages, m \notin Notices,
           \A e \in Components : Once(Q[e], Notices)
    PROVE  LET P == Put(Q, d, m) IN
           /\ \A s \in Service : UnderWay(P, s) = UnderWay(Q, s)
           /\ \A e \in Components : Once(P[e], Notices)
<1> DEFINE P == Put(Q, d, m)
<1>1. /\ Items(P[d]) = Items(Q[d]) \cup {m}
      /\ \A e \in Components : e # d => P[e] = Q[e]
      /\ Once(P[d], Notices)
  BY PutItems
<1> HIDE DEF P
<1>2. ASSUME NEW s \in Service, NEW k \in Kinds
      PROVE  Notice(s, k) \in Items(P[Box(s, k)]) <=> Notice(s, k) \in Items(Q[Box(s, k)])
  BY <1>1, NoticeTypes
<1>3. \A s \in Service : UnderWay(P, s) = UnderWay(Q, s)
  BY <1>2 DEF UnderWay
<1>4. \A e \in Components : Once(P[e], Notices)
  BY <1>1
<1> QED BY <1>3, <1>4 DEF P

\* A message about s puts s under way and nobody else.
LEMMA PutNotice ==
    ASSUME NEW Q \in Queues, NEW s \in Service, NEW k \in Kinds,
           Notice(s, k) \in Messages, k \notin UnderWay(Q, s),
           \A e \in Components : Once(Q[e], Notices)
    PROVE  LET P == Put(Q, Box(s, k), Notice(s, k)) IN
           /\ UnderWay(P, s) = UnderWay(Q, s) \cup {k}
           /\ \A t \in Service : t # s => UnderWay(P, t) = UnderWay(Q, t)
           /\ \A e \in Components : Once(P[e], Notices)
<1> DEFINE d == Box(s, k)
           m == Notice(s, k)
           P == Put(Q, d, m)
<1>1. d \in Components /\ m \in Messages /\ m \notin Items(Q[d])
  BY NoticeTypes DEF UnderWay
<1>2. /\ Items(P[d]) = Items(Q[d]) \cup {m}
      /\ \A e \in Components : e # d => P[e] = Q[e]
      /\ Once(P[d], Notices)
  <2> HIDE DEF d, m
  <2> QED BY <1>1, PutItems
<1> HIDE DEF P
<1>3. ASSUME NEW t \in Service, NEW j \in Kinds
      PROVE  Notice(t, j) \in Items(P[Box(t, j)])
                <=> Notice(t, j) \in Items(Q[Box(t, j)]) \/ (t = s /\ j = k)
  <2>1. CASE Box(t, j) = d
    <3>1. Notice(t, j) = m => t = s /\ j = k
      BY <2>1, NoticesDiffer
    <3> QED BY <1>2, <2>1, <3>1
  <2>2. CASE Box(t, j) # d
    BY <1>2, <2>2, NoticeTypes
  <2> QED BY <2>1, <2>2
<1>4. UnderWay(P, s) = UnderWay(Q, s) \cup {k}
  BY <1>3 DEF UnderWay
<1>5. \A t \in Service : t # s => UnderWay(P, t) = UnderWay(Q, t)
  BY <1>3 DEF UnderWay
<1>6. \A e \in Components : Once(P[e], Notices)
  BY <1>2
<1> QED BY <1>4, <1>5, <1>6 DEF P

\* What a queue holds after its first message was taken.
LEMMA TakeItems ==
    ASSUME NEW Q \in Queues, NEW d \in Components, Q[d] # <<>>
    PROVE  LET P == Take(Q, d) IN
           /\ P \in Queues /\ Head(Q[d]) \in MessagesTo(d)
           /\ P[d] = Tail(Q[d])
           /\ Items(Q[d]) = Items(P[d]) \cup {Head(Q[d])}
           /\ \A e \in Components : e # d => P[e] = Q[e]
           /\ \A U : Once(Q[d], U)
                 => Once(P[d], U) /\ (Head(Q[d]) \in U => Head(Q[d]) \notin Items(P[d]))
<1> DEFINE P == Take(Q, d)
<1>1. Q[d] \in Seq(Messages) /\ Q[d] \in Seq(MessagesTo(d)) /\ P[d] = Tail(Q[d])
  BY DEF Queues, Take
<1>2. /\ Tail(Q[d]) \in Seq(Messages) /\ Tail(Q[d]) \in Seq(MessagesTo(d))
      /\ Head(Q[d]) \in MessagesTo(d)
  BY <1>1
<1>3. P \in Queues
  BY <1>2 DEF Queues, Take
<1>4. \A e \in Components : e # d => P[e] = Q[e]
  BY DEF Queues, Take
<1>5. Items(Q[d]) = Items(P[d]) \cup {Head(Q[d])}
  BY <1>1, ItemsTail
<1>6. ASSUME NEW U, Once(Q[d], U)
      PROVE  Once(P[d], U) /\ (Head(Q[d]) \in U => Head(Q[d]) \notin Items(P[d]))
  BY <1>1, <1>6, OnceTail
<1> QED BY <1>1, <1>2, <1>3, <1>4, <1>5, <1>6

\* Taking a task changes no conversation.
LEMMA TakeOther ==
    ASSUME NEW Q \in Queues,
           NEW d \in Components, Q[d] # <<>>, Head(Q[d]) \notin Notices,
           \A e \in Components : Once(Q[e], Notices)
    PROVE  LET P == Take(Q, d) IN
           /\ \A s \in Service : UnderWay(P, s) = UnderWay(Q, s)
           /\ \A e \in Components : Once(P[e], Notices)
<1> DEFINE P == Take(Q, d)
<1>1. /\ Items(Q[d]) = Items(P[d]) \cup {Head(Q[d])}
      /\ \A e \in Components : e # d => P[e] = Q[e]
      /\ Once(P[d], Notices)
  BY TakeItems
<1> HIDE DEF P
<1>2. ASSUME NEW s \in Service, NEW k \in Kinds
      PROVE  Notice(s, k) \in Items(P[Box(s, k)]) <=> Notice(s, k) \in Items(Q[Box(s, k)])
  BY <1>1, NoticeTypes
<1>3. \A s \in Service : UnderWay(P, s) = UnderWay(Q, s)
  BY <1>2 DEF UnderWay
<1>4. \A e \in Components : Once(P[e], Notices)
  BY <1>1
<1> QED BY <1>3, <1>4 DEF P

\* Taking a message about s changes the conversation with s alone.
LEMMA TakeNotice ==
    ASSUME NEW Q \in Queues, NEW s \in Service, NEW k \in Kinds,
           Q[Box(s, k)] # <<>>, Head(Q[Box(s, k)]) = Notice(s, k),
           \A e \in Components : Once(Q[e], Notices)
    PROVE  LET P == Take(Q, Box(s, k)) IN
           /\ k \in UnderWay(Q, s)
           /\ UnderWay(P, s) = UnderWay(Q, s) \ {k}
           /\ \A t \in Service : t # s => UnderWay(P, t) = UnderWay(Q, t)
           /\ \A e \in Components : Once(P[e], Notices)
<1> DEFINE d == Box(s, k)
           m == Notice(s, k)
           P == Take(Q, d)
<1>1. d \in Components /\ m \in Notices
  BY NoticeTypes
<1>2. /\ Items(Q[d]) = Items(P[d]) \cup {m}
      /\ \A e \in Components : e # d => P[e] = Q[e]
      /\ Once(P[d], Notices) /\ m \notin Items(P[d])
  <2>1. Q[d] # <<>> /\ Head(Q[d]) = m
    OBVIOUS
  <2> HIDE DEF d, m
  <2>2. /\ Items(Q[d]) = Items(P[d]) \cup {Head(Q[d])}
        /\ \A e \in Components : e # d => P[e] = Q[e]
        /\ Once(P[d], Notices) /\ (Head(Q[d]) \in Notices => Head(Q[d]) \notin Items(P[d]))
    BY <1>1, <2>1, TakeItems
  <2> QED BY <1>1, <2>1, <2>2
<1> HIDE DEF P
<1>3. ASSUME NEW t \in Service, NEW j \in Kinds
      PROVE  Notice(t, j) \in Items(P[Box(t, j)])
                <=> Notice(t, j) \in Items(Q[Box(t, j)]) /\ ~(t = s /\ j = k)
  <2>1. CASE Box(t, j) = d
    <3>1. Notice(t, j) = m => t = s /\ j = k
      BY <2>1, NoticesDiffer
    <3> QED BY <1>2, <2>1, <3>1
  <2>2. CASE Box(t, j) # d
    BY <1>2, <2>2, NoticeTypes
  <2> QED BY <2>1, <2>2
<1>4. UnderWay(P, s) = UnderWay(Q, s) \ {k}
  BY <1>3 DEF UnderWay
<1>5. \A t \in Service : t # s => UnderWay(P, t) = UnderWay(Q, t)
  BY <1>3 DEF UnderWay
<1>6. \A e \in Components : Once(P[e], Notices)
  BY <1>2
<1>7. k \in UnderWay(Q, s)
  BY <1>2 DEF UnderWay
<1> QED BY <1>4, <1>5, <1>6, <1>7 DEF P

\* What the queues, the repository, the locks and the event manager say
\* together: it does not depend on tasks.
Wire(l) ==
    Letters(l.queue) /\ (\A s \in Service : Talk(l, s)) /\ Depend(l)

\* Wire looks at five fields.
LEMMA WireFrame ==
    ASSUME NEW l, NEW m, Wire(l), m.loaded = l.loaded, m.locked = l.locked,
           m.repository = l.repository, m.handlers = l.handlers, m.queue = l.queue
    PROVE  Wire(m)
  BY DEF Wire, Talk, Depend

\* The messages about a service, spelled out.
LEMMA NoticeMessages ==
    ASSUME NEW s \in Service
    PROVE  /\ Notice(s, "load") = Status(s, "load") /\ Box(s, "load") = CONF
           /\ Notice(s, "unload") = Status(s, "unload") /\ Box(s, "unload") = CONF
           /\ Notice(s, "stop") = Task("STOP_SERVICE") /\ Box(s, "stop") = s
           /\ Notice(s, "subscribe") = From("SUBSCRIBE", s) /\ Box(s, "subscribe") = "EventManager"
           /\ Notice(s, "unsubscribe") = From("UNSUBSCRIBE", s) /\ Box(s, "unsubscribe") = "EventManager"
           /\ Notice(s, "subscribed") = Task("SUBSCRIBED") /\ Box(s, "subscribed") = s
           /\ Notice(s, "unsubscribed") = Task("UNSUBSCRIBED") /\ Box(s, "unsubscribed") = s
           /\ Notice(s, "load") \in Messages /\ Notice(s, "unload") \in Messages
           /\ Notice(s, "stop") \in Messages
           /\ s \in Handler => /\ Notice(s, "subscribe") \in Messages /\ Notice(s, "unsubscribe") \in Messages
                               /\ Notice(s, "subscribed") \in Messages /\ Notice(s, "unsubscribed") \in Messages
           /\ {"load", "unload", "stop", "subscribe", "subscribed", "unsubscribe", "unsubscribed"} = Kinds
<1>1. /\ Notice(s, "load") = Status(s, "load") /\ Box(s, "load") = CONF
      /\ Notice(s, "unload") = Status(s, "unload") /\ Box(s, "unload") = CONF
      /\ Notice(s, "stop") = Task("STOP_SERVICE") /\ Box(s, "stop") = s
      /\ Notice(s, "subscribe") = From("SUBSCRIBE", s) /\ Box(s, "subscribe") = "EventManager"
      /\ Notice(s, "unsubscribe") = From("UNSUBSCRIBE", s) /\ Box(s, "unsubscribe") = "EventManager"
      /\ Notice(s, "subscribed") = Task("SUBSCRIBED") /\ Box(s, "subscribed") = s
      /\ Notice(s, "unsubscribed") = Task("UNSUBSCRIBED") /\ Box(s, "unsubscribed") = s
  BY DEF Notice, Box
<1>2. Status(s, "load") \in MessagesTo(CONF) /\ Status(s, "unload") \in MessagesTo(CONF)
  BY MessageSets DEF ConfMessages, Op
<1>3. Task("STOP_SERVICE") \in MessagesTo(s)
  BY MessageSets DEF Orders
<1>4. ASSUME s \in Handler
      PROVE  /\ From("SUBSCRIBE", s) \in MessagesTo("EventManager")
             /\ From("UNSUBSCRIBE", s) \in MessagesTo("EventManager")
             /\ Task("SUBSCRIBED") \in MessagesTo(s) /\ Task("UNSUBSCRIBED") \in MessagesTo(s)
  BY <1>4, MessageSets DEF ManagerMessages, HandlerMessages
<1> QED BY <1>1, <1>2, <1>3, <1>4, MessageSets, Services DEF Kinds

\* A task or the end of one, put into the Configurator's queue.
LEMMA WirePutTask ==
    ASSUME NEW l \in States, Wire(l), NEW x \in CalmTasks \cup {Completed}
    PROVE  Wire(PutQ(l, CONF, x))
<1>1. x \in MessagesTo(CONF) /\ x \notin Notices
  <2>1. CalmTasks \subseteq Tasks
    BY TaskMessages DEF CalmTasks
  <2>2. Completed \in MessagesTo(CONF)
    BY MessageSets DEF ConfMessages
  <2> QED BY <2>1, <2>2, TaskMessages, NoticeTypes
<1>2. x \in Messages /\ CONF \in Components /\ CONF \notin Service
  BY <1>1, MessageSets, Services
<1> DEFINE P == Put(l.queue, CONF, x)
           m == PutQ(l, CONF, x)
<1>3. /\ m.queue = P /\ m.loaded = l.loaded /\ m.locked = l.locked
      /\ m.repository = l.repository /\ m.handlers = l.handlers
  BY DEF PutQ, States, Lms, Put
<1>4. l.queue \in Queues
  BY StateQueues
<1>5. /\ \A s \in Service : UnderWay(P, s) = UnderWay(l.queue, s)
      /\ \A e \in Components : Once(P[e], Notices)
  BY <1>1, <1>2, <1>4, PutOther DEF Wire, Letters
<1>6. /\ Items(P[CONF]) = Items(l.queue[CONF]) \cup {x}
      /\ \A e \in Components : e # CONF => P[e] = l.queue[e]
  BY <1>2, <1>4, PutItems
<1> HIDE DEF P, m
<1>7. Letters(m.queue)
  BY <1>2, <1>3, <1>5, <1>6, Services DEF Wire, Letters
<1>8. \A s \in Service : Talk(m, s)
  BY <1>3, <1>5 DEF Wire, Talk
<1> QED BY <1>3, <1>7, <1>8 DEF Wire, Depend, m

\* One conversation moves on, the others stay as they are.
LEMMA WireStep ==
    ASSUME NEW l, Wire(l), NEW m, NEW s \in Service,
           Letters(m.queue),
           \A t \in Service \ {s} : /\ t \in m.loaded <=> t \in l.loaded
                                    /\ t \in m.locked <=> t \in l.locked
                                    /\ m.repository[t] = l.repository[t]
                                    /\ t \in m.handlers <=> t \in l.handlers
                                    /\ UnderWay(m.queue, t) = UnderWay(l.queue, t),
           Talk(m, s), Depend(m)
    PROVE  Wire(m)
<1>1. ASSUME NEW t \in Service, t # s PROVE Talk(m, t)
  BY <1>1 DEF Wire, Talk
<1> QED BY <1>1 DEF Wire

\* The notice is put into its box.
LEMMA LettersPut ==
    ASSUME NEW Q \in Queues, Letters(Q), NEW s \in Service, NEW k \in Kinds,
           Notice(s, k) \in Messages, k \notin UnderWay(Q, s)
    PROVE  LET P == Put(Q, Box(s, k), Notice(s, k)) IN
           /\ Letters(P)
           /\ UnderWay(P, s) = UnderWay(Q, s) \cup {k}
           /\ \A t \in Service : t # s => UnderWay(P, t) = UnderWay(Q, t)
<1> DEFINE P == Put(Q, Box(s, k), Notice(s, k))
<1>1. Box(s, k) \in Components /\ Notice(s, k) \in Notices
  BY NoticeTypes
<1>2. /\ UnderWay(P, s) = UnderWay(Q, s) \cup {k}
      /\ \A t \in Service : t # s => UnderWay(P, t) = UnderWay(Q, t)
      /\ \A e \in Components : Once(P[e], Notices)
  BY PutNotice DEF Letters
<1>3. /\ Items(P[Box(s, k)]) = Items(Q[Box(s, k)]) \cup {Notice(s, k)}
      /\ \A e \in Components : e # Box(s, k) => P[e] = Q[e]
  BY <1>1, PutItems
<1>4. Letters(P)
  BY <1>1, <1>2, <1>3, Services DEF Letters
<1> QED BY <1>2, <1>4

\* Taking a message keeps the queues as they should be.
LEMMA LettersTake ==
    ASSUME NEW Q \in Queues, Letters(Q), NEW d \in Components, Q[d] # <<>>
    PROVE  Letters(Take(Q, d))
<1> DEFINE P == Take(Q, d)
<1>1. /\ Items(Q[d]) = Items(P[d]) \cup {Head(Q[d])}
      /\ \A e \in Components : e # d => P[e] = Q[e]
      /\ Once(P[d], Notices)
  BY TakeItems DEF Letters
<1> HIDE DEF P
<1>2. Letters(P)
  BY <1>1, Services DEF Letters
<1> QED BY <1>2 DEF P

\* Services depend on the event manager and on port forwarding only
\* (ReadAbsoluteDependencies).
LEMMA Dependencies ==
    ASSUME NEW s \in Service
    PROVE  /\ AbsoluteDependencies[s] \subseteq {"EventManager", "PortForwarding"}
           /\ s \in Handler => AbsoluteDependencies[s] = {"EventManager"}
           /\ s \in {"EventManager", "PortForwarding"} => AbsoluteDependencies[s] = {}
           /\ s \in AbsoluteDependencies["DBus"] <=> s = "EventManager"
  BY Services DEF AbsoluteDependencies, Handler

\* A service is started in the repository: its first notice is on its way.
LEMMA WireStart ==
    ASSUME NEW l \in States, Wire(l), l.repository[CONF] = "active",
           NEW w \in Worlds, NEW s \in Service, s \notin l.loaded, s \notin l.locked,
           s \notin w.bad,
           AbsoluteDependencies[s] \subseteq l.loaded \ l.locked
    PROVE  LET k == [l EXCEPT !.locked = @ \cup {s}]
               m == StartInRepository(k, w, s).l IN
           /\ StartInRepository(k, w, s).ok
           /\ Wire(m) /\ m \in States
           /\ m.loaded = l.loaded /\ m.locked = l.locked \cup {s}
           /\ m.active = l.active /\ m.toLoad = l.toLoad /\ m.waitPfw = l.waitPfw
           /\ m.waiting = l.waiting /\ m.ended = l.ended
           /\ m.repository[CONF] = "active"
           /\ m.queue[CONF] = IF s \in Handler THEN l.queue[CONF]
                              ELSE Append(l.queue[CONF], Status(s, "load"))
<1> DEFINE k == [l EXCEPT !.locked = @ \cup {s}]
           up == [k EXCEPT !.repository[s] = "active"]
           j == IF s \in Handler THEN "subscribe" ELSE "load"
           m == StartInRepository(k, w, s).l
           P == Put(l.queue, Box(s, j), Notice(s, j))
<1>1. /\ Talk(l, s) /\ l.queue \in Queues /\ Letters(l.queue) /\ s \in Components
      /\ CONF \in Components
  BY StateQueues, Services DEF Wire
<1>2. l.repository[s] = "absent" /\ UnderWay(l.queue, s) = {} /\ s \notin l.handlers
  BY <1>1 DEF Talk, Converse
<1>3. k \in States
  BY LockSound, StateSets
<1>4. m \in States
  BY <1>3, StartInRepositorySound DEF Results
<1>5. /\ k.repository = l.repository /\ k.queue = l.queue /\ k.locked = l.locked \cup {s}
      /\ k.handlers = l.handlers /\ k.loaded = l.loaded
      /\ k.active = l.active /\ k.toLoad = l.toLoad /\ k.waitPfw = l.waitPfw
      /\ k.waiting = l.waiting /\ k.ended = l.ended
  BY DEF States, Lms
<1> HIDE DEF k
<1>6. /\ up.repository = [l.repository EXCEPT ![s] = "active"] /\ up.queue = l.queue
      /\ up.locked = l.locked \cup {s} /\ up.handlers = l.handlers /\ up.loaded = l.loaded
      /\ up.active = l.active /\ up.toLoad = l.toLoad /\ up.waitPfw = l.waitPfw
      /\ up.waiting = l.waiting /\ up.ended = l.ended
  BY <1>3, <1>5 DEF States, Lms
<1>7. up \in States
  BY <1>1, <1>3, RepositoryChange
<1> HIDE DEF up
<1>8. /\ up.repository[s] = "active"
      /\ \A d \in Components : d # s => up.repository[d] = l.repository[d]
  BY <1>1, <1>6 DEF States, Lms
<1>9. s \in Handler => Reachable(up, "EventManager")
  <2> HAVE s \in Handler
  <2>1. /\ "EventManager" \in l.loaded /\ "EventManager" \notin l.locked
        /\ s # "EventManager" /\ "EventManager" \in Service
    BY Dependencies, Services DEF Handler
  <2>2. l.repository["EventManager"] = "active"
    BY <2>1 DEF Wire, Talk, Converse
  <2> QED BY <1>8, <2>1, <2>2, Services DEF Reachable
<1>10. Reachable(up, CONF)
  BY <1>1, <1>8, Services DEF Reachable
<1>11. m = PutQ(up, Box(s, j), Notice(s, j)) /\ StartInRepository(k, w, s).ok
  BY <1>9, <1>10, NoticeMessages DEF StartInRepository, SendMessage, up
<1>12. m.queue = P /\ m.locked = l.locked \cup {s} /\ m.handlers = l.handlers
          /\ m.loaded = l.loaded
       /\ m.repository = up.repository
       /\ m.active = l.active /\ m.toLoad = l.toLoad /\ m.waitPfw = l.waitPfw
       /\ m.waiting = l.waiting /\ m.ended = l.ended
  BY <1>6, <1>7, <1>11 DEF PutQ, States, Lms, Put
<1> HIDE DEF m
<1>13. /\ j \in Kinds /\ Notice(s, j) \in Messages /\ j \notin UnderWay(l.queue, s)
       /\ Box(s, j) \in Components
  BY <1>2, NoticeMessages, NoticeTypes
<1>14. /\ Letters(P)
       /\ UnderWay(P, s) = UnderWay(l.queue, s) \cup {j}
       /\ \A t \in Service : t # s => UnderWay(P, t) = UnderWay(l.queue, t)
  <2> HIDE DEF j
  <2> QED BY <1>1, <1>13, LettersPut
<1>15. P[CONF] = IF s \in Handler THEN l.queue[CONF] ELSE Append(l.queue[CONF], Status(s, "load"))
  <2>1. CASE s \in Handler
    <3>1. Box(s, j) = "EventManager" /\ CONF # "EventManager"
      BY <2>1, NoticeMessages, Services
    <3> QED BY <1>1, <1>13, <2>1, <3>1 DEF Queues, Put
  <2>2. CASE s \notin Handler
    <3>1. Box(s, j) = CONF /\ Notice(s, j) = Status(s, "load")
      BY <2>2, NoticeMessages
    <3> QED BY <1>1, <1>13, <2>2, <3>1 DEF Queues, Put
  <2> QED BY <2>1, <2>2
<1> HIDE DEF P
<1>16. Talk(m, s)
  BY <1>2, <1>8, <1>12, <1>14 DEF Talk, Converse
<1>17. Depend(m)
  <2>1. \A t \in Service : s \in AbsoluteDependencies[t] => t \notin l.loaded \cup l.locked
    BY DEF Wire, Depend
  <2>2. l.loaded \subseteq Service /\ l.locked \subseteq Service
    BY StateSets
  <2>3. s \notin AbsoluteDependencies[s]
    BY Dependencies
  <2> QED BY <1>12, <2>1, <2>2, <2>3 DEF Wire, Depend
<1>18. Wire(m)
  BY <1>8, <1>12, <1>14, <1>16, <1>17, WireStep, Services
<1>19. m.repository[CONF] = "active" /\ m.queue[CONF] = P[CONF] /\ m \in States
  BY <1>1, <1>4, <1>8, <1>12, Services DEF m
<1> QED BY <1>11, <1>12, <1>15, <1>18, <1>19 DEF m, k

\* A loaded service that nobody needs is told to stop.
LEMMA WireStop ==
    ASSUME NEW l \in States, Wire(l), NEW s \in l.loaded, s \notin l.locked,
           l.active = l.loaded,
           \A t \in l.loaded \cup l.locked : s \notin AbsoluteDependencies[t]
    PROVE  LET k == [l EXCEPT !.locked = @ \cup {s}]
               m == StopAceService(k, s).l IN
           /\ StopAceService(k, s).ok
           /\ Wire(m) /\ m \in States
           /\ m.loaded = l.loaded /\ m.locked = l.locked \cup {s}
           /\ m.active = l.active /\ m.toLoad = l.toLoad /\ m.waitPfw = l.waitPfw
           /\ m.waiting = l.waiting /\ m.ended = l.ended
           /\ m.repository[CONF] = l.repository[CONF]
           /\ m.queue[CONF] = l.queue[CONF]
<1> DEFINE k == [l EXCEPT !.locked = @ \cup {s}]
           m == StopAceService(k, s).l
           P == Put(l.queue, s, Notice(s, "stop"))
<1>0. s \in Service
  BY StateSets
<1>1. /\ Talk(l, s) /\ l.queue \in Queues /\ Letters(l.queue) /\ s \in Components
      /\ CONF \in Components /\ CONF # s
  BY <1>0, StateQueues, Services DEF Wire
<1>2. /\ l.repository[s] = "active" /\ UnderWay(l.queue, s) = {}
      /\ (s \in l.handlers <=> s \in Handler)
  BY <1>1 DEF Talk, Converse
<1>3. k \in States
  BY <1>0, LockSound, StateSets
<1>4. /\ k.repository = l.repository /\ k.queue = l.queue /\ k.locked = l.locked \cup {s}
      /\ k.handlers = l.handlers /\ k.loaded = l.loaded
      /\ k.active = l.active /\ k.toLoad = l.toLoad /\ k.waitPfw = l.waitPfw
      /\ k.waiting = l.waiting /\ k.ended = l.ended
  BY DEF States, Lms
<1> HIDE DEF k
<1>5. m = PutQ(k, s, Notice(s, "stop")) /\ StopAceService(k, s).ok
  BY <1>0, <1>2, <1>4, NoticeMessages DEF StopAceService, SendMessage, Reachable
<1>6. m.queue = P /\ m.locked = l.locked \cup {s} /\ m.handlers = l.handlers /\ m.loaded
         = l.loaded
       /\ m.repository = l.repository
       /\ m.active = l.active /\ m.toLoad = l.toLoad /\ m.waitPfw = l.waitPfw
       /\ m.waiting = l.waiting /\ m.ended = l.ended
  BY <1>3, <1>4, <1>5 DEF PutQ, States, Lms, Put
<1>7. "stop" \in Kinds /\ Notice(s, "stop") \in Messages /\ "stop" \notin UnderWay(l.queue, s)
      /\ Box(s, "stop") = s /\ Notice(s, "stop") \in MessagesTo(s)
  BY <1>0, <1>2, NoticeMessages, MessageSets DEF Orders
<1>8. m \in States
  BY <1>1, <1>3, <1>5, <1>7, PutQSound
<1> HIDE DEF m
<1>9. /\ Letters(P)
      /\ UnderWay(P, s) = UnderWay(l.queue, s) \cup {"stop"}
      /\ \A t \in Service : t # s => UnderWay(P, t) = UnderWay(l.queue, t)
  <2>1. P = Put(l.queue, Box(s, "stop"), Notice(s, "stop"))
    BY <1>7
  <2> QED BY <1>0, <1>1, <1>7, <2>1, LettersPut
<1>10. P[CONF] = l.queue[CONF]
  BY <1>1 DEF Queues, Put
<1> HIDE DEF P
<1>11. Talk(m, s)
  BY <1>2, <1>6, <1>9 DEF Talk, Converse
<1>12. Depend(m)
  BY <1>6 DEF Wire, Depend
<1>13. Wire(m)
  BY <1>0, <1>6, <1>9, <1>11, <1>12, WireStep
<1> QED BY <1>5, <1>6, <1>8, <1>10, <1>13 DEF m, k

-----------------------------------------------------------------------------
(* The status of a service, as it is taken from the queue                  *)

\* What the box of a service can hold.
LEMMA BoxContents ==
    ASSUME NEW Q \in Queues, Letters(Q), NEW s \in Service, NEW x \in Items(Q[s])
    PROVE  \/ x = Task("STOP_SERVICE")
           \/ s \in Handler /\ x \in {Task("SUBSCRIBED"), Task("UNSUBSCRIBED")}
           \/ s = "EventManager" /\ \E t \in Handler : x
                 \in {From("SUBSCRIBE", t), From("UNSUBSCRIBE", t)}
<1>1. x \in Notices
  BY DEF Letters
<1>2. x \in MessagesTo(s)
  <2>1. Q[s] \in Seq(MessagesTo(s))
    BY Services DEF Queues
  <2> QED BY <2>1 DEF Items
<1>3. x # Task("SUSPEND_SERVICE")
  <2>1. x.type \in {"STATUS", "STOP_SERVICE", "SUBSCRIBE", "UNSUBSCRIBE",
           "SUBSCRIBED", "UNSUBSCRIBED"}
    <3>1. PICK t \in Service, k \in Kinds : x = Notice(t, k)
      BY <1>1 DEF Notices
    <3> QED BY <3>1, NoticeTypes
  <2> QED BY <2>1 DEF Task
<1>4. CASE s = "EventManager"
  <2>1. x \in ManagerMessages
    BY <1>2, <1>4, MessageSets
  <2> QED BY <1>3, <1>4, <2>1 DEF ManagerMessages, Orders
<1>5. CASE s \in Handler
  <2>1. x \in HandlerMessages
    BY <1>2, <1>5, MessageSets
  <2> QED BY <1>3, <1>5, <2>1 DEF HandlerMessages, Orders
<1>6. CASE s \notin Handler \cup {"EventManager"}
  <2>1. x \in Orders
    BY <1>2, <1>6, Services DEF MessagesTo
  <2> QED BY <1>3, <2>1 DEF Orders
<1> QED BY <1>4, <1>5, <1>6

\* A service that nobody talks to has an empty queue, which its removal may
\* destroy.
LEMMA EmptyBox ==
    ASSUME NEW Q \in Queues, Letters(Q), NEW s \in Service,
           {"stop", "subscribed", "unsubscribed"} \cap UnderWay(Q, s) = {},
           s = "EventManager" =>
              \A t \in Handler : {"subscribe", "unsubscribe"} \cap UnderWay(Q, t) = {}
    PROVE  Q[s] = <<>>
<1> SUFFICES ASSUME Q[s] # <<>> PROVE FALSE
  OBVIOUS
<1>1. Q[s] \in Seq(Messages) /\ Handler \subseteq Service
  BY Services DEF Queues
<1>2. PICK x : x \in Items(Q[s])
  <2>1. Head(Q[s]) \in Items(Q[s])
    BY <1>1, ItemsTail
  <2> QED BY <2>1
<1>3. x # Task("STOP_SERVICE") /\ x # Task("SUBSCRIBED") /\ x # Task("UNSUBSCRIBED")
  BY <1>2, NoticeMessages DEF UnderWay
<1>4. s = "EventManager" => \A t \in Handler : x # From("SUBSCRIBE", t)
         /\ x # From("UNSUBSCRIBE", t)
  <2> SUFFICES ASSUME s = "EventManager", NEW t \in Handler
                         PROVE x # From("SUBSCRIBE", t) /\ x # From("UNSUBSCRIBE", t)
    OBVIOUS
  <2>1. t \in Service
    BY <1>1
  <2> QED BY <1>2, <2>1, NoticeMessages DEF UnderWay
<1> QED BY <1>2, <1>3, <1>4, BoxContents

\* k is l after a message has been taken from the queue of d.
Took(l, k, d) ==
    /\ l.queue[d] # <<>>
    /\ \E n \in Seq(Components) : k = [l EXCEPT !.queue = Take(l.queue, d), !.notify = n]

\* The taking of a message touches queues and notifications.
LEMMA TookFields ==
    ASSUME NEW l \in States, NEW d \in Components, NEW k, Took(l, k, d)
    PROVE  /\ k \in States /\ k.queue = Take(l.queue, d)
           /\ k.loaded = l.loaded /\ k.active = l.active /\ k.locked = l.locked
           /\ k.toLoad = l.toLoad /\ k.waitPfw = l.waitPfw /\ k.waiting = l.waiting
           /\ k.inProcess = l.inProcess /\ k.onToggle = l.onToggle
           /\ k.toggled = l.toggled /\ k.nextTasks = l.nextTasks
           /\ k.needToStop = l.needToStop /\ k.pfwStarted = l.pfwStarted
           /\ k.scans = l.scans /\ k.scanTimer = l.scanTimer /\ k.deferred = l.deferred
           /\ k.repository = l.repository /\ k.handlers = l.handlers
           /\ k.asleep = l.asleep /\ k.ended = l.ended
<1>1. PICK n \in Seq(Components) : k = [l EXCEPT !.queue = Take(l.queue, d), !.notify = n]
  BY DEF Took
<1>2. Take(l.queue, d) \in Queues
  BY StateQueues, TakeItems DEF Took
<1>3. k \in States
  BY <1>1, <1>2 DEF States, Lms, Queues, Messages
<1> QED BY <1>1, <1>3 DEF States, Lms

\* The status of a load is taken: the service is loaded and unlocked.
LEMMA WireLoaded ==
    ASSUME NEW l \in States, Wire(l), NEW k, Took(l, k, CONF), NEW s \in Service,
           Head(l.queue[CONF]) = Status(s, "load")
    PROVE  LET m == [k EXCEPT !.loaded = @ \cup {s}, !.active = @ \cup {s}, !.locked = @ \ {s}] IN
           /\ s \in l.locked /\ s \notin l.loaded
           /\ Wire(m) /\ m \in States
<1> DEFINE m == [k EXCEPT !.loaded = @ \cup {s}, !.active = @ \cup {s}, !.locked = @ \ {s}]
<1>1. /\ k \in States /\ k.queue = Take(l.queue, CONF)
      /\ k.loaded = l.loaded /\ k.locked = l.locked
      /\ k.repository = l.repository /\ k.handlers = l.handlers
  BY TookFields, Services
<1>2. /\ m \in States /\ m.queue = Take(l.queue, CONF)
      /\ m.loaded = l.loaded \cup {s} /\ m.locked = l.locked \ {s}
      /\ m.repository = l.repository /\ m.handlers = l.handlers
  BY <1>1, ZenonT(30) DEF States, Lms
<1> HIDE DEF m
<1>3. /\ l.queue \in Queues /\ Letters(l.queue) /\ l.queue[CONF] # <<>>
      /\ CONF \in Components /\ Talk(l, s)
  BY StateQueues, Services DEF Wire, Took
<1>4. Letters(m.queue)
  BY <1>2, <1>3, LettersTake
<1>5. "load" \in Kinds /\ Box(s, "load") = CONF /\ Notice(s, "load") = Status(s, "load")
  BY NoticeMessages DEF Kinds
<1>6. /\ "load" \in UnderWay(l.queue, s)
      /\ UnderWay(m.queue, s) = UnderWay(l.queue, s) \ {"load"}
      /\ \A t \in Service : t # s => UnderWay(m.queue, t) = UnderWay(l.queue, t)
  BY <1>2, <1>3, <1>5, TakeNotice DEF Letters
<1>7. /\ s \in l.locked /\ s \notin l.loaded /\ l.repository[s] = "active"
      /\ UnderWay(l.queue, s) = {"load"} /\ (s \in l.handlers <=> s \in Handler)
  BY <1>3, <1>6 DEF Talk, Converse
<1>8. Talk(m, s)
  BY <1>2, <1>6, <1>7 DEF Talk, Converse
<1>9. Depend(m)
  BY <1>2, <1>7 DEF Wire, Depend
<1>10. Wire(m)
  BY <1>2, <1>4, <1>6, <1>8, <1>9, WireStep
<1> QED BY <1>2, <1>7, <1>10 DEF m

\* The status of an unload is taken: the service is removed.
LEMMA WireUnloaded ==
    ASSUME NEW l \in States, Wire(l), NEW k, Took(l, k, CONF), NEW s \in Service,
           Head(l.queue[CONF]) = Status(s, "unload")
    PROVE  LET m == FiniAceService(k, s) IN
           /\ s \in l.locked /\ s \in l.loaded
           /\ Wire(m) /\ m \in States
           /\ m.loaded = l.loaded \ {s} /\ m.active = l.active \ {s}
           /\ m.locked = l.locked \ {s}
           /\ m.queue = Take(l.queue, CONF)
           /\ m.repository[CONF] = l.repository[CONF]
           /\ m.waiting = l.waiting /\ m.waitPfw = l.waitPfw
           /\ m.toLoad = IF m.loaded = {} THEN {} ELSE l.toLoad
           /\ m.ended <=> l.ended \/ (m.loaded = {} /\ l.needToStop)
<1> DEFINE m == FiniAceService(k, s)
           h == IF s = "EventManager" THEN {} ELSE k.handlers
<1>1. /\ k \in States /\ k.queue = Take(l.queue, CONF)
      /\ k.loaded = l.loaded /\ k.locked = l.locked /\ k.active = l.active
      /\ k.repository = l.repository /\ k.handlers = l.handlers
      /\ k.waiting = l.waiting /\ k.waitPfw = l.waitPfw /\ k.toLoad = l.toLoad
      /\ k.ended = l.ended /\ k.needToStop = l.needToStop
  BY TookFields, Services
<1>2. l.queue \in Queues /\ Letters(l.queue) /\ l.queue[CONF] # <<>> /\ CONF
         \in Components /\ Talk(l, s)
      /\ s \in Components /\ s # CONF
  BY StateQueues, Services DEF Wire, Took
<1>3. /\ "unload" \in Kinds /\ Box(s, "unload") = CONF
      /\ Notice(s, "unload") = Status(s, "unload")
  BY NoticeMessages DEF Kinds
<1>4. /\ "unload" \in UnderWay(l.queue, s)
      /\ UnderWay(k.queue, s) = UnderWay(l.queue, s) \ {"unload"}
      /\ \A t \in Service : t # s => UnderWay(k.queue, t) = UnderWay(l.queue, t)
  BY <1>1, <1>2, <1>3, TakeNotice DEF Letters
<1>5. /\ s \in l.locked /\ s \in l.loaded /\ UnderWay(l.queue, s) = {"unload"}
      /\ s \notin l.handlers
  BY <1>2, <1>4 DEF Talk, Converse
<1>6. UnderWay(k.queue, s) = {}
  BY <1>4, <1>5
<1>7. Letters(k.queue) /\ k.queue \in Queues
  BY <1>1, <1>2, LettersTake, StateQueues
<1>8. s = "EventManager" =>
         \A t \in Handler : /\ t \in Service /\ t # s /\ t \notin l.loaded /\ t \notin l.locked
                            /\ t \notin l.handlers /\ UnderWay(k.queue, t) = {}
  <2> SUFFICES ASSUME s = "EventManager", NEW t \in Handler
               PROVE /\ t \in Service /\ t # s /\ t \notin l.loaded /\ t \notin l.locked
                     /\ t \notin l.handlers /\ UnderWay(k.queue, t) = {}
    OBVIOUS
  <2>1. t \in Service /\ t # s
    BY Services DEF Handler
  <2>2. "EventManager" \in AbsoluteDependencies[t]
    BY <2>1, Dependencies
  <2>3. t \notin l.loaded /\ t \notin l.locked
    BY <1>5, <2>2 DEF Wire, Depend
  <2>4. t \notin l.handlers /\ UnderWay(l.queue, t) = {}
    BY <2>1, <2>3 DEF Wire, Talk, Converse
  <2> QED BY <1>4, <2>1, <2>3, <2>4
<1>9. k.queue[s] = <<>>
  BY <1>6, <1>7, <1>8, EmptyBox
<1>10. h = l.handlers
  <2>1. l.handlers \subseteq Handler
    BY DEF States, Lms
  <2> QED BY <1>1, <1>8, <2>1
<1>11. /\ m.queue = k.queue
       /\ m.repository = [k.repository EXCEPT ![s] = "absent"]
       /\ m.handlers = h /\ m.loaded = k.loaded \ {s} /\ m.active = k.active \ {s}
       /\ m.locked = k.locked \ {s} /\ m.waiting = k.waiting /\ m.waitPfw = k.waitPfw
       /\ m.toLoad = IF m.loaded = {} THEN {} ELSE k.toLoad
       /\ m.ended <=> k.ended \/ (m.loaded = {} /\ k.needToStop)
  <2> DEFINE n == [k EXCEPT !.repository[s] = "absent", !.queue[s] = <<>>,
                            !.handlers = IF s = "EventManager" THEN {} ELSE @,
                            !.loaded = @ \ {s}, !.active = @ \ {s},
                            !.locked = @ \ {s}]
  <2>1. /\ n.queue = [k.queue EXCEPT ![s] = <<>>]
        /\ n.repository = [k.repository EXCEPT ![s] = "absent"]
        /\ n.handlers = h /\ n.loaded = k.loaded \ {s} /\ n.active = k.active \ {s}
        /\ n.locked = k.locked \ {s} /\ n.waiting = k.waiting /\ n.waitPfw = k.waitPfw
        /\ n.toLoad = k.toLoad /\ n.ended = k.ended /\ n.needToStop = k.needToStop
    BY <1>1 DEF States, Lms
  <2>2. [k.queue EXCEPT ![s] = <<>>] = k.queue
    BY <1>2, <1>7, <1>9 DEF Queues
  <2>3. m = IF n.loaded # {} THEN n ELSE [n EXCEPT !.toLoad = {}, !.ended = @ \/ n.needToStop]
    BY <1>1, <1>5 DEF FiniAceService
  <2>4. DOMAIN n = DOMAIN k
    OBVIOUS
  <2>5. DOMAIN k = {"loaded", "active", "locked", "toLoad", "waitPfw", "waiting",
                    "inProcess", "onToggle", "toggled", "nextTasks", "needToStop",
                    "pfwStarted", "scans", "scanTimer", "deferred", "repository",
                    "queue", "notify", "handlers", "asleep", "ended"}
    BY <1>1 DEF States, Lms
  <2> HIDE DEF n, h
  <2>6. CASE n.loaded # {}
    BY <2>1, <2>2, <2>3, <2>6
  <2>7. CASE n.loaded = {}
    <3> DEFINE e == n.ended \/ n.needToStop
    <3>1. m = [n EXCEPT !.toLoad = {}, !.ended = e]
      BY <2>3, <2>7
    <3> HIDE DEF e
    <3>2. /\ m.queue = n.queue /\ m.repository = n.repository /\ m.handlers = n.handlers
          /\ m.loaded = n.loaded /\ m.active = n.active /\ m.locked = n.locked
          /\ m.waiting = n.waiting /\ m.waitPfw = n.waitPfw /\ m.toLoad = {}
          /\ m.ended = e
      BY <2>4, <2>5, <3>1
    <3> QED BY <2>1, <2>2, <2>7, <3>2 DEF e
  <2> QED BY <2>6, <2>7
<1>12. m \in States
  BY <1>1, FiniSound
<1> HIDE DEF m, h
<1>13. /\ m.repository[s] = "absent"
       /\ \A t \in Components : t # s => m.repository[t] = l.repository[t]
  <2>1. k.repository \in [Components -> {"absent", "active", "closed", "suspended"}]
    BY <1>1 DEF States, Lms
  <2> QED BY <1>1, <1>2, <1>11, <2>1
<1>14. Talk(m, s)
  BY <1>1, <1>5, <1>6, <1>10, <1>11, <1>13 DEF Talk, Converse
<1>15. Depend(m)
  BY <1>1, <1>5, <1>11 DEF Wire, Depend
<1>16. Wire(m)
  <2>1. \A t \in Service \ {s} : /\ t \in m.loaded <=> t \in l.loaded
                                 /\ t \in m.locked <=> t \in l.locked
                                 /\ m.repository[t] = l.repository[t]
                                 /\ t \in m.handlers <=> t \in l.handlers
                                 /\ UnderWay(m.queue, t) = UnderWay(l.queue, t)
    BY <1>1, <1>4, <1>10, <1>11, <1>13, Services
  <2>2. Letters(m.queue)
    BY <1>7, <1>11
  <2> QED BY <1>14, <1>15, <2>1, <2>2, WireStep
<1> QED BY <1>1, <1>2, <1>5, <1>11, <1>12, <1>13, <1>16 DEF m

-----------------------------------------------------------------------------
(* The steps of the services                                               *)

\* The invariant of the calm scenario.
Sane(l) == l \in States /\ Calm(l) /\ Wire(l) /\ Tasking(l)

\* The fields that Calm and Tasking read, but for the Configurator's queue.
SameTask(l, m) ==
    /\ m.loaded = l.loaded /\ m.active = l.active /\ m.locked = l.locked
    /\ m.toLoad = l.toLoad /\ m.waitPfw = l.waitPfw /\ m.waiting = l.waiting
    /\ m.inProcess = l.inProcess /\ m.onToggle = l.onToggle
    /\ m.toggled = l.toggled /\ m.nextTasks = l.nextTasks
    /\ m.needToStop = l.needToStop /\ m.scanTimer = l.scanTimer
    /\ m.deferred = l.deferred /\ m.asleep = l.asleep /\ m.ended = l.ended

\* Who leaves these fields and the Configurator's queue alone leaves the tasks
\* where they stand.
LEMMA SameTaskKept ==
    ASSUME NEW l, NEW m, SameTask(l, m), m.queue[CONF] = l.queue[CONF]
    PROVE  Tasking(l) => Tasking(m)
<1>1. \A t : Prerequisites(m, t, "load") = Prerequisites(l, t, "load")
  BY DEF SameTask, Prerequisites
<1>2. \A t : Loading(l, t) => Loading(m, t)
  BY <1>1 DEF SameTask, Loading
<1>3. Ended(m) <=> Ended(l)
  BY DEF Ended
<1>4. Rest(l) => Rest(m)
  BY DEF SameTask, Rest, Quiet
<1>5. Unloading(l) => Unloading(m)
  BY DEF SameTask, Unloading
<1>6. Open(l) => Open(m)
  BY <1>2, <1>3, <1>4, <1>5 DEF SameTask, Open
<1>7. Closing(l) => Closing(m)
  BY DEF SameTask, Closing
<1>8. Wanted(l) => Wanted(m)
  BY DEF SameTask, Wanted
<1>9. Begun(l) => Begun(m)
  BY DEF SameTask, Begun, Quiet
<1> QED BY <1>6, <1>7, <1>8, <1>9 DEF Tasking, SameTask

\* The order of the reactor's notifications does not matter.
LEMMA Notified ==
    ASSUME NEW l, Sane(l), NEW n \in Seq(Components)
    PROVE  Sane([l EXCEPT !.notify = n])
<1> DEFINE m == [l EXCEPT !.notify = n]
<1>1. l \in States
  BY DEF Sane
<1>2. m \in States
  BY <1>1 DEF States, Lms
<1>3. /\ SameTask(l, m) /\ m.queue = l.queue /\ m.repository = l.repository
      /\ m.handlers = l.handlers
  BY <1>1 DEF States, Lms, SameTask
<1> HIDE DEF m
<1>4. Wire(m)
  BY <1>3, WireFrame DEF Sane, SameTask
<1>5. Calm(m)
  BY <1>3 DEF Sane, Calm, SameTask
<1>6. Tasking(m)
  BY <1>3, SameTaskKept DEF Sane
<1> QED BY <1>2, <1>4, <1>5, <1>6 DEF Sane, m

\* What is dropped from them does not matter either.
LEMMA HandledSane ==
    ASSUME NEW s \in Components, NEW l, Sane(l), Handled(s, l)
    PROVE  Sane(lms')
<1>1. CASE lms' = l
  BY <1>1
<1>2. CASE lms' = Served(l)
  <2> DEFINE todo == {i \in DOMAIN l.notify : ShouldPass(l, l.notify[i])}
             i == CHOOSE i \in todo : \A j \in todo : i <= j
             n == IF todo = {} THEN <<>> ELSE SubSeq(l.notify, i, Len(l.notify))
  <2>0. l \in States
    BY DEF Sane
  <2>1. Served(l) = [l EXCEPT !.notify = n]
    <3>1. CASE todo = {}
      <4>1. n = <<>> /\ Served(l) = [l EXCEPT !.notify = <<>>]
        BY <3>1 DEF Served
      <4> QED BY <4>1
    <3>2. CASE todo # {}
      <4>1. n = SubSeq(l.notify, i, Len(l.notify))
        BY <3>2
      <4>2. Served(l) = [l EXCEPT !.notify = SubSeq(l.notify, i, Len(l.notify))]
        BY <3>2 DEF Served
      <4> QED BY <4>1, <4>2
    <3> QED BY <3>1, <3>2
  <2>2. Served(l) \in States /\ Served(l).notify \in Seq(Components)
    <3>1. Served(l) \in States
      BY <2>0, ServedSound
    <3> QED BY <3>1 DEF States, Lms
  <2>3. Served(l).notify = n
    <3> HIDE DEF n
    <3> QED BY <2>0, <2>1 DEF States, Lms
  <2> HIDE DEF n
  <2> QED BY <1>2, <2>1, <2>2, <2>3, Notified
<1> QED BY <1>1, <1>2 DEF Handled

\* A dispatch takes the first message of a queue.
LEMMA TakenTook ==
    ASSUME lms \in States, NEW s \in Components, Dispatched(s)
    PROVE  Took(lms, Taken(s), s)
<1>1. lms.queue[s] # <<>>
  BY DEF Dispatched, ShouldPass
<1>2. CASE running = None
  <2>1. lms.notify # <<>> /\ lms.notify \in Seq(Components)
    <3>1. running # s
      BY <1>2, ConfiguratorConstants
    <3> QED BY <3>1 DEF Dispatched, States, Lms
  <2>2. Tail(lms.notify) \in Seq(Components)
    BY <2>1
  <2>3. Taken(s) = [lms EXCEPT !.queue = Take(lms.queue, s), !.notify = Tail(lms.notify)]
    BY <1>2 DEF Taken, Take, States, Lms
  <2> QED BY <1>1, <2>2, <2>3 DEF Took
<1>3. CASE running # None
  <2>1. lms.notify \in Seq(Components)
    BY DEF States, Lms
  <2>2. Taken(s) = [lms EXCEPT !.queue = Take(lms.queue, s), !.notify = lms.notify]
    BY <1>3 DEF Taken, Take, States, Lms
  <2> QED BY <1>1, <2>1, <2>2 DEF Took
<1> QED BY <1>2, <1>3

\* A notice or a task arrives at the Configurator and is not the end of a task.
LEMMA TaskingPut ==
    ASSUME NEW l \in States, NEW m, Tasking(l), SameTask(l, m),
           NEW x \in (CalmTasks \cup Notices) \ {Status("HostChanges", "load")},
           x \in Messages, m.queue[CONF] = Append(l.queue[CONF], x),
           x \in Wants /\ ~l.needToStop => l.toLoad # {}
    PROVE  Tasking(m)
<1> DEFINE q == l.queue[CONF]
           p == m.queue[CONF]
<1>1. q \in Seq(Messages) /\ p = Append(q, x) /\ CONF \in Components
  BY StateQueues, Services DEF Queues
<1>2. Items(p) = Items(q) \cup {x}
  BY <1>1, ItemsAppend
<1>3. x # Completed /\ x # Begin
  <2>1. x \in CalmTasks => x.type \in {"STOP", "PFW_STARTED", "PFW_STOPPED", "CHANGE"}
    BY TaskTypes DEF CalmTasks, Task
  <2>2. Begin \in Tasks /\ Begin.type = "START" /\ Completed.type = "TASK_COMPLETED"
    BY TaskMessages DEF Begin, Task, Completed
  <2> QED BY <2>1, <2>2, NoticeTypes
<1>4. Once(q, {Completed}) => Once(p, {Completed})
  BY <1>1, <1>3, OnceAppend
<1>5. Once(q, {Begin}) => Once(p, {Begin})
  BY <1>1, <1>3, OnceAppend
<1>6. Precedes(q, Status("HostChanges", "load"), Status("EventManager", "load"))
       => Precedes(p, Status("HostChanges", "load"), Status("EventManager", "load"))
  <2>1. /\ DOMAIN q = 1..Len(q) /\ Len(q) \in Nat /\ DOMAIN p = 1..(Len(q) + 1)
        /\ \A i \in 1..Len(q) : p[i] = q[i]
        /\ p[Len(q) + 1] = x
    BY <1>1
  <2>2. x # Status("HostChanges", "load")
    OBVIOUS
  <2> HIDE DEF p, q
  <2> SUFFICES ASSUME Precedes(q, Status("HostChanges", "load"), Status("EventManager", "load")),
                      NEW i \in DOMAIN p, NEW j \in DOMAIN p,
                      p[i] = Status("HostChanges", "load"), p[j] = Status("EventManager", "load")
               PROVE  i < j
    BY DEF Precedes
  <2>3. i \in 1..Len(q)
    BY <2>1, <2>2
  <2>4. CASE j = Len(q) + 1
    BY <2>1, <2>3, <2>4
  <2>5. CASE j \in 1..Len(q)
    BY <2>1, <2>3, <2>5 DEF Precedes
  <2> QED BY <2>1, <2>4, <2>5
<1>7. \A t : Prerequisites(m, t, "load") = Prerequisites(l, t, "load")
  BY DEF SameTask, Prerequisites
<1>8. Ended(m) <=> Ended(l)
  BY <1>2, <1>3 DEF Ended
<1>9. q # <<>> => p[1] = q[1]
  BY <1>1
<1>10. Begin \in Items(q) => q # <<>>
  BY DEF Items
<1>11. Items(q) \subseteq Items(p)
  BY <1>2
<1>12. Begin \in Items(p) => Begin \in Items(q)
  BY <1>2, <1>3
<1>13. Items(p) \cap Wants # {} => Items(q) \cap Wants # {} \/ x \in Wants
  BY <1>2
<1> HIDE DEF p, q
<1>14. \A t : Loading(l, t) => Loading(m, t)
  BY <1>6, <1>7 DEF SameTask, Loading, p, q
<1>15. Rest(l) => Rest(m)
  BY DEF SameTask, Rest, Quiet
<1>16. Unloading(l) => Unloading(m)
  BY DEF SameTask, Unloading
<1>17. Open(l) => Open(m)
  BY <1>4, <1>8, <1>14, <1>15, <1>16 DEF SameTask, Open, p, q
<1>18. Closing(l) => Closing(m)
  BY DEF SameTask, Closing
<1>19. ~l.needToStop /\ Wanted(l) => Wanted(m)
  BY <1>13 DEF SameTask, Wanted, p, q
<1>20. Begun(l) => Begun(m)
  BY <1>5, <1>9, <1>10, <1>12 DEF SameTask, Begun, Quiet, p, q
<1> QED BY <1>17, <1>18, <1>19, <1>20 DEF Tasking, SameTask

\* One notice of the conversation of s is taken, the next one is put.
LEMMA Reply ==
    ASSUME NEW l \in States, Wire(l), NEW s \in Service, NEW i \in Kinds,
           NEW j \in Kinds,
           l.queue[Box(s, i)] # <<>>, Head(l.queue[Box(s, i)]) = Notice(s, i),
           Notice(s, j) \in Messages,
           NEW m, m.queue = Put(Take(l.queue, Box(s, i)), Box(s, j), Notice(s, j)),
           m.loaded = l.loaded, m.locked = l.locked,
           \A t \in Service \ {s} : m.repository[t] = l.repository[t],
           \A t \in Service \ {s} : t \in m.handlers <=> t \in l.handlers,
           UnderWay(m.queue, s) = {j} => Talk(m, s)
    PROVE  Wire(m) /\ UnderWay(l.queue, s) = {i}
<1> DEFINE Q == l.queue
           K == Take(Q, Box(s, i))
           P == Put(K, Box(s, j), Notice(s, j))
<1>1. Q \in Queues /\ Letters(Q) /\ Box(s, i) \in Components /\ Talk(l, s)
  BY StateQueues, NoticeTypes DEF Wire
<1>2. Letters(K) /\ K \in Queues
  BY <1>1, LettersTake, TakeItems
<1>3. /\ i \in UnderWay(Q, s)
      /\ UnderWay(K, s) = UnderWay(Q, s) \ {i}
      /\ \A t \in Service : t # s => UnderWay(K, t) = UnderWay(Q, t)
  BY <1>1, TakeNotice DEF Letters
<1>4. UnderWay(Q, s) = {i}
  BY <1>1, <1>3 DEF Talk, Converse
<1> HIDE DEF K
<1>5. j \notin UnderWay(K, s)
  BY <1>3, <1>4
<1>6. /\ Letters(P)
      /\ UnderWay(P, s) = {j}
      /\ \A t \in Service : t # s => UnderWay(P, t) = UnderWay(Q, t)
  BY <1>2, <1>3, <1>4, <1>5, LettersPut
<1>7. m.queue = P
  BY DEF K
<1> HIDE DEF P
<1>8. Talk(m, s)
  BY <1>6, <1>7
<1>9. Depend(m)
  BY DEF Wire, Depend
<1> QED BY <1>4, <1>6, <1>7, <1>8, <1>9, WireStep

\* What a service did with a message it took.
Replies(l, m, s) ==
    /\ m \in States /\ Wire(m) /\ SameTask(l, m)
    /\ m.repository[CONF] = l.repository[CONF]
    /\ \/ m.queue[CONF] = l.queue[CONF]
       \/ m.queue[CONF] = Append(l.queue[CONF], Status(s, "unload"))
       \/ s \in Handler /\ m.queue[CONF] = Append(l.queue[CONF], Status(s, "load"))

\* Such an answer keeps the invariant: it ends no task and starts none.
LEMMA RepliesSane ==
    ASSUME NEW l, Sane(l), NEW s \in Service, NEW m, Replies(l, m, s)
    PROVE  Sane(m)
<1>1. l \in States /\ Tasking(l) /\ Calm(l)
  BY DEF Sane
<1>2. Calm(m)
  BY <1>1 DEF Calm, Replies, SameTask
<1>3. ASSUME m.queue[CONF] = l.queue[CONF] PROVE Tasking(m)
  BY <1>1, <1>3, SameTaskKept DEF Replies
<1>4. ASSUME NEW x, x \in {Status(s, "load"), Status(s, "unload")},
             x = Status(s, "load") => s \in Handler,
             m.queue[CONF] = Append(l.queue[CONF], x)
      PROVE  Tasking(m)
  <2>1. x \in Notices /\ x \in Messages
    BY <1>4, NoticeMessages, NoticeTypes
  <2>2. x # Status("HostChanges", "load")
    BY <1>4 DEF Status, Handler
  <2>3. x \notin Wants
    <3>1. Wants \subseteq Tasks
      BY TaskMessages DEF Wants
    <3> QED BY <2>1, <3>1, NoticeTypes
  <2> QED BY <1>1, <1>4, <2>1, <2>2, <2>3, TaskingPut DEF Replies
<1>5. Tasking(m)
  <2>1. CASE m.queue[CONF] = l.queue[CONF]
    BY <1>3, <2>1
  <2>2. CASE m.queue[CONF] = Append(l.queue[CONF], Status(s, "unload"))
    <3>1. Status(s, "unload") # Status(s, "load")
      BY DEF Status
    <3> QED BY <1>4, <2>2, <3>1
  <2>3. CASE s \in Handler /\ m.queue[CONF] = Append(l.queue[CONF], Status(s, "load"))
    BY <1>4, <2>3
  <2> QED BY <2>1, <2>2, <2>3 DEF Replies
<1> QED BY <1>2, <1>5 DEF Sane, Replies

\* A service took the notice i and sent the notice j.
LEMMA Replied ==
    ASSUME NEW l, Sane(l), NEW s \in Service, NEW i \in Kinds, NEW j \in Kinds,
           Box(s, i) # CONF, NEW k, Took(l, k, Box(s, i)),
           Head(l.queue[Box(s, i)]) = Notice(s, i), Notice(s, j) \in Messages,
           j \in {"load", "subscribed", "unsubscribed", "unsubscribe"} => s \in Handler,
           j # "subscribe",
           NEW m \in States, SameTask(k, m),
           m.queue = Put(k.queue, Box(s, j), Notice(s, j)),
           \A t \in Components \ {s} : m.repository[t] = k.repository[t],
           \A t \in Service \ {s} : t \in m.handlers <=> t \in k.handlers,
           UnderWay(m.queue, s) = {j} => Talk(m, s)
    PROVE  Sane(m)
<1>1. l \in States /\ Wire(l) /\ l.queue[Box(s, i)] # <<>> /\ Box(s, i) \in Components
      /\ CONF \in Components /\ Box(s, j) \in Components
  BY NoticeTypes, Services DEF Sane, Took
<1>2. /\ k.queue = Take(l.queue, Box(s, i)) /\ SameTask(l, k) /\ k.repository = l.repository
      /\ k.handlers = l.handlers
  BY <1>1, TookFields DEF SameTask
<1>3. SameTask(l, m) /\ m.loaded = l.loaded /\ m.locked = l.locked
  BY <1>2 DEF SameTask
<1>4. Wire(m)
  <2>1. m.queue = Put(Take(l.queue, Box(s, i)), Box(s, j), Notice(s, j))
    BY <1>2
  <2>2. \A t \in Service \ {s} : m.repository[t] = l.repository[t]
    BY <1>2, Services
  <2>3. \A t \in Service \ {s} : t \in m.handlers <=> t \in l.handlers
    BY <1>2
  <2> QED BY <1>1, <1>3, <2>1, <2>2, <2>3, Reply
<1>5. m.repository[CONF] = l.repository[CONF]
  BY <1>2, Services
<1>6. /\ Take(l.queue, Box(s, i)) \in Queues
      /\ Take(l.queue, Box(s, i))[CONF] = l.queue[CONF]
  BY <1>1, StateQueues, TakeItems
<1>7. m.queue[CONF] = IF Box(s, j)
         = CONF THEN Append(l.queue[CONF], Notice(s, j)) ELSE l.queue[CONF]
  BY <1>1, <1>2, <1>6 DEF Put, Queues
<1>8. Box(s, j) = CONF =>
         \/ j = "load" /\ Notice(s, j) = Status(s, "load")
         \/ j = "unload" /\ Notice(s, j) = Status(s, "unload")
  BY Services, NoticeMessages DEF Kinds
<1>9. Replies(l, m, s)
  BY <1>3, <1>4, <1>5, <1>7, <1>8 DEF Replies
<1> QED BY <1>9, RepliesSane

\* The fields of a state.
LEMMA Fields ==
    ASSUME NEW k \in States
    PROVE  /\ DOMAIN k = {"loaded", "active", "locked", "toLoad", "waitPfw", "waiting",
                  "inProcess", "onToggle", "toggled", "nextTasks", "needToStop",
                  "pfwStarted", "scans", "scanTimer", "deferred", "repository",
                  "queue", "notify", "handlers", "asleep", "ended"}
           /\ k.repository \in [Components -> {"absent", "active", "closed", "suspended"}]
           /\ k.handlers \in SUBSET Handler
  BY DEF States, Lms

\* A service changes its state in the repository.
InRepository(k, u, r) == [k EXCEPT !.repository[u] = r]

\* The event manager binds and unbinds handlers.
WithHandlers(k, h) == [k EXCEPT !.handlers = h]

\* A message is sent.
LEMMA Sends ==
    ASSUME NEW k \in States, NEW d, NEW x, NEW m, m = PutQ(k, d, x)
    PROVE  /\ SameTask(k, m) /\ m.queue = Put(k.queue, d, x)
           /\ m.handlers = k.handlers /\ m.repository = k.repository
  BY Fields DEF PutQ, Put, SameTask

\* The same, after a change of the repository.
LEMMA SendsMoved ==
    ASSUME NEW k \in States, NEW u \in Components, NEW r, NEW d, NEW x, NEW m,
           m = PutQ(InRepository(k, u, r), d, x)
    PROVE  /\ SameTask(k, m) /\ m.queue = Put(k.queue, d, x)
           /\ m.handlers = k.handlers /\ m.repository[u] = r
           /\ \A t \in Components \ {u} : m.repository[t] = k.repository[t]
<1>1. /\ SameTask(k, m) /\ m.queue = Put(k.queue, d, x) /\ m.handlers = k.handlers
      /\ m.repository = [k.repository EXCEPT ![u] = r]
  BY Fields DEF PutQ, Put, SameTask, InRepository
<1> QED BY <1>1, Fields

\* The same, before a change of the repository.
LEMMA SendsMoves ==
    ASSUME NEW k \in States, NEW u \in Components, NEW r, NEW d, NEW x, NEW m,
           m = InRepository(PutQ(k, d, x), u, r)
    PROVE  /\ SameTask(k, m) /\ m.queue = Put(k.queue, d, x)
           /\ m.handlers = k.handlers /\ m.repository[u] = r
           /\ \A t \in Components \ {u} : m.repository[t] = k.repository[t]
<1>1. /\ SameTask(k, m) /\ m.queue = Put(k.queue, d, x) /\ m.handlers = k.handlers
      /\ m.repository = [k.repository EXCEPT ![u] = r]
  BY Fields DEF PutQ, Put, SameTask, InRepository
<1> QED BY <1>1, Fields

\* The same, with a change of the handlers.
LEMMA SendsBound ==
    ASSUME NEW k \in States, NEW h, NEW d, NEW x,
           NEW m, m = PutQ(WithHandlers(k, h), d, x)
    PROVE  /\ SameTask(k, m) /\ m.queue = Put(k.queue, d, x)
           /\ m.handlers = h /\ m.repository = k.repository
  BY Fields DEF PutQ, Put, SameTask, WithHandlers

\* A change of one service does not make another unreachable.
LEMMA StillReachable ==
    ASSUME NEW k \in States, NEW u \in Components, NEW r, NEW h, NEW d \in Components
    PROVE  /\ d # u => (Reachable(InRepository(k, u, r), d) <=> Reachable(k, d))
           /\ Reachable(WithHandlers(k, h), d) <=> Reachable(k, d)
  BY Fields DEF InRepository, WithHandlers, Reachable

\* Where a notice that is taken finds its service.
LEMMA TakenNotice ==
    ASSUME NEW l, Sane(l), NEW s \in Service, NEW i \in Kinds,
           NEW k, Took(l, k, Box(s, i)),
           Head(l.queue[Box(s, i)]) = Notice(s, i)
    PROVE  /\ l \in States /\ k \in States /\ Wire(l) /\ SameTask(l, k)
           /\ Talk(l, s) /\ UnderWay(l.queue, s) = {i}
           /\ k.queue = Take(l.queue, Box(s, i)) /\ k.repository = l.repository
           /\ k.handlers = l.handlers /\ l.repository[CONF] = "active"
           /\ s \in Components /\ CONF \in Components /\ s # CONF
<1>1. /\ l \in States /\ Wire(l) /\ l.queue[Box(s, i)] # <<>> /\ Box(s, i) \in Components
      /\ l.queue \in Queues /\ Letters(l.queue) /\ Talk(l, s)
  BY NoticeTypes, StateQueues DEF Sane, Took, Wire
<1>2. i \in UnderWay(l.queue, s)
  BY <1>1, TakeNotice DEF Letters
<1>3. UnderWay(l.queue, s) = {i}
  BY <1>1, <1>2 DEF Talk, Converse
<1>5. k \in States /\ SameTask(l, k) /\ k.queue = Take(l.queue, Box(s, i))
      /\ k.repository = l.repository /\ k.handlers = l.handlers
  BY <1>1, TookFields DEF SameTask
<1> QED BY <1>1, <1>3, <1>5, Services DEF Sane, Calm

\* A service that is no event handler is told to stop.
LEMMA StopMessage ==
    ASSUME NEW l, Sane(l), NEW s \in Service \ Handler, NEW k, Took(l, k, s),
           Head(l.queue[s]) = Task("STOP_SERVICE"),
           HandleServiceMessage(k, s, Task("STOP_SERVICE")) \in States
    PROVE  Sane(HandleServiceMessage(k, s, Task("STOP_SERVICE")))
<1> DEFINE m == HandleServiceMessage(k, s, Task("STOP_SERVICE"))
           up == InRepository(k, s, "closed")
<1>1. /\ Notice(s, "stop") = Task("STOP_SERVICE") /\ Box(s, "stop") = s
      /\ Notice(s, "unload") = Status(s, "unload") /\ Box(s, "unload") = CONF
      /\ Notice(s, "unload") \in Messages
      /\ "stop" \in Kinds /\ "unload" \in Kinds
  BY NoticeMessages
<1>2. /\ l \in States /\ k \in States /\ Wire(l) /\ SameTask(l, k)
      /\ Talk(l, s) /\ UnderWay(l.queue, s) = {"stop"}
      /\ k.repository = l.repository
      /\ k.handlers = l.handlers /\ l.repository[CONF] = "active"
      /\ s \in Components /\ CONF \in Components /\ s # CONF
  BY <1>1, TakenNotice
<1>3. m = SendMessage(up, CONF, Notice(s, "unload"))
  BY <1>1 DEF HandleServiceMessage, Task, InRepository
<1>4. Reachable(up, CONF)
  <2>1. Reachable(k, CONF)
    BY <1>2 DEF Reachable
  <2> QED BY <1>2, <2>1, StillReachable
<1>5. m = PutQ(up, CONF, Notice(s, "unload"))
  BY <1>3, <1>4 DEF SendMessage
<1>6. /\ SameTask(k, m) /\ m.queue = Put(k.queue, CONF, Notice(s, "unload"))
      /\ m.handlers = k.handlers /\ m.repository[s] = "closed"
      /\ \A t \in Components \ {s} : m.repository[t] = k.repository[t]
  <2> HIDE DEF m
  <2> QED BY <1>2, <1>5, SendsMoved DEF up
<1>7. m \in States
  OBVIOUS
<1> HIDE DEF m, up
<1>8. UnderWay(m.queue, s) = {"unload"} => Talk(m, s)
  BY <1>2, <1>6 DEF Talk, Converse, SameTask
<1>9. m.queue = Put(k.queue, Box(s, "unload"), Notice(s, "unload"))
  BY <1>1, <1>6
<1>10. Sane(m)
  BY <1>1, <1>2, <1>6, <1>7, <1>8, <1>9, Replied
<1> QED BY <1>10 DEF m

\* An event handler is told to stop: it unsubscribes first.
LEMMA HandlerStopMessage ==
    ASSUME NEW l, Sane(l), NEW s \in Handler, NEW k, Took(l, k, s),
           Head(l.queue[s]) = Task("STOP_SERVICE"),
           HandleHandlerMessage(k, s, Task("STOP_SERVICE")) \in States
    PROVE  Sane(HandleHandlerMessage(k, s, Task("STOP_SERVICE")))
<1> DEFINE m == HandleHandlerMessage(k, s, Task("STOP_SERVICE"))
           x == Notice(s, "unsubscribe")
<1>0. /\ s \in Service /\ s # "EventManager" /\ "EventManager" \in Service
      /\ "EventManager" \in Components
  BY Services DEF Handler
<1>1. /\ Notice(s, "stop") = Task("STOP_SERVICE") /\ Box(s, "stop") = s
      /\ x = From("UNSUBSCRIBE", s) /\ Box(s, "unsubscribe") = "EventManager"
      /\ x \in Messages
      /\ "stop" \in Kinds /\ "unsubscribe" \in Kinds
  BY <1>0, NoticeMessages
<1>2. /\ l \in States /\ k \in States /\ Wire(l) /\ SameTask(l, k)
      /\ Talk(l, s) /\ UnderWay(l.queue, s) = {"stop"}
      /\ k.repository = l.repository
      /\ k.handlers = l.handlers
      /\ s \in Components /\ CONF \in Components /\ s # CONF
  BY <1>0, <1>1, TakenNotice
<1>3. Reachable(k, "EventManager")
  <2>1. s \in l.loaded
    BY <1>2 DEF Talk, Converse
  <2>2. "EventManager" \in l.loaded \ l.locked
    BY <1>0, <1>2, <2>1, Dependencies DEF Wire, Depend
  <2>3. l.repository["EventManager"] = "active"
    BY <1>0, <1>2, <2>2 DEF Wire, Talk, Converse
  <2> QED BY <1>2, <2>3 DEF Reachable
<1>4. m = InRepository(PutQ(k, "EventManager", x), s, "closed")
  BY <1>1, <1>3 DEF HandleHandlerMessage, Task, InRepository, SendMessage
<1> HIDE DEF x
<1>5. /\ SameTask(k, m) /\ m.queue = Put(k.queue, "EventManager", x)
      /\ m.handlers = k.handlers /\ m.repository[s] = "closed"
      /\ \A t \in Components \ {s} : m.repository[t] = k.repository[t]
  <2> HIDE DEF m
  <2> QED BY <1>2, <1>4, SendsMoves
<1>6. m \in States
  OBVIOUS
<1> HIDE DEF m
<1>7. UnderWay(m.queue, s) = {"unsubscribe"} => Talk(m, s)
  BY <1>2, <1>5 DEF Talk, Converse, SameTask
<1>8. m.queue = Put(k.queue, Box(s, "unsubscribe"), Notice(s, "unsubscribe"))
  BY <1>1, <1>5 DEF x
<1>9. Sane(m)
  BY <1>0, <1>1, <1>2, <1>5, <1>6, <1>7, <1>8, Replied DEF x
<1> QED BY <1>9 DEF m

\* An event handler is told that it is subscribed, or no longer is: it reports.
LEMMA HandlerReports ==
    ASSUME NEW l, Sane(l), NEW s \in Handler, NEW k, Took(l, k, s),
           NEW i, NEW j, NEW x,
           \/ i = "subscribed" /\ j = "load" /\ x = Task("SUBSCRIBED")
           \/ i = "unsubscribed" /\ j = "unload" /\ x = Task("UNSUBSCRIBED"),
           Head(l.queue[s]) = x,
           HandleHandlerMessage(k, s, x) \in States
    PROVE  Sane(HandleHandlerMessage(k, s, x))
<1> DEFINE m == HandleHandlerMessage(k, s, x)
<1>0. s \in Service
  BY Services
<1>1. /\ Notice(s, i) = x /\ Box(s, i) = s
      /\ Notice(s, j) = Status(s, j) /\ Box(s, j) = CONF
      /\ Notice(s, j) \in Messages
      /\ i \in Kinds /\ j \in Kinds
  BY <1>0, NoticeMessages
<1>2. /\ l \in States /\ k \in States /\ Wire(l) /\ SameTask(l, k)
      /\ Talk(l, s) /\ UnderWay(l.queue, s) = {i}
      /\ k.repository = l.repository
      /\ k.handlers = l.handlers /\ l.repository[CONF] = "active"
      /\ s \in Components /\ CONF \in Components /\ s # CONF
  BY <1>0, <1>1, TakenNotice
<1>3. i = "subscribed" => k.repository[s] # "closed"
  BY <1>2 DEF Talk, Converse
<1>4. m = PutQ(k, CONF, Notice(s, j))
  BY <1>1, <1>2, <1>3 DEF HandleHandlerMessage, Task, SendMessage, Reachable
<1>5. /\ SameTask(k, m) /\ m.queue = Put(k.queue, CONF, Notice(s, j))
      /\ m.handlers = k.handlers /\ m.repository = k.repository
  <2> HIDE DEF m
  <2> QED BY <1>2, <1>4, Sends
<1>6. m \in States
  OBVIOUS
<1> HIDE DEF m
<1>7. UnderWay(m.queue, s) = {j} => Talk(m, s)
  BY <1>2, <1>5 DEF Talk, Converse, SameTask
<1>8. m.queue = Put(k.queue, Box(s, j), Notice(s, j))
  BY <1>1, <1>5
<1>9. Sane(m)
  BY <1>0, <1>1, <1>2, <1>5, <1>6, <1>7, <1>8, Replied
<1> QED BY <1>9 DEF m

\* The event manager binds or unbinds an event handler and tells it.
LEMMA ManagerBinds ==
    ASSUME NEW l, Sane(l), NEW s \in Handler, NEW k, Took(l, k, "EventManager"),
           NEW i, NEW j, NEW x,
           \/ i = "subscribe" /\ j = "subscribed" /\ x = From("SUBSCRIBE", s)
           \/ i = "unsubscribe" /\ j = "unsubscribed" /\ x = From("UNSUBSCRIBE", s),
           Head(l.queue["EventManager"]) = x,
           HandleManagerMessage(k, x) \in States
    PROVE  Sane(HandleManagerMessage(k, x))
<1> DEFINE m == HandleManagerMessage(k, x)
           h == IF i = "subscribe" THEN k.handlers \cup {s} ELSE k.handlers \ {s}
<1>0. s \in Service /\ "EventManager" # CONF
  BY Services
<1>1. /\ Notice(s, i) = x /\ Box(s, i) = "EventManager"
      /\ Notice(s, j) = Task(IF i = "subscribe" THEN "SUBSCRIBED" ELSE "UNSUBSCRIBED")
            /\ Box(s, j) = s
      /\ Notice(s, j) \in Messages
      /\ i \in Kinds /\ j \in Kinds
  BY <1>0, NoticeMessages
<1>2. /\ l \in States /\ k \in States /\ Wire(l) /\ SameTask(l, k)
      /\ Talk(l, s) /\ UnderWay(l.queue, s) = {i}
      /\ k.repository = l.repository
      /\ k.handlers = l.handlers
      /\ s \in Components /\ CONF \in Components /\ s # CONF
  BY <1>0, <1>1, TakenNotice
<1>3. i = "unsubscribe" => s \in k.handlers
  BY <1>2 DEF Talk, Converse
<1>4. Reachable(WithHandlers(k, h), s)
  <2>1. l.repository[s] \in {"active", "closed"}
    BY <1>2 DEF Talk, Converse
  <2>2. Reachable(k, s)
    BY <1>2, <2>1 DEF Reachable
  <2> HIDE DEF h
  <2> QED BY <1>2, <2>2, StillReachable
<1>5. m = PutQ(WithHandlers(k, h), s, Notice(s, j))
  <2>1. CASE i = "subscribe"
    <3>1. x.type = "SUBSCRIBE" /\ x.service = s
      BY <2>1 DEF From
    <3> QED BY <1>1, <1>4, <2>1, <3>1 DEF HandleManagerMessage, SendMessage,
          WithHandlers
  <2>2. CASE i = "unsubscribe"
    <3>1. x.type = "UNSUBSCRIBE" /\ x.service = s
      BY <2>2 DEF From
    <3> QED BY <1>1, <1>3, <1>4, <2>2, <3>1 DEF HandleManagerMessage, SendMessage,
          WithHandlers
  <2> QED BY <2>1, <2>2
<1>6. m \in States
  OBVIOUS
<1>7. /\ SameTask(k, m) /\ m.queue = Put(k.queue, s, Notice(s, j))
      /\ m.handlers = h /\ m.repository = k.repository
  <2> HIDE DEF m, h
  <2> QED BY <1>2, <1>5, SendsBound
<1> HIDE DEF m
<1>8. UnderWay(m.queue, s) = {j} => Talk(m, s)
  BY <1>2, <1>7 DEF Talk, Converse, SameTask
<1>9. m.queue = Put(k.queue, Box(s, j), Notice(s, j))
  BY <1>1, <1>7
<1>10. Sane(m)
  BY <1>0, <1>1, <1>2, <1>6, <1>7, <1>8, <1>9, Replied
<1> QED BY <1>10 DEF m

\* A step of a service.
LEMMA ServiceStepSane ==
    ASSUME Sane(lms), NEW s \in Service, ServiceStep(s)
    PROVE  Sane(lms')
<1> DEFINE k == Taken(s)
           x == Head(lms.queue[s])
           m == CASE s = "EventManager" -> HandleManagerMessage(k, x)
                  [] s \in Handler -> HandleHandlerMessage(k, s, x)
                  [] OTHER -> HandleServiceMessage(k, s, x)
<1>1. lms \in States /\ s \in Components /\ Dispatched(s) /\ Handled(s, m)
      /\ "EventManager" \notin Handler
  BY Services DEF Sane, ServiceStep, Handler
<1>2. Took(lms, k, s)
  BY <1>1, TakenTook
<1>3. k \in States /\ lms.queue[s] # <<>> /\ lms.queue \in Queues /\ Letters(lms.queue)
  BY <1>1, <1>2, TookFields, StateQueues DEF Took, Sane, Wire
<1>4. x \in Items(lms.queue[s]) /\ x \in MessagesTo(s)
  <2>1. Items(lms.queue[s]) = Items(Take(lms.queue, s)[s]) \cup {Head(lms.queue[s])}
    BY <1>1, <1>3, TakeItems
  <2>2. Head(lms.queue[s]) \in MessagesTo(s)
    BY <1>1, <1>3, TakeItems
  <2> QED BY <2>1, <2>2
<1> HIDE DEF k, x
<1>5. CASE x = Task("STOP_SERVICE")
  <2>1. x \in Orders /\ x.type = "STOP_SERVICE"
    BY <1>5 DEF Orders, Task
  <2>2. CASE s \in Handler
    <3>1. m = HandleHandlerMessage(k, s, x)
      BY <1>1, <2>2
    <3>2. x \in HandlerMessages
      BY <2>1 DEF HandlerMessages
    <3>3. m \in States
      BY <1>3, <2>2, <3>1, <3>2, HandleHandlerMessageSound
    <3> HIDE DEF m
    <3>4. Sane(m)
      BY <1>2, <1>5, <2>2, <3>1, <3>3, HandlerStopMessage DEF x
    <3> QED BY <1>1, <3>4, HandledSane
  <2>3. CASE s \notin Handler
    <3>1. m = HandleServiceMessage(k, s, x)
      BY <2>1, <2>3 DEF HandleManagerMessage
    <3>2. m \in States
      BY <1>3, <2>1, <3>1, HandleServiceMessageSound
    <3> HIDE DEF m
    <3>3. Sane(m)
      BY <1>2, <1>5, <2>3, <3>1, <3>2, StopMessage DEF x
    <3> QED BY <1>1, <3>3, HandledSane
  <2> QED BY <2>2, <2>3
<1>6. CASE s \in Handler /\ x \in {Task("SUBSCRIBED"), Task("UNSUBSCRIBED")}
  <2>1. m = HandleHandlerMessage(k, s, x)
    BY <1>1, <1>6
  <2>2. x \in HandlerMessages
    BY <1>6 DEF HandlerMessages
  <2>3. m \in States
    BY <1>3, <1>6, <2>1, <2>2, HandleHandlerMessageSound
  <2> HIDE DEF m
  <2>4. Sane(m)
    BY <1>2, <1>6, <2>1, <2>3, HandlerReports DEF x
  <2> QED BY <1>1, <2>4, HandledSane
<1>7. CASE /\ s = "EventManager"
           /\ \E t \in Handler : x \in {From("SUBSCRIBE", t), From("UNSUBSCRIBE", t)}
  <2>0. s = "EventManager"
    BY <1>7
  <2>1. m = HandleManagerMessage(k, x)
    BY <1>1, <2>0
  <2>2. x \in ManagerMessages
    BY <1>4, <1>7, MessageSets
  <2>3. m \in States
    BY <1>3, <2>1, <2>2, HandleManagerMessageSound
  <2> HIDE DEF m
  <2>4. Sane(m)
    <3>1. PICK t \in Handler : x \in {From("SUBSCRIBE", t), From("UNSUBSCRIBE", t)}
      BY <1>7
    <3> QED BY <1>2, <1>7, <2>1, <2>3, <3>1, ManagerBinds DEF x
  <2> QED BY <1>1, <2>4, HandledSane
<1> QED BY <1>3, <1>4, <1>5, <1>6, <1>7, BoxContents

-----------------------------------------------------------------------------
(* What the other threads send                                             *)

\* Tasks are tasks, and neither messages about services nor the end of a task.
LEMMA CalmMessages ==
    /\ CalmTasks \subseteq MessagesTo(CONF) /\ CalmTasks \subseteq Tasks
    /\ CalmTasks \subseteq Messages
    /\ CalmTasks \cap Notices = {} /\ Completed \notin CalmTasks /\ Begin \notin CalmTasks
    /\ Completed \notin Tasks /\ Completed \in MessagesTo(CONF)
<1>1. CalmTasks \subseteq Tasks
  BY TaskMessages DEF CalmTasks
<1>2. Begin \notin CalmTasks
  <2>1. \A x \in CalmTasks : x.type \in {"STOP", "PFW_STARTED", "PFW_STOPPED", "CHANGE"}
    BY TaskTypes DEF CalmTasks, Task
  <2> QED BY <2>1 DEF Begin, Task
<1>3. Completed \notin Tasks
  <2>1. \A t \in Tasks : t.type # "TASK_COMPLETED"
    BY TaskTypes
  <2> QED BY <2>1 DEF Completed
<1>4. Completed \in MessagesTo(CONF)
  BY MessageSets DEF ConfMessages
<1> QED BY <1>1, <1>2, <1>3, <1>4, TaskMessages, MessageSets, NoticeTypes, Services

\* A task arrives in the Configurator's queue.
LEMMA TaskArrives ==
    ASSUME NEW l, Sane(l),
           NEW x \in CalmTasks, x \in Wants /\ ~l.needToStop => l.toLoad # {}
    PROVE  /\ Sane(PutQ(l, CONF, x)) /\ SendMessage(l, CONF, x) = PutQ(l, CONF, x)
           /\ Reachable(l, CONF)
<1> DEFINE m == PutQ(l, CONF, x)
<1>1. /\ l \in States /\ Wire(l) /\ Calm(l) /\ Tasking(l)
      /\ l.repository[CONF] = "active" /\ CONF \in Components
  BY Services DEF Sane, Calm
<1>2. x \in MessagesTo(CONF) /\ x \in Messages /\ x \notin Notices
  BY CalmMessages
<1>3. m \in States /\ Wire(m)
  BY <1>1, <1>2, PutQSound, WirePutTask
<1>4. SameTask(l, m) /\ m.queue = Put(l.queue, CONF, x) /\ m.repository = l.repository
  BY <1>1, Sends
<1>5. Reachable(l, CONF)
  BY <1>1 DEF Reachable
<1>6. SendMessage(l, CONF, x) = m
  BY <1>5 DEF SendMessage
<1> HIDE DEF m
<1>7. m.queue[CONF] = Append(l.queue[CONF], x)
  BY <1>1, <1>4, StateQueues DEF Queues, Put
<1>8. Calm(m)
  BY <1>1, <1>4 DEF Calm, SameTask
<1>9. x # Status("HostChanges", "load")
  <2>1. Status("HostChanges", "load") \in Notices
    BY NoticeMessages, NoticeTypes, Services
  <2> QED BY <1>2, <2>1
<1>10. Tasking(m)
  BY <1>1, <1>2, <1>4, <1>7, <1>9, TaskingPut
<1> QED BY <1>3, <1>5, <1>6, <1>8, <1>10 DEF Sane, m

\* While a service is there, there are services to be loaded.
LEMMA SomeWanted ==
    ASSUME NEW l, Sane(l), ~l.needToStop,
           NEW s \in Service \ {"TimeSync"}, l.repository[s] # "absent"
    PROVE  l.toLoad # {}
<1>1. Open(l) /\ Talk(l, s)
  BY DEF Sane, Tasking, Wire
<1>2. s \in l.loaded \cup l.locked
  BY <1>1 DEF Talk, Converse
<1>3. CASE l.inProcess = None \/ l.inProcess \notin LoadTasks \cup {Off}
  BY <1>1, <1>2, <1>3 DEF Open, Rest, Quiet
<1>4. CASE l.inProcess \in LoadTasks
  BY <1>1, <1>2, <1>4 DEF Open, Loading
<1>5. CASE l.inProcess = Off
  BY <1>1, <1>2, <1>5 DEF Open, Unloading
<1> QED BY <1>3, <1>4, <1>5

\* The other threads keep the invariant: what they send is a task, and one that
\* wants the scan to be done is sent only after it was, because those who send
\* it are services.
LEMMA ReportsSane ==
    ASSUME Sane(lms),
           \/ \E t \in Changes : ReportChange(t)
           \/ ReportPortForwarding
           \/ Stop
    PROVE  Sane(lms')
<1>1. ASSUME NEW t \in Changes, ReportChange(t) PROVE Sane(lms')
  <2>1. t \in CalmTasks /\ lms' = SendMessage(lms, CONF, t)
    BY <1>1, ConfiguratorConstants DEF ReportChange, CalmTasks
  <2>2. /\ "StatusEventHandler" \in Service \ {"TimeSync"}
        /\ lms.repository["StatusEventHandler"] # "absent"
    BY <1>1, Services DEF ReportChange
  <2>3. ~lms.needToStop => lms.toLoad # {}
    BY <2>2, SomeWanted
  <2> QED BY <2>1, <2>3, TaskArrives
<1>2. ASSUME ReportPortForwarding PROVE Sane(lms')
  <2> DEFINE t == Task(IF env.up THEN "PFW_STOPPED" ELSE "PFW_STARTED")
  <2>1. t \in CalmTasks /\ lms' = SendMessage(lms, CONF, t)
    BY <1>2 DEF ReportPortForwarding, CalmTasks
  <2>2. /\ "PortForwarding" \in Service \ {"TimeSync"}
        /\ lms.repository["PortForwarding"] # "absent"
    BY <1>2, Services DEF ReportPortForwarding
  <2>3. ~lms.needToStop => lms.toLoad # {}
    BY <2>2, SomeWanted
  <2> HIDE DEF t
  <2> QED BY <2>1, <2>3, TaskArrives
<1>3. ASSUME Stop PROVE Sane(lms')
  <2>1. Task("STOP") \in CalmTasks /\ lms' = SendMessage(lms, CONF, Task("STOP"))
    BY <1>3 DEF Stop, CalmTasks
  <2>2. Task("STOP") \notin Wants
    BY TaskTypes DEF Wants, Task
  <2> QED BY <2>1, <2>2, TaskArrives
<1> QED BY <1>1, <1>2, <1>3

-----------------------------------------------------------------------------
(* A visit of a batch command that loads                                   *)

\* The lists of the batches hold no service twice.
LEMMA ListedOnce ==
    ASSUME NEW S \in SUBSET Service, NEW order \in Seq(Service), Once(order, Service)
    PROVE  Once(Listed(order, S), Service)
<1>1. PICK f \in [Nat -> Seq(S)] :
         Picks(f, order, S) /\ Listed(order, S) = f[Len(order)]
  BY ListedSteps
<1> DEFINE G(n) == {order[i] : i \in 1..n}
           P(n) == n <= Len(order) => Items(f[n]) \subseteq G(n) /\ Once(f[n], Service)
           T == {n \in Nat : P(n)}
<1>2. 0 \in T
  <2>1. f[0] = <<>>
    BY <1>1 DEF Picks
  <2> QED BY <2>1 DEF Items, Once
<1>3. ASSUME NEW n \in Nat, P(n), n + 1 <= Len(order) PROVE P(n + 1)
  <2>1. Len(order) \in Nat /\ n <= Len(order) /\ n + 1 \in 1..Len(order) /\ DOMAIN order
           = 1..Len(order)
        /\ order[n + 1] \in Service
    BY <1>3, SMTT(30)
  <2>2. Items(f[n]) \subseteq G(n) /\ Once(f[n], Service)
    BY <1>3, <2>1
  <2>3. order[n + 1] \notin G(n)
    <3> SUFFICES ASSUME NEW i \in 1..n, order[i] = order[n + 1] PROVE FALSE
      OBVIOUS
    <3>1. i \in DOMAIN order /\ i # n + 1 /\ n + 1 \in DOMAIN order
      BY <2>1
    <3> QED BY <2>1, <3>1 DEF Once
  <2>4. G(n + 1) = G(n) \cup {order[n + 1]}
    <3>1. 1..(n + 1) = 1..n \cup {n + 1}
      BY SMTT(30)
    <3> QED BY <3>1
  <2> HIDE DEF G
  <2>5. f[n] \in Seq(S)
    OBVIOUS
  <2>6. CASE order[n + 1] \in S
    <3>1. f[n + 1] = Append(f[n], order[n + 1])
      BY <1>1, <2>6 DEF Picks
    <3>2. Items(Append(f[n], order[n + 1])) = Items(f[n]) \cup {order[n + 1]}
      BY <2>5, <2>6, ItemsAppend, SMTT(30)
    <3>3. Once(Append(f[n], order[n + 1]), Service)
      BY <2>2, <2>3, <2>5, <2>6, OnceAppend, SMTT(30)
    <3> QED BY <2>2, <2>4, <3>1, <3>2, <3>3
  <2>7. CASE order[n + 1] \notin S
    <3>1. f[n + 1] = f[n]
      BY <1>1, <2>7 DEF Picks
    <3> QED BY <2>2, <2>4, <3>1
  <2> QED BY <2>6, <2>7
<1>4. \A n \in T : n + 1 \in T
  <2> SUFFICES ASSUME NEW n \in T PROVE n + 1 \in T
    OBVIOUS
  <2>1. n \in Nat /\ P(n) /\ n + 1 \in Nat
    OBVIOUS
  <2>2. CASE n + 1 <= Len(order)
    <3> HIDE DEF P
    <3>1. P(n + 1)
      BY <1>3, <2>1, <2>2, Zenon
    <3> QED BY <2>1, <3>1
  <2>3. CASE ~(n + 1 <= Len(order))
    BY <2>1, <2>3
  <2> QED BY <2>2, <2>3
<1>5. T \subseteq Nat
  OBVIOUS
<1> HIDE DEF T
<1>6. \A n \in Nat : n \in T
  BY <1>2, <1>4, <1>5, Induction
<1>7. Len(order) \in Nat /\ Len(order) \in T
  BY <1>6
<1>8. P(Len(order))
  BY <1>7 DEF T
<1> QED BY <1>1, <1>7, <1>8

\* A batch command is executed with a list in which no service occurs twice.
LEMMA InOrderOnce ==
    ASSUME NEW S \in SUBSET Service
    PROVE  Once(InOrder(S), Service)
<1>1. Once(ByName, Service)
  BY DEF Once, ByName
<1> QED BY <1>1, ListedOnce, Orderings DEF InOrder

\* The status of HostChanges.
Hosts == Status("HostChanges", "load")

\* The status of the event manager.
Manager == Status("EventManager", "load")

\* An order in a queue is kept by taking its head, and the later one of two is
\* not taken first.
LEMMA PrecedesTail ==
    ASSUME NEW S, NEW q \in Seq(S), q # <<>>, NEW x, NEW y, Precedes(q, x, y)
    PROVE  Precedes(Tail(q), x, y) /\ (Head(q) = y => x \notin Items(q))
<1>1. /\ DOMAIN q = 1..Len(q) /\ Len(q) \in Nat /\ Len(q) > 0
      /\ DOMAIN Tail(q) = 1..(Len(q) - 1)
      /\ \A i \in 1..(Len(q) - 1) : Tail(q)[i] = q[i + 1]
      /\ Head(q) = q[1]
  OBVIOUS
<1>2. ASSUME NEW i \in DOMAIN Tail(q),
             NEW j \in DOMAIN Tail(q), Tail(q)[i] = x, Tail(q)[j] = y
      PROVE  i < j
  <2>1. i + 1 \in DOMAIN q /\ j + 1 \in DOMAIN q /\ q[i + 1] = x /\ q[j + 1] = y
    BY <1>1, <1>2
  <2>2. i + 1 < j + 1
    BY <2>1 DEF Precedes
  <2> QED BY <1>1, <2>2
<1>3. ASSUME Head(q) = y, NEW i \in DOMAIN q, q[i] = x PROVE FALSE
  <2>1. 1 \in DOMAIN q /\ q[1] = y
    BY <1>1, <1>3
  <2>2. i < 1
    BY <1>3, <2>1 DEF Precedes
  <2> QED BY <1>1, <2>2
<1> QED BY <1>2, <1>3 DEF Precedes, Items

\* It is kept by what is appended, unless that is the earlier one.
LEMMA PrecedesAppend ==
    ASSUME NEW S, NEW q \in Seq(S), NEW z \in S, NEW x, NEW y,
           \/ Precedes(q, x, y) /\ z # x
           \/ y \notin Items(q) /\ z # y
    PROVE  Precedes(Append(q, z), x, y)
<1> DEFINE p == Append(q, z)
<1>1. /\ DOMAIN q = 1..Len(q) /\ Len(q) \in Nat /\ DOMAIN p = 1..(Len(q) + 1)
      /\ \A i \in 1..Len(q) : p[i] = q[i]
      /\ p[Len(q) + 1] = z
  OBVIOUS
<1> HIDE DEF p
<1> SUFFICES ASSUME NEW i \in DOMAIN p, NEW j \in DOMAIN p, p[i] = x, p[j] = y PROVE i < j
  BY DEF Precedes, p
<1>2. CASE Precedes(q, x, y) /\ z # x
  <2>3. i \in 1..Len(q)
    BY <1>1, <1>2
  <2>4. CASE j = Len(q) + 1
    BY <1>1, <2>3, <2>4
  <2>5. CASE j \in 1..Len(q)
    BY <1>1, <1>2, <2>3, <2>5 DEF Precedes
  <2> QED BY <1>1, <2>4, <2>5
<1>3. CASE y \notin Items(q) /\ z # y
  <2>1. j \in 1..Len(q)
    BY <1>1, <1>3
  <2>2. q[j] \in Items(q) /\ q[j] = y
    BY <1>1, <2>1 DEF Items
  <2> QED BY <1>3, <2>2
<1> QED BY <1>2, <1>3

\* The queue p holds what q holds and notices.
Mailed(q, p) ==
    /\ Items(q) \subseteq Items(p) /\ Items(p) \subseteq Items(q) \cup Notices

\* Two steps of a batch.
LEMMA MailedTransitive ==
    ASSUME NEW q, NEW p, NEW r, Mailed(q, p), Mailed(p, r)
    PROVE  Mailed(q, r)
  BY DEF Mailed

\* A task loads services.
Good(l, t) ==
    l \in States /\ Calm(l) /\ Wire(l) /\ Loading(l, t) /\ Base \subseteq l.toLoad /\ ~l.ended

\* Who comes before whom, as far as the proofs need it.
LEMMA MountFacts ==
    /\ \A s \in Service : AbsoluteDependencies[s] \subseteq Base
    /\ \A s \in Service : \A t \in AbsoluteDependencies[s] : Before(t, s)
    /\ \A t : ~Before(t, "HostChanges") /\ ~Before("HostChanges", t)
    /\ \A t \in Service \ {"First", "HostChanges"} : Before("First", t)
    /\ \A t : ~Before(t, "First")
    /\ \A t \in Service \ {"Last", "HostChanges"} : Before(t, "Last")
    /\ \A t \in Service, s \in {"TimeSync", "PowerOperations"} :
          Before(t, s)
             => t \notin {"PowerOperations", "TimeSync", "AmtEnableLast",
                "WaitingForPfwLast", "HostChanges", "Last"}
    /\ \A t \in Service, s \in {"AmtEnableLast", "WaitingForPfwLast"} :
          Before(t, s) <=> t \notin {"AmtEnableLast", "WaitingForPfwLast", "HostChanges", "Last"}
    /\ \A t \in Service : Before("TimeSync", t) => t \in DummyServicesToRemove
<1>0. DOMAIN MountOrder = Service \ {"HostChanges"}
  BY Orderings
<1>1. \A s \in Service : AbsoluteDependencies[s] \subseteq Base
  BY Services DEF AbsoluteDependencies, Base, Handler
<1>2. \A s \in Service : \A t \in AbsoluteDependencies[s] : Before(t, s)
  BY Services DEF AbsoluteDependencies, Before, MountOrder, Handler
<1>3. \A t : ~Before(t, "HostChanges") /\ ~Before("HostChanges", t)
  BY <1>0 DEF Before
<1>4. \A t \in Service \ {"First", "HostChanges"} : Before("First", t)
  BY Services DEF Before, MountOrder
<1>5. \A t : ~Before(t, "First")
  <2> SUFFICES ASSUME NEW t, Before(t, "First") PROVE FALSE
    OBVIOUS
  <2>1. t \in Service
    BY <1>0 DEF Before
  <2> QED BY <2>1, Services DEF Before, MountOrder
<1>6. \A t \in Service \ {"Last", "HostChanges"} : Before(t, "Last")
  BY Services DEF Before, MountOrder
<1>7. \A t \in Service, s \in {"TimeSync", "PowerOperations"} :
          Before(t, s)
             => t \notin {"PowerOperations", "TimeSync", "AmtEnableLast",
                "WaitingForPfwLast", "HostChanges", "Last"}
  BY Services DEF Before, MountOrder
<1>8. \A t \in Service, s \in {"AmtEnableLast", "WaitingForPfwLast"} :
          Before(t, s) <=> t \notin {"AmtEnableLast", "WaitingForPfwLast", "HostChanges", "Last"}
  BY Services DEF Before, MountOrder
<1>9. \A t \in Service : Before("TimeSync", t) => t \in DummyServicesToRemove
  BY Services DEF Before, MountOrder, DummyServicesToRemove
<1> QED BY <1>1, <1>2, <1>3, <1>4, <1>5, <1>6, <1>7, <1>8, <1>9

\* The prerequisites of a load, without the case distinction.
LEMMA LoadPrerequisites ==
    ASSUME NEW l \in States, NEW s
    PROVE  /\ Prerequisites(l, s, "load") = {t \in l.toLoad : Before(t, s)}
           /\ ReadyToOperation(l, s, "load") <=> Prerequisites(l, s, "load") \subseteq l.loaded
           /\ DoneCriteria(l, s, "load") <=> s \in l.loaded
  BY DEF Prerequisites, ReadyToOperation, DoneCriteria

\* A service that is ready is started.
LEMMA GoodStart ==
    ASSUME NEW l, NEW t, Good(l, t), NEW w \in Worlds, w.bad = {}, NEW s \in Service,
           s \notin l.loaded, s \notin l.locked, s \in l.toLoad, s \in Scope(t),
           s \notin l.waiting["load"], ReadyToOperation(l, s, "load"),
           s = "HostChanges" => "EventManager" \notin l.loaded \cup l.locked,
           t = On => l.onToggle
    PROVE  LET k == [l EXCEPT !.locked = @ \cup {s}]
               m == StartInRepository(k, w, s).l IN
           /\ StartInRepository(k, w, s).ok
           /\ Good(m, t) /\ Mailed(l.queue[CONF], m.queue[CONF])
           /\ m.loaded = l.loaded /\ m.locked = l.locked \cup {s} /\ m.toLoad = l.toLoad
           /\ m.waiting = l.waiting
<1> DEFINE k == [l EXCEPT !.locked = @ \cup {s}]
           m == StartInRepository(k, w, s).l
<1>1. /\ l \in States /\ Calm(l) /\ Wire(l) /\ Loading(l, t)
      /\ Base \subseteq l.toLoad /\ ~l.ended
      /\ l.repository[CONF] = "active" /\ CONF \in Components
  BY Services DEF Good, Calm
<1>2. AbsoluteDependencies[s] \subseteq l.loaded \ l.locked
  BY <1>1, LoadPrerequisites, MountFacts DEF Loading
<1>3. /\ StartInRepository(k, w, s).ok
      /\ Wire(m) /\ m \in States
      /\ m.loaded = l.loaded /\ m.locked = l.locked \cup {s}
      /\ m.active = l.active /\ m.toLoad = l.toLoad /\ m.waitPfw = l.waitPfw
      /\ m.waiting = l.waiting /\ m.ended = l.ended
      /\ m.repository[CONF] = "active"
      /\ m.queue[CONF] = IF s \in Handler THEN l.queue[CONF]
                         ELSE Append(l.queue[CONF], Status(s, "load"))
  BY <1>1, <1>2, WireStart
<1>4. /\ m.deferred = l.deferred /\ m.asleep = l.asleep /\ m.nextTasks = l.nextTasks
      /\ m.inProcess = l.inProcess /\ m.onToggle = l.onToggle
  <2>1. k \in States
    BY <1>1, LockSound, StateSets
  <2>2. /\ k.deferred = l.deferred /\ k.asleep = l.asleep /\ k.nextTasks = l.nextTasks
        /\ k.inProcess = l.inProcess /\ k.onToggle = l.onToggle
    BY <1>1 DEF States, Lms
  <2> HIDE DEF k
  <2> DEFINE up == [k EXCEPT !.repository[s] = "active"]
  <2>3. up \in States /\ s \in Components
    BY <2>1, RepositoryChange, Services
  <2>4. Frame(k, up)
    BY <2>1 DEF Frame, States, Lms
  <2> HIDE DEF up
  <2>5. m = SendMessage(up, "EventManager", From("SUBSCRIBE", s)) \/ m
           = SendMessage(up, CONF, Status(s, "load"))
    BY DEF StartInRepository, up
  <2>6. Frame(up, m)
    BY <2>3, <2>5, PutQFrame
  <2> QED BY <2>2, <2>4, <2>6 DEF Frame
<1>5. /\ l.queue[CONF] \in Seq(Messages) /\ Status(s, "load") \in Messages
      /\ Status(s, "load") \in Notices
  BY <1>1, StateQueues, NoticeMessages, NoticeTypes DEF Queues
<1> HIDE DEF m, k
<1>6. Mailed(l.queue[CONF], m.queue[CONF])
  <2>1. Items(Append(l.queue[CONF], Status(s, "load")))
           = Items(l.queue[CONF]) \cup {Status(s, "load")}
    BY <1>5, ItemsAppend
  <2> QED BY <1>3, <1>5, <2>1 DEF Mailed
<1>7. Calm(m)
  BY <1>1, <1>3, <1>4 DEF Calm
<1>8. \A u : Prerequisites(m, u, "load") = Prerequisites(l, u, "load")
  BY <1>3 DEF Prerequisites
<1>9. "HostChanges" \in m.locked
         => "EventManager" \notin m.loaded /\ Precedes(m.queue[CONF], Hosts, Manager)
  <2>1. CASE s = "HostChanges"
    <3>1. Talk(l, "EventManager") /\ "EventManager" \in Service
      BY <1>1, Services DEF Wire
    <3>2. UnderWay(l.queue, "EventManager") = {}
      BY <2>1, <3>1 DEF Talk, Converse
    <3>3. Manager \notin Items(l.queue[CONF])
      BY <3>1, <3>2, NoticeMessages DEF UnderWay, Manager
    <3>4. m.queue[CONF] = Append(l.queue[CONF], Hosts) /\ Hosts # Manager
      BY <1>3, <2>1 DEF Handler, Hosts, Manager, Status
    <3>5. Precedes(m.queue[CONF], Hosts, Manager)
      BY <1>5, <2>1, <3>3, <3>4, PrecedesAppend DEF Hosts
    <3> QED BY <1>3, <2>1, <3>5
  <2>2. CASE s # "HostChanges" /\ "HostChanges" \in m.locked
    <3>1. "EventManager" \notin l.loaded /\ Precedes(l.queue[CONF], Hosts, Manager)
      BY <1>1, <1>3, <2>2 DEF Loading, Hosts, Manager
    <3>2. Status(s, "load") # Hosts
      BY <2>2 DEF Status, Hosts
    <3>3. Precedes(Append(l.queue[CONF], Status(s, "load")), Hosts, Manager)
      BY <1>5, <3>1, <3>2, PrecedesAppend
    <3> QED BY <1>3, <3>1, <3>3
  <2> QED BY <2>1, <2>2
<1>10. Prerequisites(l, s, "load") \subseteq l.loaded
  BY <1>1, LoadPrerequisites
<1>11. Loading(m, t)
  BY <1>1, <1>3, <1>4, <1>8, <1>9, <1>10 DEF Loading, Hosts, Manager
<1> QED BY <1>1, <1>3, <1>6, <1>7, <1>11 DEF Good, m, k

\* A service whose loading the firmware decides on is left out.
LEMMA GoodSkip ==
    ASSUME NEW l,
           NEW t, Good(l, t), "TimeSync" \notin l.loaded, "TimeSync" \notin l.locked,
           "TimeSync" \notin l.waiting["load"],
           NEW m \in States,
           m.toLoad = l.toLoad \ {"TimeSync"}, m.loaded = l.loaded, m.locked = l.locked,
           m.active = l.active, m.waiting = l.waiting,
           m.waitPfw \subseteq l.waitPfw \cup {"TimeSync"}, m.queue = l.queue,
           m.repository = l.repository, m.handlers = l.handlers, m.ended = l.ended,
           m.deferred = l.deferred, m.asleep = l.asleep, m.nextTasks = l.nextTasks,
           m.inProcess = l.inProcess, m.onToggle = l.onToggle
    PROVE  Good(m, t)
<1>1. /\ l \in States /\ Calm(l) /\ Wire(l) /\ Loading(l, t)
      /\ Base \subseteq l.toLoad /\ ~l.ended
  BY DEF Good
<1>2. Wire(m)
  BY <1>1, WireFrame
<1>3. Calm(m)
  BY <1>1 DEF Calm
<1>4. \A u : Prerequisites(m, u, "load") \subseteq Prerequisites(l, u, "load")
  BY <1>1, LoadPrerequisites
<1>5. Loading(m, t)
  BY <1>1, <1>4 DEF Loading
<1>6. Base \subseteq m.toLoad
  BY <1>1 DEF Base
<1> QED BY <1>1, <1>2, <1>3, <1>5, <1>6 DEF Good

\* The outcomes of a visit of a load batch.
Visited(b, c, s) ==
    \/ c.l = b.l /\ c.list = Tail(b.list) /\ c.ret = b.ret /\ s \in b.l.locked \cup b.l.loaded
    \/ c.l = b.l /\ c.list = Tail(b.list) /\ c.ret = "FAILURE" /\ b.l.onToggle
    \/ c.l = b.l /\ c.list = Tail(b.list) /\ (b.ret # "FAILURE" => c.ret = "SUCCESS")
       /\ s \in b.seen /\ ~ReadyToOperation(b.l, s, "load")
    \/ /\ c.l.locked = b.l.locked \cup {s} /\ c.l.toLoad = b.l.toLoad /\ c.l.waiting = b.l.waiting
       /\ c.list = Tail(b.list) /\ (b.ret # "FAILURE" => c.ret = "SUCCESS")
       /\ ReadyToOperation(b.l, s, "load")
    \/ /\ s = "TimeSync" /\ c.l.locked = b.l.locked /\ c.l.toLoad = b.l.toLoad \ {s}
       /\ c.l.waiting = b.l.waiting /\ ReadyToOperation(b.l, s, "load")
       /\ c.list = Tail(b.list) /\ (b.ret # "FAILURE" => c.ret = "SUCCESS")
    \/ /\ ~ReadyToOperation(b.l, s, "load") /\ s \notin b.l.locked \cup b.l.loaded
       /\ c.l.locked = b.l.locked /\ c.l.toLoad = b.l.toLoad
       /\ c.l.waiting["load"] = b.l.waiting["load"] \cup {s}
       /\ c.list = GetPrerequisites(b.l, s, "load") \o Tail(b.list)
       /\ (b.ret # "FAILURE" => c.ret = "SUCCESS")

\* A service that is not ready waits.
LEMMA GoodWait ==
    ASSUME NEW l, NEW t, Good(l, t),
           NEW s \in Service, s \notin l.loaded, s \notin l.locked,
           s \in l.toLoad, s \in Scope(t), ~ReadyToOperation(l, s, "load"), t # On
    PROVE  LET m == [l EXCEPT !.waiting["load"] = @ \cup {s}] IN
           /\ Good(m, t) /\ m.queue = l.queue /\ m.loaded = l.loaded
           /\ m.locked = l.locked /\ m.toLoad = l.toLoad
           /\ m.waiting["load"] = l.waiting["load"] \cup {s}
<1> DEFINE m == [l EXCEPT !.waiting["load"] = @ \cup {s}]
<1>1. /\ l \in States /\ Calm(l) /\ Wire(l) /\ Loading(l, t)
      /\ Base \subseteq l.toLoad /\ ~l.ended
      /\ "load" \in Op /\ l.waiting["load"] \cup {s} \in SUBSET Service
  BY StateSets DEF Good, Op
<1>2. m \in States
  BY <1>1, WaitSound
<1>3. SameTask([l EXCEPT !.waiting = m.waiting], m) /\ m.queue = l.queue /\ m.repository
         = l.repository
      /\ m.handlers = l.handlers
      /\ m.waiting["load"] = l.waiting["load"] \cup {s}
      /\ \A op \in Op : op # "load" => m.waiting[op] = l.waiting[op]
  BY <1>1 DEF States, Lms, SameTask
<1>4. /\ m.loaded = l.loaded /\ m.active = l.active /\ m.locked = l.locked
      /\ m.toLoad = l.toLoad /\ m.waitPfw = l.waitPfw
      /\ m.inProcess = l.inProcess /\ m.onToggle = l.onToggle
      /\ m.nextTasks = l.nextTasks
      /\ m.deferred = l.deferred /\ m.asleep = l.asleep /\ m.ended = l.ended
  BY <1>1 DEF States, Lms
<1> HIDE DEF m
<1>5. Wire(m)
  BY <1>1, <1>3, <1>4, WireFrame
<1>6. Calm(m)
  BY <1>1, <1>3, <1>4 DEF Calm, Op
<1>7. \A u : Prerequisites(m, u, "load") = Prerequisites(l, u, "load")
  BY <1>4 DEF Prerequisites
<1>8. s # "HostChanges"
  BY <1>1, LoadPrerequisites, MountFacts
<1>9. m.waiting["unload"] = l.waiting["unload"]
  BY <1>3 DEF Op
<1>10. Loading(m, t)
  BY <1>1, <1>3, <1>4, <1>7, <1>8, <1>9 DEF Loading
<1> QED BY <1>1, <1>2, <1>3, <1>4, <1>5, <1>6, <1>10 DEF Good, m

\* A step of a batch that sends nothing.
LEMMA MailedSame ==
    ASSUME NEW q
    PROVE  Mailed(q, q)
  BY DEF Mailed

\* StartAceService when the firmware is asked first: the service waits for port
\* forwarding, or is off.
LEMMA StartCases ==
    ASSUME NEW k, NEW w, NEW s, s \notin k.loaded
    PROVE  /\ s \in CheckLoad /\ ~k.pfwStarted =>
                /\ StartAceService(k, w, s).ok
                /\ StartAceService(k, w, s).l = [NotLoaded(k, s) EXCEPT !.waitPfw = @ \cup {s}]
           /\ s \in CheckLoad /\ k.pfwStarted /\ s \in w.off /\ ~k.onToggle =>
                StartAceService(k, w, s).ok /\ StartAceService(k, w, s).l = NotLoaded(k, s)
           /\ s \in CheckLoad /\ k.pfwStarted /\ s \in w.off /\ k.onToggle =>
                ~StartAceService(k, w, s).ok /\ StartAceService(k, w, s).l = k
<1>1. ASSUME s \in CheckLoad, ~k.pfwStarted
      PROVE  StartAceService(k, w, s)
                = [l |-> [NotLoaded(k, s) EXCEPT !.waitPfw = @ \cup {s}], ok |-> TRUE]
  BY <1>1 DEF StartAceService
<1>2. ASSUME s \in CheckLoad, k.pfwStarted, s \in w.off, ~k.onToggle
      PROVE  StartAceService(k, w, s) = [l |-> NotLoaded(k, s), ok |-> TRUE]
  BY <1>2 DEF StartAceService
<1>3. ASSUME s \in CheckLoad, k.pfwStarted, s \in w.off, k.onToggle
      PROVE  StartAceService(k, w, s) = [l |-> k, ok |-> FALSE]
  BY <1>3 DEF StartAceService
<1> QED BY <1>1, <1>2, <1>3

\* StartAceService otherwise.
LEMMA StartPlain ==
    ASSUME NEW k, NEW w, NEW s, s \notin k.loaded,
           s \notin CheckLoad \/ (k.pfwStarted /\ s \notin w.off)
    PROVE  StartAceService(k, w, s) = StartInRepository(k, w, s)
  BY DEF StartAceService

\* What a service that is not started leaves behind.
LEMMA SkipFields ==
    ASSUME NEW k \in States, NEW s, NEW m,
           m = NotLoaded(k, s) \/ m = [NotLoaded(k, s) EXCEPT !.waitPfw = @ \cup {s}]
    PROVE  /\ m.toLoad = k.toLoad \ {s} /\ m.loaded = k.loaded
           /\ m.locked = k.locked \ {s} /\ m.active = k.active /\ m.waiting = k.waiting
           /\ m.waitPfw \subseteq k.waitPfw \cup {s} /\ m.queue = k.queue
           /\ m.repository = k.repository /\ m.handlers = k.handlers /\ m.ended = k.ended
           /\ m.deferred = k.deferred /\ m.asleep = k.asleep /\ m.nextTasks = k.nextTasks
           /\ m.inProcess = k.inProcess /\ m.onToggle = k.onToggle
<1>1. CASE m = NotLoaded(k, s)
  BY <1>1, Fields DEF NotLoaded
<1>2. CASE m = [NotLoaded(k, s) EXCEPT !.waitPfw = @ \cup {s}]
  BY <1>2, Fields DEF NotLoaded
<1> QED BY <1>1, <1>2

\* A lock that is given back at once.
LEMMA Relock ==
    ASSUME NEW l \in States, NEW X, NEW Y, Y = l.locked
    PROVE  [[l EXCEPT !.locked = X] EXCEPT !.locked = Y] = l
  BY DEF States, Lms

\* The task t may let the batch b visit s.
Visitable(b, t, s) ==
    /\ s \notin b.l.locked \cup b.l.loaded => s \in b.l.toLoad /\ s \in Scope(t)
    /\ s \notin b.l.locked \cup b.l.loaded /\ ReadyToOperation(b.l, s, "load")
          => s \notin b.l.waiting["load"]
    /\ s = "HostChanges" => "EventManager" \notin b.l.loaded \cup b.l.locked
    /\ t = On => b.l.onToggle /\ ReadyToOperation(b.l, s, "load")

\* A visit of a batch that loads keeps Good and does one of the things of
\* Visited. Every case of the loop's body is one step.
LEMMA LoadVisit ==
    ASSUME NEW b \in Batches, b.list # <<>>, NEW t, Good(b.l, t),
           NEW w \in Worlds, w.bad = {},
           NEW s, s = Head(b.list),
           Visitable(b, t, s)
    PROVE  LET c == Visit(b, w, "load") IN
           /\ c \in Batches /\ Good(c.l, t) /\ Mailed(b.l.queue[CONF], c.l.queue[CONF])
           /\ c.l.loaded = b.l.loaded /\ Visited(b, c, s) /\ Frame(b.l, c.l)
<1> DEFINE l == b.l
           left == Tail(b.list)
           todo == IF b.ret = "FAILURE" THEN "FAILURE" ELSE "SUCCESS"
           k == [l EXCEPT !.locked = @ \cup {s}]
           r == DoOperation(k, w, s, "load")
           c == Visit(b, w, "load")
           done == s \in l.locked \/ DoneCriteria(l, s, "load")
<1>0. /\ s \notin b.l.locked \cup b.l.loaded => s \in b.l.toLoad /\ s \in Scope(t)
      /\ s \notin b.l.locked \cup b.l.loaded /\ ReadyToOperation(b.l, s, "load")
            => s \notin b.l.waiting["load"]
      /\ s = "HostChanges" => "EventManager" \notin b.l.loaded \cup b.l.locked
      /\ t = On => b.l.onToggle /\ ReadyToOperation(b.l, s, "load")
  BY DEF Visitable
<1>1. /\ l \in States /\ s \in Service /\ "load" \in Op /\ b.ret \in Ret
      /\ b = [l |-> b.l, list |-> b.list, ret |-> b.ret, seen |-> b.seen]
  BY DEF Batches, Op
<1>2. c \in Batches /\ Frame(l, c.l)
  BY <1>1, VisitSound, VisitFrame
<1>3. done <=> s \in l.locked \cup l.loaded
  BY <1>1, LoadPrerequisites
<1>4. CASE done
  <2>1. c = [b EXCEPT !.list = left]
    BY <1>4 DEF Visit
  <2>2. c.l = b.l /\ c.list = left /\ c.ret = b.ret
    BY <1>1, <2>1
  <2> HIDE DEF c, done
  <2>3. Visited(b, c, s)
    BY <1>3, <1>4, <2>2 DEF Visited
  <2> QED BY <1>2, <2>2, <2>3, MailedSame DEF c
<1>5. CASE ~done /\ ReadyToOperation(l, s, "load")
  <2> DEFINE m == IF r.ok THEN r.l ELSE [r.l EXCEPT !.locked = @ \ {s}]
  <2>1. /\ c = [l |-> m, list |-> left, ret |-> IF r.ok THEN todo ELSE "FAILURE",
                seen |-> IF r.ok THEN {} ELSE b.seen]
    BY <1>5 DEF Visit
  <2>2. c.l = m /\ c.list = left /\ c.ret = IF r.ok THEN todo ELSE "FAILURE"
    <3> HIDE DEF m, c, r
    <3> QED BY <2>1
  <2>3. /\ s \notin l.locked /\ s \notin l.loaded /\ s \in l.toLoad /\ s \in Scope(t)
        /\ s \notin l.waiting["load"]
    BY <1>0, <1>3, <1>5
  <2>4. r = StartAceService(k, w, s)
    BY DEF DoOperation
  <2>5. /\ k \in States /\ k.loaded = l.loaded /\ k.locked = l.locked \cup {s}
        /\ k.toLoad = l.toLoad
        /\ k.waiting = l.waiting /\ k.pfwStarted = l.pfwStarted /\ k.onToggle = l.onToggle
        /\ k.active = l.active /\ k.waitPfw = l.waitPfw /\ k.queue = l.queue
        /\ k.repository = l.repository /\ k.handlers = l.handlers /\ k.ended = l.ended
        /\ k.deferred = l.deferred /\ k.asleep = l.asleep /\ k.nextTasks = l.nextTasks
        /\ k.inProcess = l.inProcess
    <3>1. k \in States
      BY <1>1, LockSound, StateSets
    <3> QED BY <1>1, <3>1, ZenonT(30) DEF States, Lms
  <2>6. CASE s \in CheckLoad /\ (~k.pfwStarted \/ (s \in w.off /\ ~k.onToggle))
    <3>1. s = "TimeSync" /\ r.ok
      <4> HIDE DEF k, r
      <4>1. s \notin k.loaded
        BY <2>3, <2>5
      <4> QED BY <2>4, <2>6, <4>1, StartCases DEF CheckLoad
    <3>2. /\ r.l.toLoad = l.toLoad \ {"TimeSync"} /\ r.l.loaded = l.loaded
          /\ r.l.locked = l.locked /\ r.l.active = l.active /\ r.l.waiting = l.waiting
          /\ r.l.waitPfw \subseteq l.waitPfw \cup {"TimeSync"} /\ r.l.queue = l.queue
          /\ r.l.repository = l.repository /\ r.l.handlers = l.handlers
          /\ r.l.ended = l.ended
          /\ r.l.deferred = l.deferred /\ r.l.asleep = l.asleep
          /\ r.l.nextTasks = l.nextTasks
          /\ r.l.inProcess = l.inProcess /\ r.l.onToggle = l.onToggle
      <4>1. r.l = NotLoaded(k, s) \/ r.l = [NotLoaded(k, s) EXCEPT !.waitPfw = @ \cup {s}]
        <5> HIDE DEF k, r
        <5>1. s \notin k.loaded
          BY <2>3, <2>5
        <5> QED BY <2>4, <2>6, <5>1, StartCases
      <4>2. (l.locked \cup {s}) \ {s} = l.locked
        BY <2>3
      <4> HIDE DEF k, r
      <4>3. /\ r.l.toLoad = k.toLoad \ {s} /\ r.l.loaded = k.loaded
            /\ r.l.locked = k.locked \ {s} /\ r.l.active = k.active
            /\ r.l.waiting = k.waiting
            /\ r.l.waitPfw \subseteq k.waitPfw \cup {s} /\ r.l.queue = k.queue
            /\ r.l.repository = k.repository /\ r.l.handlers = k.handlers
            /\ r.l.ended = k.ended
            /\ r.l.deferred = k.deferred /\ r.l.asleep = k.asleep
            /\ r.l.nextTasks = k.nextTasks
            /\ r.l.inProcess = k.inProcess /\ r.l.onToggle = k.onToggle
        BY <2>5, <4>1, SkipFields
      <4> QED BY <2>5, <3>1, <4>2, <4>3
    <3>3. c.l = r.l /\ r.l \in States
      BY <1>2, <2>2, <3>1 DEF Batches
    <3> HIDE DEF c, r, k, done, m
    <3>4. Good(c.l, t)
      BY <2>3, <3>1, <3>2, <3>3, GoodSkip
    <3>5. Visited(b, c, s)
      BY <1>5, <2>2, <3>1, <3>2, <3>3 DEF Visited
    <3> QED BY <1>2, <3>2, <3>3, <3>4, <3>5, MailedSame DEF c
  <2>7. CASE s \in CheckLoad /\ k.pfwStarted /\ s \in w.off /\ k.onToggle
    <3>1. r.l = k /\ ~r.ok
      <4> HIDE DEF k, r
      <4>1. s \notin k.loaded
        BY <2>3, <2>5
      <4> QED BY <2>4, <2>7, <4>1, StartCases
    <3>2. m = l
      <4>1. m = [k EXCEPT !.locked = k.locked \ {s}]
        BY <3>1
      <4>2. k.locked \ {s} = l.locked
        BY <2>3, <2>5
      <4>3. [k EXCEPT !.locked = k.locked \ {s}] = l
        <5> DEFINE Y == k.locked \ {s}
                   X == l.locked \cup {s}
        <5>1. k = [l EXCEPT !.locked = X] /\ Y = l.locked
          BY <4>2
        <5> HIDE DEF Y, X, k
        <5>2. [k EXCEPT !.locked = Y] = l
          BY <1>1, <5>1, Relock
        <5> QED BY <5>2 DEF Y
      <4> QED BY <4>1, <4>3
    <3>3. c.l = l /\ c.ret = "FAILURE"
      BY <2>2, <3>1, <3>2
    <3>4. l.onToggle
      BY <2>5, <2>7
    <3> HIDE DEF c, r, k, done, m
    <3>5. Visited(b, c, s)
      BY <2>2, <3>3, <3>4 DEF Visited
    <3> QED BY <1>2, <3>3, <3>5, MailedSame DEF c
  <2>8. CASE s \notin CheckLoad \/ (k.pfwStarted /\ s \notin w.off)
    <3>1. r = StartInRepository(k, w, s)
      <4> HIDE DEF k, r
      <4>1. s \notin k.loaded
        BY <2>3, <2>5
      <4> QED BY <2>4, <2>8, <4>1, StartPlain
    <3>2. t = On => l.onToggle
      BY <1>0
    <3>3. /\ StartInRepository(k, w, s).ok
          /\ Good(StartInRepository(k, w, s).l, t)
          /\ Mailed(l.queue[CONF], StartInRepository(k, w, s).l.queue[CONF])
          /\ StartInRepository(k, w, s).l.loaded = l.loaded
          /\ StartInRepository(k, w, s).l.locked = l.locked \cup {s}
          /\ StartInRepository(k, w, s).l.toLoad = l.toLoad
          /\ StartInRepository(k, w, s).l.waiting = l.waiting
      BY <1>0, <1>1, <1>5, <2>3, <3>2, GoodStart
    <3>4. c.l = StartInRepository(k, w, s).l /\ c.ret = todo
      BY <2>2, <3>1, <3>3
    <3> HIDE DEF c, r, k, done, m
    <3>5. Visited(b, c, s)
      BY <1>5, <2>2, <3>3, <3>4 DEF Visited
    <3> QED BY <1>2, <3>3, <3>4, <3>5 DEF c
  <2> QED BY <2>6, <2>7, <2>8
<1>6. CASE ~done /\ ~ReadyToOperation(l, s, "load") /\ s \in b.seen
  <2>1. c = [b EXCEPT !.list = left, !.ret = todo]
    BY <1>6 DEF Visit
  <2>2. c.l = b.l /\ c.list = left /\ c.ret = todo
    BY <1>1, <2>1
  <2> HIDE DEF c, done
  <2>3. Visited(b, c, s)
    BY <1>6, <2>2 DEF Visited
  <2> QED BY <1>2, <2>2, <2>3, MailedSame DEF c
<1>7. CASE ~done /\ ~ReadyToOperation(l, s, "load") /\ s \notin b.seen
  <2> DEFINE m == [l EXCEPT !.waiting["load"] = @ \cup {s}]
  <2>1. c = [l |-> m,
           list |-> GetPrerequisites(l, s, "load") \o left, ret |-> todo, seen |-> b.seen \cup {s}]
    BY <1>7 DEF Visit
  <2>2. c.l = m /\ c.list = GetPrerequisites(l, s, "load") \o left /\ c.ret = todo
    <3> HIDE DEF m, c
    <3> QED BY <2>1
  <2>3. s \notin l.locked /\ s \notin l.loaded /\ s \in l.toLoad /\ s \in Scope(t) /\ t # On
    BY <1>0, <1>3, <1>7
  <2>4. /\ Good(m, t) /\ m.queue = l.queue /\ m.loaded = l.loaded
        /\ m.locked = l.locked /\ m.toLoad = l.toLoad
        /\ m.waiting["load"] = l.waiting["load"] \cup {s}
    BY <1>1, <1>7, <2>3, GoodWait
  <2> HIDE DEF c, done, m
  <2>5. Visited(b, c, s)
    BY <1>7, <2>2, <2>3, <2>4 DEF Visited
  <2> QED BY <1>2, <2>2, <2>4, <2>5, MailedSame DEF c
<1> QED BY <1>4, <1>5, <1>6, <1>7
=============================================================================
