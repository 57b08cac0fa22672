------------------------- MODULE StatusEventsProofs -------------------------
(***************************************************************************)
(* Proofs about StatusEvents, for any sets of features that change and of  *)
(* questions that fail and any bounds: types, the announcements of the     *)
(* provisioning state in turn, and that the registry agrees with the       *)
(* firmware once everything is handled.                                    *)
(***************************************************************************)
EXTENDS StatusEvents, SequenceTheorems, TLAPS

-----------------------------------------------------------------------------
(* The inductive invariants *)

(* What is in the queues: an alert has a state of its feature.             *)
Sent ==
    {Message(t) : t \in {"SUBSCRIBE_EVENT", "SRVICE_UP", "PFW_AVAILABLE"}}
    \cup UNION {{Alert(f, v) : v \in State(f)} : f \in Feature}

(* Where a pull may stand.                                                 *)
PullsForEvents ==
    {GenerateEvents, <<"SOL", "SYSDEF", "PROV">>, <<"SYSDEF", "PROV">>, <<"PROV">>}
PullsForPfw == {GeneratePortFwrdRelatedEvents, <<"TIME_SYNC">>}
Pulls == {<<>>} \cup PullsForEvents \cup PullsForPfw

(* TypeOK with fw and storage as functions and with these finer sets.      *)
DataInv ==
    /\ fw \in [Feature -> 0..2] /\ storage \in [Feature -> 0..2 \cup {None}]
    /\ \A f \in Feature : fw[f] \in State(f) /\ storage[f] \in State(f) \cup {None}
    /\ m_prevProvState \in State("PROV")
    /\ m_firstPullForEvents \in BOOLEAN /\ handlers \in BOOLEAN
    /\ life \in {"absent", "up", "half", "suspended"}
    /\ link \in {"down", "connected", "announced"}
    /\ needBroadcast \in BOOLEAN /\ isPortForwardingStarted \in BOOLEAN
    /\ pfwTasks \in Seq({"STARTED", "STOPPED"})
    /\ wire \in Seq(Sent) /\ managerQueue \in Seq(Sent) /\ queue \in Seq(Sent)
    /\ pull \in Pulls /\ amt \in State("AMT")
    /\ missed \subseteq Feature
    /\ announced \in Seq({"configured", "unconfigured"})
    /\ bounds \in [changes : 0..MaxChanges, lives : 0..MaxLives, links : 0..MaxLinks]

(* A process that ended leaves nothing under way, and port forwarding runs *)
(* below a handler that runs.                                              *)
LifeInv ==
    /\ life = "absent" => /\ queue = <<>> /\ managerQueue = <<>> /\ pull = <<>>
                          /\ m_firstPullForEvents
                          /\ needBroadcast /\ pfwTasks = <<>>
    /\ link # "down" => life = "up" /\ handlers
    /\ link = "down" => wire = <<>>

(* The first message a handler sees in its life is SRVICE_UP.              *)
FirstIsUp ==
    life # "absent" /\ m_firstPullForEvents =>
        queue # <<>> /\ Head(queue).type = "SRVICE_UP"

(* What was announced last is what the registry says of provisioning, and, *)
(* once the handler has read it, what the handler remembers.               *)
AnnouncedIsSaved ==
    announced # <<>> =>
        /\ storage["PROV"] # None
        /\ storage["PROV"] = POST <=> announced[Len(announced)] = "configured"
        /\ ~m_firstPullForEvents => m_prevProvState = storage["PROV"]

AnnounceInv == LifeInv /\ FirstIsUp /\ AnnouncedIsSaved /\ ConfiguredAlternates

(* m is an alert of f.                                                     *)
IsAlert(m, f) == m.type = "PUBLISH_EVENT" /\ m.f = f
NoAlert(q, f) == \A i \in 1..Len(q) : ~IsAlert(q[i], f)

(* No message of M is in q.                                                *)
Without(q, M) == \A i \in 1..Len(q) : q[i] \notin M

(* A message of M is in q, and no alert of f comes after it.               *)
Latest(q, f, M) ==
    \E i \in 1..Len(q) : q[i] \in M /\ \A j \in (i + 1)..Len(q) : ~IsAlert(q[j], f)

(* The state of f in the firmware is what the registry has when all that   *)
(* is under way has been handled: the newest alert says so, or there is    *)
(* none and the registry has it.                                           *)
FreshIn(f, now, w, mq, q, saved) ==
    \/ Latest(w, f, now)
    \/ NoAlert(w, f) /\ Latest(mq, f, now)
    \/ NoAlert(w, f) /\ NoAlert(mq, f) /\ Latest(q, f, now)
    \/ NoAlert(w, f) /\ NoAlert(mq, f) /\ NoAlert(q, f) /\ saved

Fresh(f) ==
    FreshIn(f, {Alert(f, fw[f])}, wire, managerQueue, queue, storage[f] = fw[f])

(* Where AMT is absent nothing changes and there is nothing to tell.       *)
Absent == fw["AMT"] = AMT_NOT_PRESENT
Plausible(m, absent) ==
    m.type = "PUBLISH_EVENT" => ~absent /\ m # Alert("AMT", AMT_NOT_PRESENT)
AllPlausible(q, absent) == \A i \in 1..Len(q) : Plausible(q[i], absent)
AbsentIsStill ==
    /\ Absent => \A f \in Feature : fw[f] = 0 /\ storage[f] \in {None, 0}
    /\ AllPlausible(wire, Absent) /\ AllPlausible(managerQueue, Absent)
    /\ AllPlausible(queue, Absent)

(* A pull begins with the question for AMT and keeps the answer; AMT that  *)
(* was absent then is absent now.                                          *)
PullRemembers ==
    /\ pull # <<>> /\ Head(pull) = "AMT" => amt = AMT_NOT_PRESENT
    /\ pull # <<>> /\ Head(pull) # "AMT" /\ amt = AMT_NOT_PRESENT =>
          fw["AMT"] = AMT_NOT_PRESENT

(* What was told or asked for is known when all is handled.                *)
ToldIsFresh == \A f \in Feature \ missed : Fresh(f)

AgreeInv == LifeInv /\ AbsentIsStill /\ PullRemembers /\ ToldIsFresh

(* While there is a connection every change is told: the last alert on its *)
(* way is about the present state.                                         *)
WireIsCurrent ==
    \A f \in Feature : NoAlert(wire, f) \/ Latest(wire, f, {Alert(f, fw[f])})

(* SRVICE_UP is sent to a handler with an empty queue.                     *)
Up == {Message("SRVICE_UP")}
UpIsFirst ==
    /\ Without(wire, Up) /\ Without(managerQueue, Up)
    /\ queue # <<>> => Without(Tail(queue), Up)
    /\ pull # <<>> => Without(queue, Up)
    /\ life = "suspended" => queue = <<>> /\ pull = <<>>

(* The last message to the Configurator, when it is handled, leaves the    *)
(* flag as port forwarding takes it to be.                                 *)
FlagFollows ==
    /\ link = "announced" => ~needBroadcast
    /\ pfwTasks = <<>> => isPortForwardingStarted = ~needBroadcast
    /\ pfwTasks # <<>> => (pfwTasks[Len(pfwTasks)] = "STARTED") = ~needBroadcast

(* While port forwarding is started, an old state of TIME_SYNC is asked    *)
(* for: EVENT_PORT_FORWARDING_SERVICE_AVAILABLE is under way behind every  *)
(* alert of it, or the pull it asks for is running, or that pull had no    *)
(* answer for the state of AMT, and no other pull was begun since.         *)
Available == {Message("PFW_AVAILABLE")}
Asked ==
    \/ Latest(managerQueue, "TIME_SYNC", Available)
    \/ NoAlert(managerQueue, "TIME_SYNC") /\ Latest(queue, "TIME_SYNC", Available)
    \/ /\ NoAlert(managerQueue, "TIME_SYNC") /\ NoAlert(queue, "TIME_SYNC")
       /\ \/ pull \in PullsForPfw
          \/ pull = <<>> /\ amt = AMT_NOT_PRESENT /\ Without(queue, Up)
GapIsAsked == Started /\ ~Fresh("TIME_SYNC") => Asked

StartedInv == WireIsCurrent /\ UpIsFirst /\ FlagFollows /\ GapIsAsked

-----------------------------------------------------------------------------
(* Queues *)

(* A queue that gets a message: what it has of f, and its messages.        *)
LEMMA Appended ==
    ASSUME NEW q \in Seq(Sent), NEW m \in Sent, NEW f, NEW M
    PROVE  /\ Append(q, m) \in Seq(Sent)
           /\ Append(q, m) # <<>>
           /\ q # <<>> => Head(Append(q, m)) = Head(q)
           /\ NoAlert(Append(q, m), f) <=> NoAlert(q, f) /\ ~IsAlert(m, f)
           /\ m \in M => Latest(Append(q, m), f, M)
           /\ Latest(q, f, M) /\ ~IsAlert(m, f) => Latest(Append(q, m), f, M)
           /\ Without(q, M) /\ m \notin M => Without(Append(q, m), M)
<1> DEFINE r == Append(q, m)
<1>1. /\ r \in Seq(Sent) /\ Len(q) \in Nat /\ Len(r) = Len(q) + 1 /\ r # <<>>
      /\ \A i \in 1..Len(q) : r[i] = q[i]
      /\ r[Len(q) + 1] = m
      /\ q # <<>> => Head(r) = Head(q)
  <2>1. /\ r \in Seq(Sent) /\ Len(r) = Len(q) + 1 /\ r # <<>>
        /\ \A i \in 1..Len(q) : r[i] = q[i]
        /\ r[Len(q) + 1] = m
    BY AppendProperties
  <2>2. q # <<>> => Head(r) = Head(q) BY <2>1
  <2> QED BY <2>1, <2>2
<1> HIDE DEF r
<1>2. NoAlert(r, f) <=> NoAlert(q, f) /\ ~IsAlert(m, f)
  <2>1. 1..Len(r) = 1..Len(q) \cup {Len(q) + 1} BY <1>1
  <2> QED BY <1>1, <2>1 DEF NoAlert
<1>3. m \in M => Latest(r, f, M)
  <2> HAVE m \in M
  <2>1. (Len(q) + 1) \in 1..Len(r) BY <1>1
  <2>2. \A j \in (Len(q) + 1 + 1)..Len(r) : FALSE BY <1>1
  <2> QED BY <1>1, <2>1, <2>2 DEF Latest
<1>4. Latest(q, f, M) /\ ~IsAlert(m, f) => Latest(r, f, M)
  <2> HAVE Latest(q, f, M) /\ ~IsAlert(m, f)
  <2>1. PICK i \in 1..Len(q) : q[i] \in M /\ \A j \in (i + 1)..Len(q) : ~IsAlert(q[j], f)
    BY DEF Latest
  <2>2. i \in 1..Len(r) /\ r[i] \in M BY <1>1, <2>1
  <2>3. ASSUME NEW j \in (i + 1)..Len(r) PROVE ~IsAlert(r[j], f)
    <3>1. (j \in (i + 1)..Len(q) /\ j \in 1..Len(q)) \/ j = Len(q) + 1 BY <1>1
    <3> QED BY <1>1, <2>1, <3>1
  <2> QED BY <2>2, <2>3 DEF Latest
<1>5. Without(q, M) /\ m \notin M => Without(r, M)
  <2>1. 1..Len(r) = 1..Len(q) \cup {Len(q) + 1} BY <1>1
  <2> QED BY <1>1, <2>1 DEF Without
<1> QED BY <1>1, <1>2, <1>3, <1>4, <1>5 DEF r

(* A queue that gives its first message away.                              *)
LEMMA Taken ==
    ASSUME NEW q \in Seq(Sent), q # <<>>, NEW f, NEW M
    PROVE  /\ Head(q) \in Sent /\ Tail(q) \in Seq(Sent)
           /\ NoAlert(q, f) <=> ~IsAlert(Head(q), f) /\ NoAlert(Tail(q), f)
           /\ Latest(q, f, M) <=>
                 Latest(Tail(q), f, M) \/ (Head(q) \in M /\ NoAlert(Tail(q), f))
           /\ Without(q, M) => Head(q) \notin M /\ Without(Tail(q), M)
<1>1. PICK n \in Nat : n = Len(q) OBVIOUS
<1>2. PICK t \in Seq(Sent) : t = Tail(q) BY HeadTailProperties
<1>3. /\ n > 0 /\ Head(q) = q[1] /\ q[1] \in Sent
      /\ Len(t) = n - 1 /\ \A i \in 1..(n - 1) : t[i] = q[i + 1]
  BY <1>1, <1>2
<1>4. \A i \in 1..(n - 1) : (i + 1) \in 1..n OBVIOUS
<1>5. \A i \in 1..n : i = 1 \/ ((i - 1) \in 1..(n - 1) /\ t[i - 1] = q[i]) BY <1>3
<1>6. NoAlert(q, f) <=> ~IsAlert(Head(q), f) /\ NoAlert(t, f)
  <2>1. ASSUME NoAlert(q, f) PROVE ~IsAlert(q[1], f) /\ NoAlert(t, f)
    BY <1>1, <1>3, <1>4, <2>1 DEF NoAlert
  <2>2. ASSUME ~IsAlert(q[1], f), NoAlert(t, f) PROVE NoAlert(q, f)
    BY <1>1, <1>3, <1>5, <2>2 DEF NoAlert
  <2> QED BY <1>3, <2>1, <2>2
<1>7. ASSUME Latest(q, f, M) PROVE Latest(t, f, M) \/ (Head(q) \in M /\ NoAlert(t, f))
  <2>1. PICK i \in 1..n : q[i] \in M /\ \A j \in (i + 1)..n : ~IsAlert(q[j], f)
    BY <1>1, <1>7 DEF Latest
  <2>2. CASE i = 1
    <3>1. NoAlert(t, f)
      <4>1. \A k \in 1..(n - 1) : (k + 1) \in (i + 1)..n BY <2>2
      <4> QED BY <1>3, <2>1, <4>1 DEF NoAlert
    <3> QED BY <1>3, <2>1, <2>2, <3>1
  <2>3. CASE i # 1
    <3>1. (i - 1) \in 1..(n - 1) /\ t[i - 1] \in M BY <1>5, <2>1, <2>3
    <3>2. ASSUME NEW j \in (i - 1 + 1)..(n - 1) PROVE ~IsAlert(t[j], f)
      <4>1. j \in 1..(n - 1) /\ (j + 1) \in (i + 1)..n OBVIOUS
      <4> QED BY <1>3, <2>1, <4>1
    <3> QED BY <1>3, <3>1, <3>2 DEF Latest
  <2> QED BY <2>2, <2>3
<1>8. ASSUME Latest(t, f, M) PROVE Latest(q, f, M)
  <2>1. PICK i \in 1..(n - 1) :
           t[i] \in M /\ \A j \in (i + 1)..(n - 1) : ~IsAlert(t[j], f)
    BY <1>3, <1>8 DEF Latest
  <2>2. (i + 1) \in 1..n /\ q[i + 1] \in M BY <1>3, <1>4, <2>1
  <2>3. ASSUME NEW j \in (i + 1 + 1)..n PROVE ~IsAlert(q[j], f)
    <3>1. (j - 1) \in (i + 1)..(n - 1) /\ j \in 1..n /\ j # 1 OBVIOUS
    <3> QED BY <1>5, <2>1, <3>1
  <2> QED BY <1>1, <2>2, <2>3 DEF Latest
<1>9. ASSUME Head(q) \in M, NoAlert(t, f) PROVE Latest(q, f, M)
  <2>1. 1 \in 1..n BY <1>3
  <2>2. ASSUME NEW j \in 2..n PROVE ~IsAlert(q[j], f)
    <3>1. j \in 1..n /\ j # 1 OBVIOUS
    <3> QED BY <1>3, <1>5, <1>9, <3>1 DEF NoAlert
  <2> QED BY <1>1, <1>3, <1>9, <2>1, <2>2 DEF Latest
<1>10. Without(q, M) => Head(q) \notin M /\ Without(t, M)
  BY <1>1, <1>3, <1>4 DEF Without
<1> QED BY <1>2, <1>3, <1>6, <1>7, <1>8, <1>9, <1>10

(* The empty queue.                                                        *)
LEMMA EmptyQueue ==
    ASSUME NEW f, NEW M
    PROVE  NoAlert(<<>>, f) /\ ~Latest(<<>>, f, M) /\ Without(<<>>, M) /\ Told(<<>>) = {}
BY DEF NoAlert, Latest, Without, Told

(* The lost alerts are those of the features that have one.                *)
LEMMA ToldIsAlert ==
    ASSUME NEW q \in Seq(Sent), NEW f
    PROVE  f \in Told(q) <=> ~NoAlert(q, f)
BY DEF Told, NoAlert, IsAlert

LEMMA ToldFeatures ==
    ASSUME NEW q \in Seq(Sent)
    PROVE  Told(q) \subseteq Feature
<1>1. \A m \in Sent : m.type = "PUBLISH_EVENT" => m.f \in Feature
  BY DEF Sent, Message, Alert
<1>2. \A i \in DOMAIN q : q[i] \in Sent OBVIOUS
<1> QED BY <1>1, <1>2 DEF Told

LEMMA ToldOfOne ==
    ASSUME NEW m \in Sent, NEW f
    PROVE  f \in Told(<<m>>) <=> IsAlert(m, f)
BY DEF Told, IsAlert

LEMMA NoAlertOfThree ==
    ASSUME NEW a \in Seq(Sent), NEW b \in Seq(Sent), NEW c \in Seq(Sent), NEW f
    PROVE  /\ (a \o b) \o c \in Seq(Sent)
           /\ NoAlert((a \o b) \o c, f) <=> NoAlert(a, f) /\ NoAlert(b, f) /\ NoAlert(c, f)
<1>1. ASSUME NEW x \in Seq(Sent), NEW y \in Seq(Sent)
      PROVE  /\ x \o y \in Seq(Sent)
             /\ NoAlert(x \o y, f) <=> NoAlert(x, f) /\ NoAlert(y, f)
  <2>1. PICK z \in Seq(Sent) : z = x \o y BY ConcatProperties
  <2>2. /\ Len(x) \in Nat /\ Len(y) \in Nat /\ Len(z) = Len(x) + Len(y)
        /\ \A i \in 1..Len(x) : z[i] = x[i]
        /\ \A i \in 1..Len(y) : z[Len(x) + i] = y[i]
    BY <2>1
  <2>3. ASSUME NoAlert(z, f) PROVE NoAlert(x, f) /\ NoAlert(y, f)
    <3>1. \A i \in 1..Len(x) : i \in 1..Len(z) BY <2>2
    <3>2. \A i \in 1..Len(y) : (Len(x) + i) \in 1..Len(z) BY <2>2
    <3> QED BY <2>2, <2>3, <3>1, <3>2 DEF NoAlert
  <2>4. ASSUME NoAlert(x, f), NoAlert(y, f) PROVE NoAlert(z, f)
    <3>1. ASSUME NEW i \in 1..Len(z) PROVE ~IsAlert(z[i], f)
      <4>1. CASE i \in 1..Len(x) BY <2>2, <2>4, <4>1 DEF NoAlert
      <4>2. CASE i \notin 1..Len(x)
        <5>1. (i - Len(x)) \in 1..Len(y) /\ Len(x) + (i - Len(x)) = i BY <2>2, <4>2
        <5> QED BY <2>2, <2>4, <5>1 DEF NoAlert
      <4> QED BY <4>1, <4>2
    <3> QED BY <3>1 DEF NoAlert
  <2> QED BY <2>1, <2>3, <2>4
<1> QED BY <1>1

(* The messages.                                                           *)
LEMMA AlertMessage ==
    ASSUME NEW f \in Feature, NEW v \in State(f)
    PROVE  /\ Alert(f, v) \in Sent
           /\ Alert(f, v).type = "PUBLISH_EVENT" /\ Alert(f, v).f = f /\ Alert(f, v).v = v
BY DEF Alert, Sent

LEMMA OtherMessage ==
    ASSUME NEW t \in {"SUBSCRIBE_EVENT", "SRVICE_UP", "PFW_AVAILABLE"}
    PROVE  Message(t) \in Sent /\ Message(t).type = t
BY DEF Message, Sent

LEMMA SentMessages ==
    ASSUME NEW m \in Sent
    PROVE  /\ m.type \in {"SUBSCRIBE_EVENT", "SRVICE_UP", "PFW_AVAILABLE", "PUBLISH_EVENT"}
           /\ m.type = "PUBLISH_EVENT" =>
                 m.f \in Feature /\ m.v \in State(m.f) /\ m = Alert(m.f, m.v)
           /\ m.type # "PUBLISH_EVENT" => m = Message(m.type)
<1>1. CASE m \in {Message(t) : t \in {"SUBSCRIBE_EVENT", "SRVICE_UP", "PFW_AVAILABLE"}}
  BY <1>1 DEF Message
<1>2. CASE m \in UNION {{Alert(f, v) : v \in State(f)} : f \in Feature}
  <2>1. PICK f \in Feature : \E v \in State(f) : m = Alert(f, v) BY <1>2
  <2> QED BY <2>1 DEF Alert
<1> QED BY <1>1, <1>2 DEF Sent

(* A pull goes through the features of its list.                           *)
LEMMA PullTail ==
    ASSUME NEW p \in Pulls, p # <<>>
    PROVE  /\ Head(p) \in Feature /\ Tail(p) \in Pulls
           /\ p \in PullsForEvents =>
                 Tail(p) \in {<<>>} \cup PullsForEvents /\ Head(p) # "TIME_SYNC"
           /\ p \in PullsForPfw =>
                 /\ Tail(p) \in {<<>>, <<"TIME_SYNC">>}
                 /\ Head(p) = "AMT" => Tail(p) = <<"TIME_SYNC">>
                 /\ Head(p) \in {"AMT", "TIME_SYNC"}
                 /\ p # GenerateEvents
           /\ Tail(p) # <<>> => Head(Tail(p)) # "AMT"
<1> USE DEF Pulls, PullsForEvents, PullsForPfw, GenerateEvents,
            GeneratePortFwrdRelatedEvents, Feature
<1>1. CASE p = GenerateEvents BY <1>1
<1>2. CASE p = <<"SOL", "SYSDEF", "PROV">> BY <1>2
<1>3. CASE p = <<"SYSDEF", "PROV">> BY <1>3
<1>4. CASE p = <<"PROV">> BY <1>4
<1>5. CASE p = GeneratePortFwrdRelatedEvents BY <1>5
<1>6. CASE p = <<"TIME_SYNC">> BY <1>6
<1> QED BY <1>1, <1>2, <1>3, <1>4, <1>5, <1>6

-----------------------------------------------------------------------------
(* Types *)

LEMMA DataImplies == DataInv => TypeOK
<1> HAVE DataInv
<1>1. Sent \subseteq Messages
  <2>1. \A f \in Feature : State(f) \subseteq 0..2 BY DEF State
  <2> QED BY <2>1 DEF Sent, Messages
<1>2. wire \in Seq(Messages) /\ managerQueue \in Seq(Messages) /\ queue \in Seq(Messages)
  BY <1>1, SeqMonotonic DEF DataInv
<1>3. pull \in Seq(Feature)
  <2> USE DEF Feature
  <2>1. GenerateEvents \in Seq(Feature) BY DEF GenerateEvents
  <2>2. GeneratePortFwrdRelatedEvents \in Seq(Feature) BY DEF GeneratePortFwrdRelatedEvents
  <2>3. <<"SOL", "SYSDEF", "PROV">> \in Seq(Feature) OBVIOUS
  <2>4. <<"SYSDEF", "PROV">> \in Seq(Feature) OBVIOUS
  <2>5. <<"PROV">> \in Seq(Feature) /\ <<"TIME_SYNC">> \in Seq(Feature)
        /\ <<>> \in Seq(Feature)
    OBVIOUS
  <2> HIDE DEF Feature
  <2> QED BY <2>1, <2>2, <2>3, <2>4, <2>5 DEF DataInv, Pulls, PullsForEvents, PullsForPfw
<1>4. pfwTasks \in Seq({"STARTED", "STOPPED"}) BY DEF DataInv
<1> QED BY <1>2, <1>3, <1>4 DEF DataInv, TypeOK

LEMMA States ==
    ASSUME NEW f \in Feature
    PROVE  /\ 0 \in State(f) /\ 1 \in State(f) /\ State(f) \subseteq 0..2
           /\ State("AMT") = 0..2 /\ State("PROV") = 0..2
           /\ None \notin State(f)
BY StatusConstants DEF State

LEMMA DataInit == Init => DataInv
<1> HAVE Init
<1>1. PICK s \in InitStates : /\ fw = s.fw /\ storage = s.storage
                              /\ missed = s.missed /\ announced = s.announced
  BY DEF Init
<1>2. /\ fw \in [Feature -> 0..2] /\ storage \in [Feature -> 0..2 \cup {None}]
      /\ \A f \in Feature : fw[f] \in State(f) /\ storage[f] \in State(f) \cup {None}
      /\ missed \subseteq Feature
      /\ announced \in Seq({"configured", "unconfigured"})
  <2>1. CASE \E a \in {AMT_NOT_PRESENT, AMT_DISABLED} :
                s = [fw |-> [f \in Feature |-> IF f = "AMT" THEN a ELSE 0],
                     storage |-> [f \in Feature |-> None],
                     missed |-> Feature, announced |-> <<>>]
    BY <1>1, <2>1 DEF AMT_NOT_PRESENT, AMT_DISABLED, State
  <2> DEFINE now == [f \in Feature |-> CASE f = "AMT" -> AMT_ENABLED
                                        [] f = "PROV" -> POST
                                        [] OTHER -> 0]
  <2>2. CASE s = [fw |-> now, storage |-> now, missed |-> {}, announced |-> <<"configured">>]
    <3>1. now \in [Feature -> 0..2] /\ \A f \in Feature : now[f] \in State(f)
      BY DEF AMT_ENABLED, POST, State
    <3> QED BY <1>1, <2>2, <3>1
  <2> QED BY <2>1, <2>2 DEF InitStates
<1>3. 0 \in State("PROV") /\ 0 \in State("AMT") BY DEF State
<1>4. bounds \in [changes : 0..MaxChanges, lives : 0..MaxLives, links : 0..MaxLinks]
  BY StatusConstants DEF Init
<1>5. /\ pull \in Pulls
      /\ wire \in Seq(Sent) /\ managerQueue \in Seq(Sent) /\ queue \in Seq(Sent)
      /\ pfwTasks \in Seq({"STARTED", "STOPPED"})
  BY DEF Init, Pulls
<1>6. m_prevProvState \in State("PROV") /\ amt \in State("AMT")
  BY <1>3 DEF Init, AMT_NOT_PRESENT, PRE
<1>7. /\ m_firstPullForEvents \in BOOLEAN /\ handlers \in BOOLEAN
      /\ life \in {"absent", "up", "half", "suspended"}
      /\ link \in {"down", "connected", "announced"}
      /\ needBroadcast \in BOOLEAN /\ isPortForwardingStarted \in BOOLEAN
  BY DEF Init
<1> QED BY <1>2, <1>4, <1>5, <1>6, <1>7 DEF DataInv

(* A state that is saved, or one that is answered, is one of the feature's. *)
LEMMA SavedType ==
    ASSUME DataInv, NEW f \in Feature, NEW v \in State(f) \cup {None}
    PROVE  /\ [storage EXCEPT ![f] = v] \in [Feature -> 0..2 \cup {None}]
           /\ \A g \in Feature : [storage EXCEPT ![f] = v][g] \in State(g) \cup {None}
BY DEF DataInv, State

LEMMA AnswerType ==
    ASSUME DataInv, NEW f \in Feature, NEW v \in Answers(f)
    PROVE  v = None \/ (v = fw[f] /\ v \in State(f) /\ v # None)
BY StatusConstants DEF DataInv, Answers, State

LEMMA CheckType ==
    ASSUME DataInv, NEW f \in Feature, NEW v \in State(f), CheckForStatusChange(f, v)
    PROVE  /\ storage' \in [Feature -> 0..2 \cup {None}]
           /\ \A g \in Feature : storage'[g] \in State(g) \cup {None}
           /\ managerQueue' \in Seq(Sent)
BY AlertMessage, SavedType, Appended DEF DataInv, CheckForStatusChange

LEMMA BoundsGrow ==
    ASSUME NEW b \in [changes : 0..MaxChanges, lives : 0..MaxLives, links : 0..MaxLinks]
    PROVE  LET B == [changes : 0..MaxChanges, lives : 0..MaxLives, links : 0..MaxLinks]
           IN  /\ b.changes < MaxChanges => [b EXCEPT !.changes = @ + 1] \in B
               /\ b.lives < MaxLives => [b EXCEPT !.lives = @ + 1] \in B
               /\ b.links < MaxLinks => [b EXCEPT !.links = @ + 1] \in B
BY StatusConstants

LEMMA DataStep == DataInv /\ [Next]_vars => DataInv'
<1> SUFFICES ASSUME DataInv, [Next]_vars PROVE DataInv'
  OBVIOUS
<1> USE DEF DataInv, forwarding
<1>1. CASE ManagerStep
  <2>1. Head(managerQueue) \in Sent /\ Tail(managerQueue) \in Seq(Sent) BY <1>1, Taken DEF ManagerStep
  <2>2. Append(queue, Head(managerQueue)) \in Seq(Sent) BY <2>1, Appended
  <2>3. Told(<<Head(managerQueue)>>) \subseteq Feature
    BY <2>1, ToldOfOne, SentMessages DEF IsAlert
  <2> QED BY <1>1, <2>1, <2>2, <2>3 DEF ManagerStep
<1>2. CASE HandlerStep
  <2>1. Head(queue) \in Sent /\ Tail(queue) \in Seq(Sent) BY <1>2, Taken DEF HandlerStep
  <2>2. CASE BeginPull
    <3>1. m_prevProvState' \in State("PROV")
      BY <2>2, AnswerType DEF BeginPull, FirstPullForEvents, Feature, PRE, State
    <3>2. pull' \in Pulls BY <2>2 DEF BeginPull, Pulls, PullsForEvents, PullsForPfw
    <3>3. amt' \in State("AMT") BY <2>2 DEF BeginPull, AMT_NOT_PRESENT, State
    <3> QED BY <1>2, <2>1, <2>2, <3>1, <3>2, <3>3
            DEF HandlerStep, BeginPull, FirstPullForEvents
  <2>3. CASE HandleAlert
    <3> DEFINE m == Head(queue)
    <3>1. m.f \in Feature /\ m.v \in State(m.f) BY <2>1, <2>3, SentMessages DEF HandleAlert
    <3>2. Saved(m.f, m.v) \in State(m.f) BY <3>1 DEF Saved, State, AMT_DISABLED
    <3>3. Announcement(m.v) \in Seq({"configured", "unconfigured"})
      <4>1. /\ <<"configured">> \in Seq({"configured", "unconfigured"})
            /\ <<"unconfigured">> \in Seq({"configured", "unconfigured"})
            /\ <<>> \in Seq({"configured", "unconfigured"})
        OBVIOUS
      <4> QED BY <4>1 DEF Announcement
    <3>4. announced \o Announcement(m.v) \in Seq({"configured", "unconfigured"})
      BY <3>3, ConcatProperties
    <3>5. /\ storage' \in [Feature -> 0..2 \cup {None}]
          /\ \A g \in Feature : storage'[g] \in State(g) \cup {None}
      <4>1. \/ storage' = storage
            \/ storage' = [storage EXCEPT ![m.f] = fw[m.f]]
            \/ storage' = [storage EXCEPT ![m.f] = m.v]
            \/ storage' = [storage EXCEPT ![m.f] = Saved(m.f, m.v)]
        <5> HIDE DEF DataInv
        <5>1. CASE m.f = "SYSDEF"
          <6>1. storage' = storage \/ storage' = [storage EXCEPT !["SYSDEF"] = fw["SYSDEF"]]
            BY <2>3, <5>1 DEF HandleAlert
          <6> QED BY <5>1, <6>1
        <5>2. CASE m.f = "PROV"
          <6>1. storage' = [storage EXCEPT !["PROV"] = m.v]
            BY <2>3, <5>2 DEF HandleAlert
          <6> QED BY <5>2, <6>1
        <5>3. CASE m.f \notin {"SYSDEF", "PROV"} BY <2>3, <5>3 DEF HandleAlert
        <5> QED BY <5>1, <5>2, <5>3
      <4>2. fw[m.f] \in State(m.f) BY <3>1
      <4>3. /\ storage \in [Feature -> 0..2 \cup {None}]
            /\ \A g \in Feature : storage[g] \in State(g) \cup {None}
        OBVIOUS
      <4> HIDE DEF DataInv, m
      <4>4. \A v \in State(m.f) :
               /\ [storage EXCEPT ![m.f] = v] \in [Feature -> 0..2 \cup {None}]
               /\ \A g \in Feature : [storage EXCEPT ![m.f] = v][g] \in State(g) \cup {None}
        BY <3>1, SavedType
      <4> QED BY <3>1, <3>2, <4>1, <4>2, <4>3, <4>4
    <3> QED BY <1>2, <2>1, <2>3, <3>1, <3>4, <3>5 DEF HandlerStep, HandleAlert, Feature
  <2> QED BY <1>2, <2>2, <2>3 DEF HandlerStep
<1>3. CASE PullStep
  <2>1. Head(pull) \in Feature /\ Tail(pull) \in Pulls BY <1>3, PullTail DEF PullStep
  <2>2. CASE PullAmt
    <3>1. "AMT" \in Feature BY DEF Feature
    <3>2. amt' \in State("AMT") BY <2>2, <3>1, AnswerType DEF PullAmt
    <3>3. \/ UNCHANGED <<storage, managerQueue>>
          \/ \E v \in State("AMT") : CheckForStatusChange("AMT", v)
      BY <2>2, <3>1, AnswerType DEF PullAmt
    <3>4. /\ storage' \in [Feature -> 0..2 \cup {None}]
          /\ \A g \in Feature : storage'[g] \in State(g) \cup {None}
          /\ managerQueue' \in Seq(Sent)
      BY <3>1, <3>3, CheckType
    <3>5. pull' \in Pulls /\ missed' \subseteq Feature
      BY <2>1, <2>2 DEF PullAmt, Pulls
    <3> QED BY <1>3, <3>2, <3>4, <3>5 DEF PullStep
  <2>3. CASE PullFeature
    <3>1. 0 \in State(Head(pull)) BY DEF State
    <3> QED BY <1>3, <2>1, <2>3, <3>1, AnswerType, CheckType DEF PullStep, PullFeature
  <2> QED BY <1>3, <2>2, <2>3 DEF PullStep
<1>4. ASSUME NEW f \in Features, NEW v \in State(f), FirmwareChange(f, v) PROVE DataInv'
  <2>1. f \in Feature BY StatusConstants
  <2>2. Append(wire, Alert(f, v)) \in Seq(Sent) BY <2>1, AlertMessage, Appended
  <2>3. /\ fw' \in [Feature -> 0..2]
        /\ \A g \in Feature : fw'[g] \in State(g)
    BY <1>4, <2>1 DEF FirmwareChange, State
  <2>4. bounds' \in [changes : 0..MaxChanges, lives : 0..MaxLives, links : 0..MaxLinks]
    BY <1>4, BoundsGrow DEF FirmwareChange
  <2> QED BY <1>4, <2>1, <2>2, <2>3, <2>4 DEF FirmwareChange
<1>5. CASE AlertArrives
  <2>1. Head(wire) \in Sent /\ Tail(wire) \in Seq(Sent) BY <1>5, Taken DEF AlertArrives
  <2>2. Append(managerQueue, Head(wire)) \in Seq(Sent) BY <2>1, Appended
  <2> QED BY <1>5, <2>1, <2>2 DEF AlertArrives
<1>6. CASE Connect BY <1>6, BoundsGrow DEF Connect
<1>7. CASE Disconnect
  <2>1. Told(wire) \subseteq Feature BY ToldFeatures
  <2> QED BY <1>7, <2>1 DEF Disconnect
<1>8. CASE PfwStarted
  <2>1. Append(managerQueue, Message("PFW_AVAILABLE")) \in Seq(Sent)
    BY OtherMessage, Appended
  <2>2. Tail(pfwTasks) \in Seq({"STARTED", "STOPPED"})
    BY <1>8, HeadTailProperties DEF PfwStarted
  <2> QED BY <1>8, <2>1, <2>2 DEF PfwStarted
<1>9. CASE Start
  BY <1>9, OtherMessage DEF Start
<1>10. CASE End
  <2>1. (wire \o managerQueue) \o queue \in Seq(Sent) BY NoAlertOfThree
  <2>2. Told((wire \o managerQueue) \o queue) \subseteq Feature
    BY <2>1, ToldFeatures
  <2>3. bounds' \in [changes : 0..MaxChanges, lives : 0..MaxLives, links : 0..MaxLinks]
    BY <1>10, BoundsGrow DEF End
  <2>4. 0 \in State("PROV") /\ 0 \in State("AMT") BY DEF State
  <2>5. <<>> \in Pulls /\ <<>> \in Seq(Sent) BY DEF Pulls
  <2>6. pfwTasks' \in Seq({"STARTED", "STOPPED"}) BY <1>10 DEF End
  <2> QED BY <1>10, <2>2, <2>3, <2>4, <2>5, <2>6 DEF End, PRE, AMT_NOT_PRESENT
<1>11. CASE Suspend BY <1>11, BoundsGrow DEF Suspend
<1>12. CASE SuspendManager BY <1>12 DEF SuspendManager
<1>13. CASE Resume
  <2>1. Append(queue, Message("SRVICE_UP")) \in Seq(Sent) BY OtherMessage, Appended
  <2> QED BY <1>13, <2>1 DEF Resume
<1>14. CASE BroadcastActive \/ BroadcastFailure
  <2>1. \A t \in {"STARTED", "STOPPED"} :
           Append(pfwTasks, t) \in Seq({"STARTED", "STOPPED"})
    BY AppendProperties
  <2> QED BY <1>14, <2>1 DEF BroadcastActive, BroadcastFailure
<1>15. CASE PfwStopped
  <2>1. Tail(pfwTasks) \in Seq({"STARTED", "STOPPED"})
    BY <1>15, HeadTailProperties DEF PfwStopped
  <2> QED BY <1>15, <2>1 DEF PfwStopped
<1>16. CASE UNCHANGED vars BY <1>16 DEF vars
<1> QED BY <1>1, <1>2, <1>3, <1>4, <1>5, <1>6, <1>7, <1>8, <1>9, <1>10, <1>11, <1>12,
           <1>13, <1>14, <1>15, <1>16 DEF Next

LEMMA DataAlways == Spec => []DataInv
BY DataInit, DataStep, PTL DEF Spec

(* Every variable keeps its domain: the registry only ever holds states of *)
(* the feature they are saved for, and every alert carries one.            *)
THEOREM TypeCorrect == Spec => []TypeOK
BY DataAlways, DataImplies, PTL

-----------------------------------------------------------------------------
(* Announcements in turn *)

LEMMA AnnounceInit == Init => AnnounceInv
<1> HAVE Init
<1>1. PICK s \in InitStates : storage = s.storage /\ announced = s.announced
  BY DEF Init
<1>2. announced = <<>> \/ (announced = <<"configured">> /\ storage["PROV"] = POST)
  <2> DEFINE now == [f \in Feature |-> CASE f = "AMT" -> AMT_ENABLED
                                        [] f = "PROV" -> POST
                                        [] OTHER -> 0]
  <2>1. now["PROV"] = POST BY DEF Feature
  <2>2. s.announced = <<>> \/ (s.announced = <<"configured">> /\ s.storage = now)
    BY DEF InitStates
  <2> HIDE DEF now
  <2> QED BY <1>1, <2>1, <2>2
<1>3. Len(announced) \in {0, 1} BY <1>2
<1>4. LifeInv /\ FirstIsUp BY DEF Init, LifeInv, FirstIsUp
<1>5. AnnouncedIsSaved BY <1>2, StatusConstants DEF Init, AnnouncedIsSaved, POST
<1>6. ConfiguredAlternates BY <1>3 DEF ConfiguredAlternates
<1> QED BY <1>4, <1>5, <1>6 DEF AnnounceInv

LEMMA LifeStep == LifeInv /\ [Next]_vars => LifeInv'
<1> SUFFICES ASSUME LifeInv, [Next]_vars PROVE LifeInv'
  OBVIOUS
<1> USE DEF LifeInv, forwarding
<1>1. CASE ManagerStep BY <1>1 DEF ManagerStep
<1>2. CASE HandlerStep BY <1>2 DEF HandlerStep
<1>3. CASE PullStep BY <1>3 DEF PullStep
<1>4. ASSUME NEW f \in Features, NEW v \in State(f), FirmwareChange(f, v) PROVE LifeInv'
  BY <1>4 DEF FirmwareChange
<1>5. CASE AlertArrives BY <1>5 DEF AlertArrives
<1>6. CASE Connect BY <1>6 DEF Connect
<1>7. CASE Disconnect BY <1>7 DEF Disconnect
<1>8. CASE PfwStarted BY <1>8 DEF PfwStarted
<1>9. CASE Start BY <1>9 DEF Start
<1>10. CASE End BY <1>10 DEF End
<1>11. CASE Suspend BY <1>11 DEF Suspend
<1>12. CASE SuspendManager BY <1>12 DEF SuspendManager
<1>13. CASE Resume BY <1>13 DEF Resume
<1>14. CASE BroadcastActive BY <1>14 DEF BroadcastActive
<1>15. CASE BroadcastFailure BY <1>15 DEF BroadcastFailure
<1>16. CASE PfwStopped BY <1>16 DEF PfwStopped
<1>17. CASE UNCHANGED vars BY <1>17 DEF vars
<1> QED BY <1>1, <1>2, <1>3, <1>4, <1>5, <1>6, <1>7, <1>8, <1>9, <1>10, <1>11, <1>12,
           <1>13, <1>14, <1>15, <1>16, <1>17 DEF Next

(* The handler's queue begins with SRVICE_UP until it has been handled.    *)
LEMMA FirstUpStep == DataInv /\ LifeInv /\ FirstIsUp /\ [Next]_vars => FirstIsUp'
<1> SUFFICES ASSUME DataInv, LifeInv, FirstIsUp, [Next]_vars PROVE FirstIsUp'
  OBVIOUS
<1>1. CASE ManagerStep
  <2>1. Head(managerQueue) \in Sent BY <1>1, Taken DEF ManagerStep, DataInv
  <2>2. queue' = queue \/ queue' = Append(queue, Head(managerQueue))
    BY <1>1 DEF ManagerStep
  <2>3. queue # <<>> => queue' # <<>> /\ Head(queue') = Head(queue)
    BY <2>1, <2>2, Appended DEF DataInv
  <2> QED BY <1>1, <2>3 DEF ManagerStep, FirstIsUp
<1>2. CASE HandlerStep
  <2>1. Head(queue) \in Sent BY <1>2, Taken DEF HandlerStep, DataInv
  <2>2. CASE BeginPull
    BY <1>2, <2>2 DEF HandlerStep, BeginPull, FirstPullForEvents, FirstIsUp
  <2>3. CASE HandleAlert
    BY <1>2, <2>3 DEF HandlerStep, HandleAlert, FirstIsUp
  <2> QED BY <1>2, <2>2, <2>3 DEF HandlerStep
<1>3. CASE PullStep BY <1>3 DEF PullStep, FirstIsUp
<1>4. ASSUME NEW f \in Features, NEW v \in State(f), FirmwareChange(f, v)
      PROVE  FirstIsUp'
  BY <1>4 DEF FirmwareChange, FirstIsUp
<1>5. CASE AlertArrives BY <1>5 DEF AlertArrives, FirstIsUp
<1>6. CASE Connect BY <1>6 DEF Connect, FirstIsUp
<1>7. CASE Disconnect BY <1>7 DEF Disconnect, FirstIsUp
<1>8. CASE PfwStarted BY <1>8 DEF PfwStarted, FirstIsUp
<1>9. CASE Start BY <1>9, OtherMessage DEF Start, FirstIsUp
<1>10. CASE End BY <1>10 DEF End, FirstIsUp
<1>11. CASE Suspend BY <1>11 DEF Suspend, FirstIsUp
<1>12. CASE SuspendManager BY <1>12 DEF SuspendManager, FirstIsUp
<1>13. CASE Resume
  BY <1>13, OtherMessage, Appended DEF Resume, FirstIsUp, DataInv
<1>14. CASE BroadcastActive \/ BroadcastFailure \/ PfwStopped
  BY <1>14 DEF BroadcastActive, BroadcastFailure, PfwStopped, FirstIsUp
<1>15. CASE UNCHANGED vars BY <1>15 DEF vars, FirstIsUp
<1> QED BY <1>1, <1>2, <1>3, <1>4, <1>5, <1>6, <1>7, <1>8, <1>9, <1>10, <1>11, <1>12,
           <1>13, <1>14, <1>15 DEF Next

(* What is announced differs from what was announced last.                 *)
LEMMA AlternatesOneMore ==
    ASSUME NEW S, NEW a \in Seq(S), NEW x \in S,
           \A i \in 1..(Len(a) - 1) : a[i] # a[i + 1],
           a # <<>> => x # a[Len(a)]
    PROVE  /\ \A i \in 1..(Len(a \o <<x>>) - 1) : (a \o <<x>>)[i] # (a \o <<x>>)[i + 1]
           /\ a \o <<x>> # <<>>
           /\ (a \o <<x>>)[Len(a \o <<x>>)] = x
<1>0. <<x>> \in Seq(S) OBVIOUS
<1>1. PICK b \in Seq(S) : b = a \o <<x>> BY <1>0, ConcatProperties
<1>2. /\ Len(a) \in Nat /\ Len(b) = Len(a) + 1 /\ b[Len(a) + 1] = x
      /\ \A i \in 1..Len(a) : b[i] = a[i]
  BY <1>1
<1>3. ASSUME NEW i \in 1..(Len(b) - 1) PROVE b[i] # b[i + 1]
  <2>1. CASE i = Len(a)
    <3>1. a # <<>> BY <1>2, <2>1
    <3> QED BY <1>2, <2>1, <3>1
  <2>2. CASE i # Len(a)
    <3>1. i \in 1..(Len(a) - 1) /\ i \in 1..Len(a) /\ (i + 1) \in 1..Len(a) BY <1>2, <2>2
    <3> QED BY <1>2, <3>1
  <2> QED BY <2>1, <2>2
<1>4. b # <<>> /\ b[Len(b)] = x BY <1>2
<1> QED BY <1>1, <1>3, <1>4

LEMMA AnnounceStep == DataInv /\ AnnounceInv /\ [Next]_vars => AnnounceInv'
<1> SUFFICES ASSUME DataInv, AnnounceInv, [Next]_vars PROVE AnnounceInv'
  OBVIOUS
<1>1. LifeInv' /\ FirstIsUp' BY LifeStep, FirstUpStep DEF AnnounceInv
<1> SUFFICES (AnnouncedIsSaved /\ ConfiguredAlternates)'
  BY <1>1 DEF AnnounceInv
<1> DEFINE Silent == UNCHANGED <<announced, storage, m_prevProvState, m_firstPullForEvents>>
<1>2. ASSUME Silent PROVE (AnnouncedIsSaved /\ ConfiguredAlternates)'
  BY <1>2 DEF AnnounceInv, AnnouncedIsSaved, ConfiguredAlternates
<1> HIDE DEF Silent
<1>3. CASE HandlerStep
  <2>0. announced \in Seq({"configured", "unconfigured"}) BY DEF DataInv
  <2>1. Head(queue) \in Sent BY <1>3, Taken DEF HandlerStep, DataInv
  <2>2. CASE BeginPull
    <3>1. announced # <<>> => m_prevProvState' = storage["PROV"]
      BY <2>2 DEF BeginPull, FirstPullForEvents, AnnounceInv, AnnouncedIsSaved, DataInv
    <3> QED BY <2>2, <3>1 DEF BeginPull, AnnounceInv, AnnouncedIsSaved, ConfiguredAlternates
  <2>3. CASE HandleAlert
    <3>1. PICK m \in Sent : m = Head(queue) BY <2>1
    <3>2. m.type = "PUBLISH_EVENT" /\ m.f \in Feature /\ m.v \in State(m.f)
      BY <2>3, <3>1, SentMessages DEF HandleAlert
    <3>3. ~m_firstPullForEvents
      BY <1>3, <3>1, <3>2 DEF HandlerStep, AnnounceInv, FirstIsUp
    <3>4. CASE m.f # "PROV"
      <4>1. UNCHANGED <<announced, m_prevProvState, m_firstPullForEvents>>
        BY <2>3, <3>1, <3>4 DEF HandleAlert
      <4>2. storage'["PROV"] = storage["PROV"]
        BY <2>3, <3>1, <3>2, <3>4 DEF HandleAlert, DataInv, Feature
      <4> QED BY <4>1, <4>2 DEF AnnounceInv, AnnouncedIsSaved, ConfiguredAlternates
    <3>5. CASE m.f = "PROV"
      <4>1. /\ m_prevProvState' = m.v /\ storage'["PROV"] = m.v
            /\ announced' = announced \o Announcement(m.v)
            /\ m.v # None
        BY <2>3, <3>1, <3>2, <3>5, States DEF HandleAlert, DataInv, Feature
      <4>2. CASE m.v = POST /\ m_prevProvState # POST
        <5>1. announced' = announced \o <<"configured">>
          BY <4>1, <4>2 DEF Announcement
        <5>2. announced # <<>> => announced[Len(announced)] # "configured"
          BY <3>3, <4>2 DEF AnnounceInv, AnnouncedIsSaved
        <5>3. /\ ConfiguredAlternates' /\ announced' # <<>>
              /\ announced'[Len(announced')] = "configured"
          BY <2>0, <5>1, <5>2, AlternatesOneMore DEF AnnounceInv, ConfiguredAlternates
        <5> QED BY <4>1, <4>2, <5>3 DEF AnnouncedIsSaved
      <4>3. CASE m.v # POST /\ m_prevProvState = POST
        <5>1. announced' = announced \o <<"unconfigured">>
          BY <4>1, <4>3 DEF Announcement
        <5>2. announced # <<>> => announced[Len(announced)] # "unconfigured"
          BY <3>3, <4>3 DEF AnnounceInv, AnnouncedIsSaved
        <5>3. /\ ConfiguredAlternates' /\ announced' # <<>>
              /\ announced'[Len(announced')] = "unconfigured"
          BY <2>0, <5>1, <5>2, AlternatesOneMore DEF AnnounceInv, ConfiguredAlternates
        <5> QED BY <4>1, <4>3, <5>3 DEF AnnouncedIsSaved
      <4>4. CASE (m.v = POST) = (m_prevProvState = POST)
        <5>1. Announcement(m.v) = <<>> BY <4>4 DEF Announcement
        <5>2. announced' = announced BY <4>1, <5>1, ConcatEmptySeq DEF DataInv
        <5> QED BY <3>3, <4>1, <4>4, <5>2
                DEF AnnounceInv, AnnouncedIsSaved, ConfiguredAlternates
      <4> QED BY <4>2, <4>3, <4>4
    <3> QED BY <3>4, <3>5
  <2> QED BY <1>3, <2>2, <2>3 DEF HandlerStep
<1>4. CASE PullStep
  <2>1. UNCHANGED <<announced, m_prevProvState, m_firstPullForEvents>>
    BY <1>4 DEF PullStep
  <2>2. storage["PROV"] # None => storage'["PROV"] = storage["PROV"]
    BY <1>4 DEF PullStep, PullAmt, PullFeature, CheckForStatusChange, DataInv, Feature
  <2> QED BY <2>1, <2>2 DEF AnnounceInv, AnnouncedIsSaved, ConfiguredAlternates
<1>5. CASE End
  BY <1>5 DEF End, AnnounceInv, AnnouncedIsSaved, ConfiguredAlternates
<1>6. ASSUME NEW f \in Features, NEW v \in State(f), FirmwareChange(f, v) PROVE Silent
  BY <1>6 DEF FirmwareChange, Silent
<1>7. CASE ManagerStep \/ AlertArrives \/ Connect \/ Disconnect \/ PfwStarted
  BY <1>2, <1>7 DEF ManagerStep, AlertArrives, Connect, Disconnect, PfwStarted, Silent
<1>8. CASE Start \/ Suspend \/ SuspendManager \/ Resume \/ UNCHANGED vars
  BY <1>2, <1>8 DEF Start, Suspend, SuspendManager, Resume, vars, Silent
<1>9. CASE BroadcastActive \/ BroadcastFailure \/ PfwStopped
  BY <1>2, <1>9 DEF BroadcastActive, BroadcastFailure, PfwStopped, Silent
<1> QED BY <1>2, <1>3, <1>4, <1>5, <1>6, <1>7, <1>8, <1>9 DEF Next

LEMMA AnnounceAlways == Spec => []AnnounceInv
BY DataAlways, AnnounceInit, AnnounceStep, PTL DEF Spec

(* "configured" and "unconfigured" are announced in turn, however often a  *)
(* change is told (by the firmware, by pulls and by the echo of a pull) and *)
(* however often the process ends: handleProvisioningEvents compares with  *)
(* what the registry had when the first message of the life was handled.   *)
THEOREM AnnouncedInTurn == Spec => []ConfiguredAlternates
<1>1. AnnounceInv => ConfiguredAlternates BY DEF AnnounceInv
<1> QED BY <1>1, AnnounceAlways, PTL

-----------------------------------------------------------------------------
(* The registry agrees with the firmware: AMT that is absent *)

LEMMA OneMessage ==
    ASSUME NEW m \in Sent, NEW f, NEW M
    PROVE  /\ NoAlert(<<m>>, f) <=> ~IsAlert(m, f)
           /\ Without(<<m>>, M) <=> m \notin M
           /\ Tail(<<m>>) = <<>>
BY DEF NoAlert, Without

(* What CheckForStatusChange does to the queue and the registry.           *)
LEMMA CheckEffect ==
    ASSUME DataInv, NEW f \in Feature, NEW v \in State(f), CheckForStatusChange(f, v)
    PROVE  /\ \/ storage[f] \in {None, v} /\ managerQueue' = managerQueue
              \/ /\ storage[f] \notin {None, v}
                 /\ managerQueue' = Append(managerQueue, Alert(f, v))
           /\ storage'[f] = IF storage[f] = None THEN v ELSE storage[f]
           /\ \A g \in Feature \ {f} : storage'[g] = storage[g]
BY DEF DataInv, CheckForStatusChange

(* A pull asks for one feature: what it hears is the present state, also   *)
(* when it goes by the AMT state it asked for at first.                    *)
LEMMA PullEffect ==
    ASSUME DataInv, AbsentIsStill, PullRemembers, PullStep
    PROVE  \E f \in Feature :
              /\ f = Head(pull)
              /\ \/ /\ CheckForStatusChange(f, fw[f])
                    /\ missed' = missed \ ({f} \ Waiting)
                 \/ UNCHANGED <<storage, managerQueue, missed>>
<1>1. PICK f \in Feature : f = Head(pull) BY PullTail DEF PullStep, DataInv
<1>2. CASE PullAmt BY <1>1, <1>2, AnswerType DEF PullAmt
<1>3. CASE PullFeature
  <2>1. CASE amt # AMT_NOT_PRESENT BY <1>1, <1>3, <2>1, AnswerType DEF PullFeature
  <2>2. CASE amt = AMT_NOT_PRESENT
    <3>1. fw[f] = 0
      BY <1>1, <1>3, <2>2 DEF PullStep, PullFeature, PullRemembers, AbsentIsStill, Absent
    <3> QED BY <1>1, <1>3, <2>2, <3>1 DEF PullFeature
  <2> QED BY <2>1, <2>2
<1> QED BY <1>2, <1>3, <1>1 DEF PullStep

LEMMA AbsentInit == Init => AbsentIsStill /\ PullRemembers
<1> HAVE Init
<1>1. PICK s \in InitStates : fw = s.fw /\ storage = s.storage BY DEF Init
<1>2. fw["AMT"] = AMT_NOT_PRESENT => \A f \in Feature : fw[f] = 0 /\ storage[f] = None
  <2>1. CASE \E a \in {AMT_NOT_PRESENT, AMT_DISABLED} :
                s = [fw |-> [f \in Feature |-> IF f = "AMT" THEN a ELSE 0],
                     storage |-> [f \in Feature |-> None],
                     missed |-> Feature, announced |-> <<>>]
    BY <1>1, <2>1 DEF Feature, AMT_NOT_PRESENT, AMT_DISABLED
  <2> DEFINE now == [f \in Feature |-> CASE f = "AMT" -> AMT_ENABLED
                                        [] f = "PROV" -> POST
                                        [] OTHER -> 0]
  <2>2. CASE s = [fw |-> now, storage |-> now, missed |-> {}, announced |-> <<"configured">>]
    <3>1. now["AMT"] # AMT_NOT_PRESENT BY DEF Feature, AMT_ENABLED, AMT_NOT_PRESENT
    <3> HIDE DEF now
    <3> QED BY <1>1, <2>2, <3>1
  <2> QED BY <2>1, <2>2 DEF InitStates
<1> QED BY <1>2 DEF Init, AbsentIsStill, AllPlausible, Absent, PullRemembers

LEMMA PullRemembersStep ==
    ASSUME DataInv, PullRemembers, [Next]_vars
    PROVE  PullRemembers'
<1>1. CASE HandlerStep
  <2>1. CASE BeginPull
    BY <2>1 DEF BeginPull, PullRemembers, GenerateEvents, GeneratePortFwrdRelatedEvents
  <2>2. CASE HandleAlert
    BY <1>1, <2>2 DEF HandlerStep, HandleAlert, PullRemembers
  <2> QED BY <1>1, <2>1, <2>2 DEF HandlerStep
<1>2. CASE PullStep
  <2>1. Tail(pull) # <<>> => Head(Tail(pull)) # "AMT"
    BY <1>2, PullTail DEF PullStep, DataInv
  <2>2. CASE PullAmt
    BY <1>2, <2>1, <2>2, AnswerType DEF PullStep, PullAmt, PullRemembers, Feature
  <2>3. CASE PullFeature
    BY <1>2, <2>1, <2>3 DEF PullStep, PullFeature, PullRemembers
  <2> QED BY <1>2, <2>2, <2>3 DEF PullStep
<1>3. ASSUME NEW f \in Features, NEW v \in State(f), FirmwareChange(f, v)
      PROVE  PullRemembers'
  BY <1>3 DEF FirmwareChange, PullRemembers, DataInv
<1>4. CASE End BY <1>4 DEF End, PullRemembers
<1>5. CASE ManagerStep \/ AlertArrives \/ Connect \/ Disconnect \/ PfwStarted
  BY <1>5 DEF ManagerStep, AlertArrives, Connect, Disconnect, PfwStarted, PullRemembers
<1>6. CASE Start \/ Suspend \/ SuspendManager \/ Resume \/ UNCHANGED vars
  BY <1>6 DEF Start, Suspend, SuspendManager, Resume, vars, PullRemembers
<1>7. CASE BroadcastActive \/ BroadcastFailure \/ PfwStopped
  BY <1>7 DEF BroadcastActive, BroadcastFailure, PfwStopped, PullRemembers
<1> QED BY <1>1, <1>2, <1>3, <1>4, <1>5, <1>6, <1>7 DEF Next

LEMMA PlausibleQueue ==
    ASSUME NEW q \in Seq(Sent), NEW m \in Sent, NEW absent, AllPlausible(q, absent)
    PROVE  /\ Plausible(m, absent) => AllPlausible(Append(q, m), absent)
           /\ q # <<>> => Plausible(Head(q), absent) /\ AllPlausible(Tail(q), absent)
           /\ absent => \A f : NoAlert(q, f)
           /\ Plausible(m, absent) => AllPlausible(<<m>>, absent)
           /\ AllPlausible(<<>>, absent)
<1>1. ASSUME Plausible(m, absent) PROVE AllPlausible(Append(q, m), absent)
  <2>1. PICK r \in Seq(Sent) : r = Append(q, m) BY AppendProperties
  <2>2. /\ Len(q) \in Nat /\ Len(r) = Len(q) + 1 /\ r[Len(q) + 1] = m
        /\ \A i \in 1..Len(q) : r[i] = q[i]
    BY <2>1, AppendProperties
  <2>3. 1..Len(r) = 1..Len(q) \cup {Len(q) + 1} BY <2>2
  <2> QED BY <1>1, <2>1, <2>2, <2>3 DEF AllPlausible
<1>2. ASSUME q # <<>> PROVE Plausible(Head(q), absent) /\ AllPlausible(Tail(q), absent)
  <2>1. PICK t \in Seq(Sent) : t = Tail(q) BY <1>2, HeadTailProperties
  <2>2. PICK n \in Nat : n = Len(q) OBVIOUS
  <2>3. n > 0 /\ Head(q) = q[1] /\ Len(t) = n - 1 /\ \A i \in 1..(n - 1) : t[i] = q[i + 1]
    BY <1>2, <2>1, <2>2
  <2>4. 1 \in 1..n /\ \A i \in 1..(n - 1) : (i + 1) \in 1..n BY <2>3
  <2> QED BY <2>1, <2>2, <2>3, <2>4 DEF AllPlausible
<1>3. absent => \A f : NoAlert(q, f) BY DEF AllPlausible, Plausible, NoAlert, IsAlert
<1>4. Plausible(m, absent) => AllPlausible(<<m>>, absent) BY DEF AllPlausible
<1>5. AllPlausible(<<>>, absent) BY DEF AllPlausible
<1> QED BY <1>1, <1>2, <1>3, <1>4, <1>5

LEMMA AbsentStep ==
    ASSUME DataInv, AbsentIsStill, PullRemembers, [Next]_vars
    PROVE  AbsentIsStill'
<1> DEFINE Known(a) == a => \A f \in Feature : fw[f] = 0 /\ storage[f] \in {None, 0}
<1>1. PICK a \in BOOLEAN : a = Absent BY DEF Absent
<1>2. /\ Known(a) /\ AllPlausible(wire, a) /\ AllPlausible(managerQueue, a)
      /\ AllPlausible(queue, a)
  BY <1>1 DEF AbsentIsStill
<1>3. Absent' = a
  <2>1. fw' = fw => Absent' = a BY <1>1 DEF Absent
  <2>2. ASSUME NEW f \in Features, NEW v \in State(f), FirmwareChange(f, v) PROVE Absent' = a
    BY <1>1, <2>2 DEF FirmwareChange, Absent, DataInv
  <2>3. CASE ManagerStep \/ HandlerStep \/ PullStep \/ AlertArrives \/ Connect
    BY <2>1, <2>3 DEF ManagerStep, HandlerStep, PullStep, AlertArrives, Connect
  <2>4. CASE Disconnect \/ PfwStarted \/ Start \/ End \/ Suspend
    BY <2>1, <2>4 DEF Disconnect, PfwStarted, Start, End, Suspend
  <2>5. CASE SuspendManager \/ Resume \/ UNCHANGED vars
    BY <2>1, <2>5 DEF SuspendManager, Resume, vars
  <2>6. CASE BroadcastActive \/ BroadcastFailure \/ PfwStopped
    BY <2>1, <2>6 DEF BroadcastActive, BroadcastFailure, PfwStopped
  <2> QED BY <2>2, <2>3, <2>4, <2>5, <2>6 DEF Next
<1> SUFFICES /\ Known(a)' /\ AllPlausible(wire, a)' /\ AllPlausible(managerQueue, a)'
             /\ AllPlausible(queue, a)'
  BY <1>3 DEF AbsentIsStill
<1> HIDE DEF Known
<1>4. UNCHANGED <<fw, storage>> => Known(a)' BY <1>2 DEF Known
<1>5. CASE ManagerStep
  <2>1. Head(managerQueue) \in Sent BY <1>5, Taken DEF ManagerStep, DataInv
  <2>2. Plausible(Head(managerQueue), a) /\ AllPlausible(Tail(managerQueue), a)
    BY <1>2, <1>5, <2>1, PlausibleQueue DEF ManagerStep, DataInv
  <2>3. AllPlausible(Append(queue, Head(managerQueue)), a)
    BY <1>2, <2>1, <2>2, PlausibleQueue DEF DataInv
  <2> QED BY <1>2, <1>4, <1>5, <2>2, <2>3 DEF ManagerStep
<1>6. CASE HandlerStep
  <2>1. Head(queue) \in Sent BY <1>6, Taken DEF HandlerStep, DataInv
  <2>2. Plausible(Head(queue), a) /\ AllPlausible(Tail(queue), a)
    BY <1>2, <1>6, <2>1, PlausibleQueue DEF HandlerStep, DataInv
  <2>3. Known(a)'
    <3>1. CASE BeginPull BY <1>4, <1>6, <3>1 DEF HandlerStep, BeginPull
    <3>2. CASE HandleAlert BY <2>2, <3>2 DEF HandleAlert, Plausible, Known
    <3> QED BY <1>6, <3>1, <3>2 DEF HandlerStep
  <2> QED BY <1>2, <1>6, <2>2, <2>3 DEF HandlerStep
<1>7. CASE PullStep
  <2>1. PICK f \in Feature : \/ CheckForStatusChange(f, fw[f])
                             \/ UNCHANGED <<storage, managerQueue>>
    BY <1>7, PullEffect
  <2>2. fw' = fw /\ wire' = wire /\ queue' = queue BY <1>7 DEF PullStep
  <2>3. CASE UNCHANGED <<storage, managerQueue>> BY <1>2, <1>4, <2>2, <2>3
  <2>4. CASE CheckForStatusChange(f, fw[f])
    <3>1. fw[f] \in State(f) BY DEF DataInv
    <3>2. Known(a)'
      BY <1>2, <2>2, <2>4, <3>1, CheckEffect DEF Known
    <3>3. CASE managerQueue' = managerQueue BY <1>2, <2>2, <3>2, <3>3
    <3>4. CASE /\ storage[f] \notin {None, fw[f]}
               /\ managerQueue' = Append(managerQueue, Alert(f, fw[f]))
      <4>1. ~a BY <1>2, <3>4 DEF Known
      <4>2. Alert(f, fw[f]) # Alert("AMT", AMT_NOT_PRESENT)
        <5>1. f = "AMT" => fw[f] # AMT_NOT_PRESENT BY <1>1, <4>1 DEF Absent
        <5> QED BY <5>1 DEF Alert
      <4>3. Plausible(Alert(f, fw[f]), a) /\ Alert(f, fw[f]) \in Sent
        BY <3>1, <4>1, <4>2, AlertMessage DEF Plausible
      <4>4. AllPlausible(managerQueue', a) BY <1>2, <3>4, <4>3, PlausibleQueue DEF DataInv
      <4> QED BY <1>2, <2>2, <3>2, <4>4
    <3> QED BY <2>4, <3>1, <3>3, <3>4, CheckEffect
  <2> QED BY <2>1, <2>3, <2>4
<1>8. ASSUME NEW f \in Features, NEW v \in State(f), FirmwareChange(f, v)
      PROVE  /\ Known(a)' /\ AllPlausible(wire, a)' /\ AllPlausible(managerQueue, a)'
             /\ AllPlausible(queue, a)'
  <2>1. f \in Feature BY StatusConstants
  <2>2. ~a BY <1>1, <1>8 DEF FirmwareChange, Absent
  <2>3. Alert(f, v) # Alert("AMT", AMT_NOT_PRESENT) BY <1>8 DEF FirmwareChange, Alert
  <2>4. Plausible(Alert(f, v), a) /\ Alert(f, v) \in Sent
    BY <2>1, <2>2, <2>3, AlertMessage DEF Plausible
  <2>5. AllPlausible(Append(wire, Alert(f, v)), a)
    BY <1>2, <2>4, PlausibleQueue DEF DataInv
  <2> QED BY <1>2, <1>8, <2>2, <2>5 DEF FirmwareChange, Known
<1>9. CASE AlertArrives
  <2>1. Head(wire) \in Sent BY <1>9, Taken DEF AlertArrives, DataInv
  <2>2. Plausible(Head(wire), a) /\ AllPlausible(Tail(wire), a)
    BY <1>2, <1>9, <2>1, PlausibleQueue DEF AlertArrives, DataInv
  <2>3. AllPlausible(Append(managerQueue, Head(wire)), a)
    BY <1>2, <2>1, <2>2, PlausibleQueue DEF DataInv
  <2> QED BY <1>2, <1>4, <1>9, <2>2, <2>3 DEF AlertArrives
<1>10. ASSUME NEW t \in {"SUBSCRIBE_EVENT", "SRVICE_UP", "PFW_AVAILABLE"}
       PROVE  /\ AllPlausible(Append(managerQueue, Message(t)), a)
              /\ AllPlausible(Append(queue, Message(t)), a)
              /\ AllPlausible(<<Message(t)>>, a) /\ AllPlausible(<<>>, a)
  BY <1>2, OtherMessage, PlausibleQueue DEF Plausible, DataInv
<1>11. CASE Connect \/ Suspend \/ SuspendManager \/ UNCHANGED vars
  BY <1>2, <1>4, <1>11 DEF Connect, Suspend, SuspendManager, vars
<1>12. CASE Disconnect \/ PfwStarted \/ Start \/ Resume
  BY <1>2, <1>4, <1>10, <1>12 DEF Disconnect, PfwStarted, Start, Resume
<1>13. CASE End BY <1>4, <1>10, <1>13 DEF End
<1>14. CASE BroadcastActive \/ BroadcastFailure \/ PfwStopped
  BY <1>2, <1>4, <1>14 DEF BroadcastActive, BroadcastFailure, PfwStopped
<1> QED BY <1>5, <1>6, <1>7, <1>8, <1>9, <1>11, <1>12, <1>13, <1>14 DEF Next

-----------------------------------------------------------------------------
(* The registry agrees with the firmware: what is under way *)

(* A message that goes on to the next queue changes nothing.               *)
LEMMA MessageMoves ==
    ASSUME NEW f \in Feature, NEW now, \A m \in now : IsAlert(m, f), NEW s \in BOOLEAN,
           NEW w \in Seq(Sent), NEW mq \in Seq(Sent), NEW q \in Seq(Sent),
           FreshIn(f, now, w, mq, q, s)
    PROVE  /\ w # <<>> => FreshIn(f, now, Tail(w), Append(mq, Head(w)), q, s)
           /\ mq # <<>> => FreshIn(f, now, w, Tail(mq), Append(q, Head(mq)), s)
<1>1. ASSUME w # <<>> PROVE FreshIn(f, now, Tail(w), Append(mq, Head(w)), q, s)
  <2>1. Head(w) \in Sent BY <1>1, Taken
  <2>2. /\ NoAlert(w, f) <=> ~IsAlert(Head(w), f) /\ NoAlert(Tail(w), f)
        /\ Latest(w, f, now) <=>
              Latest(Tail(w), f, now) \/ (Head(w) \in now /\ NoAlert(Tail(w), f))
    BY <1>1, Taken
  <2>3. PICK r : r = Append(mq, Head(w)) OBVIOUS
  <2>4. /\ NoAlert(r, f) <=> NoAlert(mq, f) /\ ~IsAlert(Head(w), f)
        /\ Head(w) \in now => Latest(r, f, now)
        /\ Latest(mq, f, now) /\ ~IsAlert(Head(w), f) => Latest(r, f, now)
    BY <2>1, <2>3, Appended
  <2> QED BY <2>2, <2>3, <2>4 DEF FreshIn
<1>2. ASSUME mq # <<>> PROVE FreshIn(f, now, w, Tail(mq), Append(q, Head(mq)), s)
  <2>1. Head(mq) \in Sent BY <1>2, Taken
  <2>2. /\ NoAlert(mq, f) <=> ~IsAlert(Head(mq), f) /\ NoAlert(Tail(mq), f)
        /\ Latest(mq, f, now) <=>
              Latest(Tail(mq), f, now) \/ (Head(mq) \in now /\ NoAlert(Tail(mq), f))
    BY <1>2, Taken
  <2>3. PICK r : r = Append(q, Head(mq)) OBVIOUS
  <2>4. /\ NoAlert(r, f) <=> NoAlert(q, f) /\ ~IsAlert(Head(mq), f)
        /\ Head(mq) \in now => Latest(r, f, now)
        /\ Latest(q, f, now) /\ ~IsAlert(Head(mq), f) => Latest(r, f, now)
    BY <2>1, <2>3, Appended
  <2> QED BY <2>2, <2>3, <2>4 DEF FreshIn
<1> QED BY <1>1, <1>2

(* Nor does a message that is no alert of f, wherever it comes or goes.    *)
LEMMA OthersPass ==
    ASSUME NEW f \in Feature, NEW now, \A m \in now : IsAlert(m, f), NEW s \in BOOLEAN,
           NEW w \in Seq(Sent), NEW mq \in Seq(Sent), NEW q \in Seq(Sent),
           FreshIn(f, now, w, mq, q, s)
    PROVE  /\ \A m \in Sent : ~IsAlert(m, f) =>
                 /\ FreshIn(f, now, Append(w, m), mq, q, s)
                 /\ FreshIn(f, now, w, Append(mq, m), q, s)
                 /\ FreshIn(f, now, w, mq, Append(q, m), s)
           /\ mq # <<>> /\ ~IsAlert(Head(mq), f) => FreshIn(f, now, w, Tail(mq), q, s)
           /\ q # <<>> /\ ~IsAlert(Head(q), f) => FreshIn(f, now, w, mq, Tail(q), s)
           /\ NoAlert(w, f) => FreshIn(f, now, <<>>, mq, q, s)
<1>1. ASSUME NEW m \in Sent, ~IsAlert(m, f), NEW x \in Seq(Sent)
      PROVE  /\ NoAlert(Append(x, m), f) <=> NoAlert(x, f)
             /\ Latest(x, f, now) => Latest(Append(x, m), f, now)
  BY <1>1, Appended
<1>2. ASSUME NEW x \in Seq(Sent), x # <<>>, ~IsAlert(Head(x), f)
      PROVE  /\ NoAlert(Tail(x), f) <=> NoAlert(x, f)
             /\ Latest(x, f, now) <=> Latest(Tail(x), f, now)
  BY <1>2, Taken
<1>3. ASSUME NoAlert(w, f) PROVE FreshIn(f, now, <<>>, mq, q, s)
  <2>1. ~Latest(w, f, now)
    BY <1>3 DEF NoAlert, Latest
  <2> QED BY <1>3, <2>1, EmptyQueue DEF FreshIn
<1>4. ASSUME NEW m \in Sent, ~IsAlert(m, f)
      PROVE  /\ FreshIn(f, now, Append(w, m), mq, q, s)
             /\ FreshIn(f, now, w, Append(mq, m), q, s)
             /\ FreshIn(f, now, w, mq, Append(q, m), s)
  BY <1>1, <1>4 DEF FreshIn
<1>5. mq # <<>> /\ ~IsAlert(Head(mq), f) => FreshIn(f, now, w, Tail(mq), q, s)
  BY <1>2 DEF FreshIn
<1>6. q # <<>> /\ ~IsAlert(Head(q), f) => FreshIn(f, now, w, mq, Tail(q), s)
  BY <1>2 DEF FreshIn
<1> QED BY <1>3, <1>4, <1>5, <1>6

(* An alert of f that is handled: what it says is saved, and that is what  *)
(* the firmware has if it was the last one.                                *)
LEMMA AlertIsHandled ==
    ASSUME NEW f \in Feature, NEW now, \A m \in now : IsAlert(m, f),
           NEW s \in BOOLEAN, NEW t \in BOOLEAN,
           NEW w \in Seq(Sent), NEW mq \in Seq(Sent), NEW q \in Seq(Sent),
           FreshIn(f, now, w, mq, q, s),
           q # <<>>, IsAlert(Head(q), f), Head(q) \in now => t
    PROVE  FreshIn(f, now, w, mq, Tail(q), t)
<1>1. /\ ~NoAlert(q, f)
      /\ Latest(q, f, now) <=>
            Latest(Tail(q), f, now) \/ (Head(q) \in now /\ NoAlert(Tail(q), f))
  BY Taken
<1> QED BY <1>1 DEF FreshIn

LEMMA AlertOfOne ==
    ASSUME NEW f \in Feature, NEW v \in State(f)
    PROVE  \A g : \A m \in {Alert(f, v)} : IsAlert(m, g) <=> g = f
BY AlertMessage DEF IsAlert

(* A question for f that is answered: what the firmware has is saved, or   *)
(* told, unless an older alert of f is still under way.                    *)
LEMMA CheckIsFresh ==
    ASSUME DataInv, NEW f \in Feature, CheckForStatusChange(f, fw[f]),
           UNCHANGED <<fw, wire, queue>>, Fresh(f) \/ f \notin Waiting
    PROVE  Fresh(f)'
<1>1. fw[f] \in State(f) /\ fw[f] # None BY States DEF DataInv
<1>2. PICK now : now = {Alert(f, fw[f])} OBVIOUS
<1>3. f \notin Waiting => NoAlert(wire, f) /\ NoAlert(managerQueue, f) /\ NoAlert(queue, f)
  BY NoAlertOfThree, ToldIsAlert DEF Waiting, DataInv
<1>4. CASE managerQueue' = Append(managerQueue, Alert(f, fw[f]))
  <2>1. Latest(managerQueue', f, now) BY <1>1, <1>2, <1>4, AlertMessage, Appended DEF DataInv
  <2>2. Latest(wire, f, now) \/ NoAlert(wire, f) BY <1>2, <1>3 DEF Fresh, FreshIn
  <2> QED BY <1>2, <2>1, <2>2 DEF Fresh, FreshIn
<1>5. CASE storage[f] \in {None, fw[f]} /\ managerQueue' = managerQueue
  <2>1. storage'[f] = fw[f] BY <1>1, <1>5, CheckEffect
  <2> QED BY <1>3, <1>5, <2>1 DEF Fresh, FreshIn
<1> QED BY <1>1, <1>4, <1>5, CheckEffect

(* What is known stays known, or becomes missed: an alert is lost with its *)
(* connection or process, or a system defense alert is not followed up.    *)
LEMMA FreshKept ==
    ASSUME DataInv, LifeInv, AbsentIsStill, PullRemembers, [Next]_vars,
           NEW f \in Feature, Fresh(f)
    PROVE  Fresh(f)' \/ (f \in missed' /\ (f = "SYSDEF" \/ link = "down" \/ link' = "down"))
<1> DEFINE Lost == f \in missed' /\ (f = "SYSDEF" \/ link = "down" \/ link' = "down")
<1> SUFFICES Fresh(f)' \/ Lost
  OBVIOUS
<1> HIDE DEF Lost
<1>1. PICK now : now = {Alert(f, fw[f])} OBVIOUS
<1>2. PICK s \in BOOLEAN : s = (storage[f] = fw[f]) OBVIOUS
<1>3. FreshIn(f, now, wire, managerQueue, queue, s) BY <1>1, <1>2 DEF Fresh
<1>4. fw[f] \in State(f) BY DEF DataInv
<1>5. \A m \in now : IsAlert(m, f) BY <1>1, <1>4, AlertOfOne
<1>6. wire \in Seq(Sent) /\ managerQueue \in Seq(Sent) /\ queue \in Seq(Sent) BY DEF DataInv
<1>7. ASSUME UNCHANGED <<fw, storage>>, FreshIn(f, now, wire', managerQueue', queue', s)
      PROVE  Fresh(f)'
  BY <1>1, <1>2, <1>7 DEF Fresh
<1>8. CASE ManagerStep
  <2>1. Head(managerQueue) \in Sent BY <1>6, <1>8, Taken DEF ManagerStep
  <2>2. UNCHANGED <<fw, storage, wire>> BY <1>8 DEF ManagerStep
  <2>3. CASE queue' = Append(queue, Head(managerQueue))
    BY <1>3, <1>5, <1>6, <1>7, <1>8, <2>2, <2>3, MessageMoves DEF ManagerStep
  <2>4. CASE queue' = queue /\ ~IsAlert(Head(managerQueue), f)
    BY <1>3, <1>5, <1>6, <1>7, <1>8, <2>2, <2>4, OthersPass DEF ManagerStep
  <2>5. CASE queue' = queue /\ IsAlert(Head(managerQueue), f)
    <3>1. missed' = missed \cup Told(<<Head(managerQueue)>>) /\ ~(handlers /\ life = "up")
      BY <1>8, <2>5 DEF ManagerStep, IsAlert
    <3> QED BY <2>1, <2>5, <3>1, ToldOfOne DEF LifeInv, Lost
  <2> QED BY <1>8, <2>3, <2>4, <2>5 DEF ManagerStep
<1>9. CASE HandlerStep
  <2>1. PICK m \in Sent : m = Head(queue) BY <1>6, <1>9, Taken DEF HandlerStep
  <2>2. UNCHANGED <<fw, wire, managerQueue>> /\ queue # <<>> /\ queue' = Tail(queue)
    BY <1>9 DEF HandlerStep
  <2>3. CASE ~IsAlert(m, f)
    <3>1. FreshIn(f, now, wire', managerQueue', queue', s)
      BY <1>3, <1>5, <1>6, <2>1, <2>2, <2>3, OthersPass
    <3>2. storage'[f] = storage[f]
      <4>1. CASE BeginPull BY <4>1 DEF BeginPull
      <4>2. CASE HandleAlert
        <5>1. m.f \in Feature /\ m.f # f /\ m.f \in DOMAIN storage
          BY <2>1, <2>3, <4>2, SentMessages DEF HandleAlert, IsAlert, DataInv
        <5> QED BY <2>1, <4>2, <5>1 DEF HandleAlert, DataInv
      <4> QED BY <1>9, <4>1, <4>2 DEF HandlerStep
    <3> QED BY <1>1, <1>2, <2>2, <3>1, <3>2 DEF Fresh
  <2>4. CASE IsAlert(m, f)
    <3>1. HandleAlert BY <1>9, <2>1, <2>4 DEF HandlerStep, BeginPull, IsAlert
    <3>2. m.v \in State(f) /\ m # Alert("AMT", AMT_NOT_PRESENT) /\ m = Alert(f, m.v)
      <4>1. Plausible(m, Absent)
        BY <1>6, <2>1, <2>2, PlausibleQueue DEF AbsentIsStill
      <4> QED BY <2>1, <2>4, <4>1, SentMessages DEF IsAlert, Plausible
    <3>3. CASE f = "SYSDEF" /\ missed' = missed \cup {"SYSDEF"} BY <3>3 DEF Lost
    <3>4. CASE storage'[f] \in {Saved(f, m.v), m.v, fw[f]}
      <4>1. m \in now => storage'[f] = fw[f]
        <5> HAVE m \in now
        <5>1. m.v = fw[f] BY <1>1, <1>4, AlertMessage
        <5>2. f = "AMT" => m.v \in {AMT_DISABLED, AMT_ENABLED}
          BY <3>2, States DEF AMT_DISABLED, AMT_ENABLED, AMT_NOT_PRESENT
        <5>3. Saved(f, m.v) = m.v BY <5>2 DEF Saved
        <5> QED BY <3>4, <5>1, <5>3
      <4>2. PICK t \in BOOLEAN : t = (storage'[f] = fw[f]) OBVIOUS
      <4>3. FreshIn(f, now, wire, managerQueue, Tail(queue), t)
        BY <1>3, <1>5, <1>6, <2>1, <2>2, <2>4, <4>1, <4>2, AlertIsHandled
      <4> QED BY <1>1, <2>2, <4>2, <4>3 DEF Fresh
    <3> QED BY <2>1, <2>4, <3>1, <3>3, <3>4 DEF HandleAlert, IsAlert, DataInv
  <2> QED BY <2>3, <2>4
<1>10. CASE PullStep
  <2>1. PICK g \in Feature : CheckForStatusChange(g, fw[g]) \/ UNCHANGED <<storage, managerQueue>>
    BY <1>10, PullEffect
  <2>2. UNCHANGED <<fw, wire, queue>> BY <1>10 DEF PullStep
  <2>3. CASE UNCHANGED <<storage, managerQueue>> BY <1>3, <1>7, <2>2, <2>3
  <2>4. CASE CheckForStatusChange(g, fw[g]) /\ g = f BY <2>2, <2>4, CheckIsFresh
  <2>5. CASE CheckForStatusChange(g, fw[g]) /\ g # f
    <3>1. fw[g] \in State(g) BY DEF DataInv
    <3>2. storage'[f] = storage[f] BY <2>5, <3>1, CheckEffect
    <3>3. ~IsAlert(Alert(g, fw[g]), f) /\ Alert(g, fw[g]) \in Sent
      BY <2>5, <3>1, AlertMessage DEF IsAlert
    <3>4. FreshIn(f, now, wire, managerQueue', queue, s)
      <4>1. FreshIn(f, now, wire, Append(managerQueue, Alert(g, fw[g])), queue, s)
        BY <1>3, <1>5, <1>6, <3>3, OthersPass
      <4>2. managerQueue' \in {managerQueue, Append(managerQueue, Alert(g, fw[g]))}
        BY <2>5, <3>1, CheckEffect
      <4> QED BY <1>3, <4>1, <4>2
    <3> QED BY <1>1, <1>2, <2>2, <3>2, <3>4 DEF Fresh
  <2> QED BY <2>1, <2>3, <2>4, <2>5
<1>11. ASSUME NEW g \in Features, NEW v \in State(g), FirmwareChange(g, v)
       PROVE  Fresh(f)' \/ Lost
  <2>1. g \in Feature /\ Alert(g, v) \in Sent BY StatusConstants, AlertMessage
  <2>2. UNCHANGED <<storage, managerQueue, queue>> BY <1>11 DEF FirmwareChange
  <2>3. CASE g # f
    <3>1. fw'[f] = fw[f] BY <1>11, <2>1, <2>3 DEF FirmwareChange, DataInv
    <3>2. ~IsAlert(Alert(g, v), f) BY <2>1, <2>3, AlertMessage DEF IsAlert
    <3>3. FreshIn(f, now, wire', managerQueue, queue, s)
      <4>1. FreshIn(f, now, Append(wire, Alert(g, v)), managerQueue, queue, s)
        BY <1>3, <1>5, <1>6, <2>1, <3>2, OthersPass
      <4>2. wire' \in {wire, Append(wire, Alert(g, v))} BY <1>11 DEF FirmwareChange
      <4> QED BY <1>3, <4>1, <4>2
    <3> QED BY <1>1, <1>2, <2>2, <3>1, <3>3 DEF Fresh
  <2>4. CASE g = f /\ link = "down" BY <1>11, <2>4 DEF FirmwareChange, Lost
  <2>5. CASE g = f /\ link # "down"
    <3>1. fw'[f] = v /\ wire' = Append(wire, Alert(f, v))
      BY <1>11, <2>1, <2>5 DEF FirmwareChange, DataInv
    <3>2. Latest(wire', f, {Alert(f, fw'[f])}) BY <1>6, <2>1, <2>5, <3>1, Appended
    <3> QED BY <3>2 DEF Fresh, FreshIn
  <2> QED BY <2>3, <2>4, <2>5
<1>12. CASE AlertArrives
  BY <1>3, <1>5, <1>6, <1>7, <1>12, MessageMoves DEF AlertArrives
<1>13. CASE Connect \/ Suspend \/ SuspendManager \/ UNCHANGED vars
  BY <1>3, <1>7, <1>13 DEF Connect, Suspend, SuspendManager, vars
<1>14. CASE Disconnect
  <2>1. NoAlert(wire, f) \/ Lost BY <1>6, <1>14, ToldIsAlert DEF Disconnect, Lost
  <2> QED BY <1>3, <1>5, <1>6, <1>7, <1>14, <2>1, OthersPass DEF Disconnect
<1>15. ASSUME NEW t \in {"SRVICE_UP", "PFW_AVAILABLE", "SUBSCRIBE_EVENT"}
       PROVE  Message(t) \in Sent /\ ~IsAlert(Message(t), f)
  BY OtherMessage DEF IsAlert
<1>16. CASE PfwStarted
  <2>1. managerQueue' \in {managerQueue, Append(managerQueue, Message("PFW_AVAILABLE"))}
    BY <1>16 DEF PfwStarted
  <2> QED BY <1>3, <1>5, <1>6, <1>7, <1>15, <1>16, <2>1, OthersPass DEF PfwStarted
<1>17. CASE Resume
  BY <1>3, <1>5, <1>6, <1>7, <1>15, <1>17, OthersPass DEF Resume
<1>18. CASE Start
  <2>1. wire = <<>> /\ managerQueue = <<>> /\ queue = <<>> BY <1>18 DEF Start, LifeInv
  <2>2. s BY <1>3, <2>1, EmptyQueue DEF FreshIn
  <2>3. NoAlert(managerQueue', f) /\ NoAlert(queue', f) /\ NoAlert(wire, f)
    BY <1>15, <1>18, <2>1, OneMessage, EmptyQueue DEF Start
  <2> QED BY <1>2, <1>18, <2>2, <2>3 DEF Start, Fresh, FreshIn
<1>19. CASE End
  <2>1. CASE f \in Told((wire \o managerQueue) \o queue) BY <1>19, <2>1 DEF End, Lost
  <2>2. CASE f \notin Told((wire \o managerQueue) \o queue)
    <3>1. NoAlert(wire, f) /\ NoAlert(managerQueue, f) /\ NoAlert(queue, f)
      BY <1>6, <2>2, NoAlertOfThree, ToldIsAlert
    <3>2. s
      <4>1. \A q \in Seq(Sent) : NoAlert(q, f) => ~Latest(q, f, now)
        BY <1>5 DEF NoAlert, Latest
      <4> QED BY <1>3, <1>6, <3>1, <4>1 DEF FreshIn
    <3> QED BY <1>2, <1>19, <3>2, EmptyQueue DEF End, Fresh, FreshIn
  <2> QED BY <2>1, <2>2
<1>20. CASE BroadcastActive \/ BroadcastFailure \/ PfwStopped
  BY <1>3, <1>7, <1>20 DEF BroadcastActive, BroadcastFailure, PfwStopped
<1> QED BY <1>8, <1>9, <1>10, <1>11, <1>12, <1>13, <1>14, <1>16, <1>17, <1>18, <1>19,
           <1>20 DEF Next

(* A feature is no longer missed when its change is told or it is asked    *)
(* for while no older alert of it is under way.                            *)
LEMMA FreshGained ==
    ASSUME DataInv, AbsentIsStill, PullRemembers, [Next]_vars,
           NEW f \in Feature, f \in missed, f \notin missed'
    PROVE  Fresh(f)'
<1>1. ASSUME NEW g \in Features, NEW v \in State(g), FirmwareChange(g, v) PROVE Fresh(f)'
  <2>1. g = f /\ link # "down" BY <1>1 DEF FirmwareChange
  <2>2. fw'[f] = v /\ wire' = Append(wire, Alert(f, v)) /\ Alert(f, v) \in Sent
    BY <1>1, <2>1, AlertMessage DEF FirmwareChange, DataInv
  <2>3. Latest(wire', f, {Alert(f, fw'[f])}) BY <2>2, Appended DEF DataInv
  <2> QED BY <2>3 DEF Fresh, FreshIn
<1>2. CASE PullStep
  <2>1. PICK g \in Feature :
           \/ CheckForStatusChange(g, fw[g]) /\ missed' = missed \ ({g} \ Waiting)
           \/ missed' = missed
    BY <1>2, PullEffect
  <2>2. g = f /\ f \notin Waiting /\ CheckForStatusChange(f, fw[f]) BY <2>1
  <2> QED BY <1>2, <2>2, CheckIsFresh DEF PullStep
<1>3. CASE HandlerStep
  BY <1>3 DEF HandlerStep, BeginPull, HandleAlert
<1>4. CASE ManagerStep \/ AlertArrives \/ Connect \/ Disconnect \/ PfwStarted \/ End
  BY <1>4 DEF ManagerStep, AlertArrives, Connect, Disconnect, PfwStarted, End
<1>5. CASE Start \/ Suspend \/ SuspendManager \/ Resume \/ UNCHANGED vars
  BY <1>5 DEF Start, Suspend, SuspendManager, Resume, vars
<1>6. CASE BroadcastActive \/ BroadcastFailure \/ PfwStopped
  BY <1>6 DEF BroadcastActive, BroadcastFailure, PfwStopped
<1> QED BY <1>1, <1>2, <1>3, <1>4, <1>5, <1>6 DEF Next

LEMMA AgreeInit == Init => AgreeInv
<1> HAVE Init
<1>1. PICK s \in InitStates : fw = s.fw /\ storage = s.storage /\ missed = s.missed
  BY DEF Init
<1>2. missed = Feature \/ storage = fw
  <2>1. s.missed = Feature \/ s.storage = s.fw BY DEF InitStates
  <2> QED BY <1>1, <2>1
<1>3. ToldIsFresh
  BY <1>2, EmptyQueue DEF Init, ToldIsFresh, Fresh, FreshIn
<1> QED BY <1>3, AbsentInit DEF Init, LifeInv, AgreeInv

LEMMA AgreeStep == DataInv /\ AgreeInv /\ [Next]_vars => AgreeInv'
<1> SUFFICES ASSUME DataInv, AgreeInv, [Next]_vars PROVE AgreeInv'
  OBVIOUS
<1> USE DEF AgreeInv
<1>1. LifeInv' /\ AbsentIsStill' /\ PullRemembers'
  BY LifeStep, AbsentStep, PullRemembersStep
<1>2. ASSUME NEW f \in Feature, f \notin missed' PROVE Fresh(f)'
  <2>1. CASE f \in missed BY <1>2, <2>1, FreshGained
  <2>2. CASE f \notin missed
    <3>1. Fresh(f) BY <2>2 DEF ToldIsFresh
    <3> QED BY <1>2, <3>1, FreshKept
  <2> QED BY <2>1, <2>2
<1>3. ToldIsFresh' BY <1>2 DEF ToldIsFresh
<1> QED BY <1>1, <1>3

LEMMA AgreeAlways == Spec => []AgreeInv
BY DataAlways, AgreeInit, AgreeStep, PTL DEF Spec

(* Once everything is handled the registry agrees with the firmware on     *)
(* every feature of which a change was told, or that was asked for, last:  *)
(* neither alerts that overtake a pull, nor the echoes of a pull, nor the  *)
(* losses of an end or a disconnection leave an old state behind, for any  *)
(* numbers of changes, lives and connections.                              *)
THEOREM RegistryAgrees == Spec => []QuietAgrees
<1>1. AgreeInv => QuietAgrees
  <2> SUFFICES ASSUME AgreeInv, Quiet, NEW f \in Feature \ missed
               PROVE  storage[f] = fw[f]
    BY DEF QuietAgrees
  <2>1. Fresh(f) BY DEF AgreeInv, ToldIsFresh
  <2> QED BY <2>1, EmptyQueue DEF Quiet, Fresh, FreshIn
<1> QED BY <1>1, AgreeAlways, PTL

-----------------------------------------------------------------------------
(* Port forwarding is started: what is asked for over it is current *)

LEMMA StartedInit == Init => StartedInv
BY EmptyQueue DEF Init, StartedInv, WireIsCurrent, UpIsFirst, FlagFollows, GapIsAsked,
                  Started

LEMMA WireStep ==
    ASSUME DataInv, LifeInv, WireIsCurrent, [Next]_vars
    PROVE  WireIsCurrent'
<1>1. ASSUME UNCHANGED <<fw, wire>> PROVE WireIsCurrent' BY <1>1 DEF WireIsCurrent
<1>2. ASSUME wire' = <<>> PROVE WireIsCurrent' BY <1>2, EmptyQueue DEF WireIsCurrent
<1>3. CASE AlertArrives
  <2> SUFFICES ASSUME NEW f \in Feature
               PROVE  NoAlert(wire', f) \/ Latest(wire', f, {Alert(f, fw'[f])})
    BY DEF WireIsCurrent
  <2> QED BY <1>3, Taken DEF AlertArrives, WireIsCurrent, DataInv
<1>4. ASSUME NEW g \in Features, NEW v \in State(g), FirmwareChange(g, v)
      PROVE  WireIsCurrent'
  <2>1. g \in Feature /\ Alert(g, v) \in Sent BY StatusConstants, AlertMessage
  <2>2. CASE link = "down"
    <3>1. wire' = wire BY <1>4, <2>2 DEF FirmwareChange
    <3> SUFFICES wire' = <<>> BY <1>2
    <3> QED BY <2>2, <3>1 DEF LifeInv
  <2>3. CASE link # "down"
    <3> SUFFICES ASSUME NEW f \in Feature
                 PROVE  NoAlert(wire', f) \/ Latest(wire', f, {Alert(f, fw'[f])})
      BY DEF WireIsCurrent
    <3>1. wire' = Append(wire, Alert(g, v)) BY <1>4, <2>3 DEF FirmwareChange
    <3>2. CASE f = g
      <4>1. fw'[f] = v BY <1>4, <2>1, <3>2 DEF FirmwareChange, DataInv
      <4> QED BY <2>1, <3>1, <3>2, <4>1, Appended DEF DataInv
    <3>3. CASE f # g
      <4>1. fw'[f] = fw[f] BY <1>4, <2>1, <3>3 DEF FirmwareChange, DataInv
      <4>2. ~IsAlert(Alert(g, v), f) BY <2>1, <3>3, AlertMessage DEF IsAlert
      <4> QED BY <2>1, <3>1, <4>1, <4>2, Appended DEF WireIsCurrent, DataInv
    <3> QED BY <3>2, <3>3
  <2> QED BY <2>2, <2>3
<1>5. CASE Disconnect \/ End BY <1>2, <1>5 DEF Disconnect, End
<1>6. CASE ManagerStep \/ HandlerStep \/ PullStep \/ Connect \/ PfwStarted
  BY <1>1, <1>6 DEF ManagerStep, HandlerStep, PullStep, Connect, PfwStarted
<1>7. CASE Start \/ Suspend \/ SuspendManager \/ Resume \/ UNCHANGED vars
  BY <1>1, <1>7 DEF Start, Suspend, SuspendManager, Resume, vars
<1>8. CASE BroadcastActive \/ BroadcastFailure \/ PfwStopped
  BY <1>1, <1>8 DEF BroadcastActive, BroadcastFailure, PfwStopped
<1> QED BY <1>3, <1>4, <1>5, <1>6, <1>7, <1>8 DEF Next

LEMMA TailOfAppend ==
    ASSUME NEW q \in Seq(Sent), NEW m \in Sent
    PROVE  /\ q = <<>> => Tail(Append(q, m)) = <<>>
           /\ q # <<>> => Tail(Append(q, m)) = Append(Tail(q), m)
<1>1. ASSUME q # <<>> PROVE Tail(Append(q, m)) = Append(Tail(q), m)
  <2>1. PICK a \in Seq(Sent) : a = Append(q, m) BY AppendProperties
  <2>2. PICK t \in Seq(Sent) : t = Tail(q) BY <1>1, HeadTailProperties
  <2>3. PICK b \in Seq(Sent) : b = Append(t, m) BY AppendProperties
  <2>4. a # <<>> /\ Len(a) = Len(q) + 1 /\ a[Len(q) + 1] = m
        /\ \A i \in 1..Len(q) : a[i] = q[i]
    BY <2>1, AppendProperties
  <2>5. PICK c \in Seq(Sent) : c = Tail(a) BY <2>4, HeadTailProperties
  <2>6. Len(c) = Len(q) /\ \A i \in 1..Len(c) : c[i] = a[i + 1]
    BY <2>4, <2>5, HeadTailProperties
  <2>7. Len(t) = Len(q) - 1 /\ \A i \in 1..Len(t) : t[i] = q[i + 1]
    BY <1>1, <2>2, HeadTailProperties
  <2>8. Len(b) = Len(t) + 1 /\ b[Len(t) + 1] = m /\ \A i \in 1..Len(t) : b[i] = t[i]
    BY <2>3, AppendProperties
  <2>9. Len(b) = Len(c) BY <2>6, <2>7, <2>8
  <2>10. ASSUME NEW i \in 1..Len(c) PROVE c[i] = b[i]
    <3>1. CASE i = Len(q) BY <2>4, <2>6, <2>7, <2>8, <3>1
    <3>2. CASE i # Len(q)
      <4>1. i \in 1..Len(t) /\ (i + 1) \in 1..Len(q) BY <2>6, <2>7, <3>2
      <4> QED BY <2>4, <2>6, <2>7, <2>8, <4>1
    <3> QED BY <3>1, <3>2
  <2>11. c = b BY <2>9, <2>10, SeqEqual
  <2> QED BY <2>1, <2>2, <2>3, <2>5, <2>11
<1>2. ASSUME q = <<>> PROVE Tail(Append(q, m)) = <<>> BY <1>2
<1> QED BY <1>1, <1>2

LEMMA NotUp ==
    /\ \A f \in Feature : \A v \in State(f) : Alert(f, v) \notin Up
    /\ Message("SUBSCRIBE_EVENT") \notin Up /\ Message("PFW_AVAILABLE") \notin Up
<1>1. \A m \in Up : m.type = "SRVICE_UP" BY OtherMessage DEF Up
<1>2. \A f \in Feature : \A v \in State(f) : Alert(f, v) \notin Up BY <1>1, AlertMessage
<1>3. Message("SUBSCRIBE_EVENT") \notin Up /\ Message("PFW_AVAILABLE") \notin Up
  BY <1>1, OtherMessage
<1> QED BY <1>2, <1>3

(* SRVICE_UP is never behind another message of the handler's queue.       *)
LEMMA UpStep ==
    ASSUME DataInv, LifeInv, AbsentIsStill, PullRemembers, UpIsFirst, [Next]_vars
    PROVE  UpIsFirst'
<1> USE DEF UpIsFirst
<1>1. wire \in Seq(Sent) /\ managerQueue \in Seq(Sent) /\ queue \in Seq(Sent) BY DEF DataInv
<1>2. Without(<<>>, Up) BY EmptyQueue
<1>3. CASE ManagerStep
  <2>1. /\ Head(managerQueue) \in Sent \ Up
        /\ Without(Tail(managerQueue), Up)
    BY <1>1, <1>3, Taken DEF ManagerStep
  <2>2. CASE queue' = queue BY <1>3, <2>1, <2>2 DEF ManagerStep
  <2>3. CASE queue' = Append(queue, Head(managerQueue))
    <3>1. queue # <<>> => Tail(queue) \in Seq(Sent) BY <1>1, Taken
    <3>2. Without(Tail(queue'), Up)
      <4>1. CASE queue = <<>> BY <1>1, <1>2, <2>1, <2>3, <4>1, TailOfAppend
      <4>2. CASE queue # <<>>
        <5>1. Without(Append(Tail(queue), Head(managerQueue)), Up)
          BY <2>1, <3>1, <4>2, Appended
        <5> QED BY <1>1, <2>1, <2>3, <4>2, <5>1, TailOfAppend
      <4> QED BY <4>1, <4>2
    <3>3. pull = <<>> /\ pull' = pull /\ life # "suspended" /\ life' = life
      BY <1>3 DEF ManagerStep
    <3> QED BY <1>3, <2>1, <3>2, <3>3 DEF ManagerStep
  <2> QED BY <1>3, <2>2, <2>3 DEF ManagerStep
<1>4. CASE HandlerStep
  <2>1. Tail(queue) \in Seq(Sent) /\ Without(Tail(queue), Up) BY <1>1, <1>4, Taken DEF HandlerStep
  <2>2. Tail(queue) # <<>> => Without(Tail(Tail(queue)), Up) BY <2>1, Taken
  <2> QED BY <1>4, <2>1, <2>2 DEF HandlerStep
<1>5. CASE PullStep
  <2>1. PICK f \in Feature : \/ CheckForStatusChange(f, fw[f])
                             \/ UNCHANGED <<storage, managerQueue>>
    BY <1>5, PullEffect
  <2>2. fw[f] \in State(f) BY DEF DataInv
  <2>3. Without(Append(managerQueue, Alert(f, fw[f])), Up)
    BY <1>1, <2>2, AlertMessage, NotUp, Appended
  <2>4. Without(managerQueue', Up) BY <2>1, <2>2, <2>3, CheckEffect
  <2> QED BY <1>5, <2>4 DEF PullStep
<1>6. ASSUME NEW f \in Features, NEW v \in State(f), FirmwareChange(f, v) PROVE UpIsFirst'
  <2>1. f \in Feature BY StatusConstants
  <2>2. Without(Append(wire, Alert(f, v)), Up)
    BY <1>1, <2>1, AlertMessage, NotUp, Appended
  <2> QED BY <1>6, <2>2 DEF FirmwareChange
<1>7. CASE AlertArrives
  <2>1. Head(wire) \in Sent \ Up /\ Without(Tail(wire), Up) BY <1>1, <1>7, Taken DEF AlertArrives
  <2>2. Without(Append(managerQueue, Head(wire)), Up) BY <1>1, <2>1, Appended
  <2> QED BY <1>7, <2>1, <2>2 DEF AlertArrives
<1>8. CASE PfwStarted
  <2>1. Without(Append(managerQueue, Message("PFW_AVAILABLE")), Up)
    BY <1>1, OtherMessage, NotUp, Appended
  <2>2. managerQueue' \in {managerQueue, Append(managerQueue, Message("PFW_AVAILABLE"))}
    BY <1>8 DEF PfwStarted
  <2> QED BY <1>8, <2>1, <2>2 DEF PfwStarted
<1>9. CASE Start
  <2>1. Without(<<Message("SUBSCRIBE_EVENT")>>, Up) BY OtherMessage, NotUp, OneMessage
  <2>2. Tail(<<Message("SRVICE_UP")>>) = <<>> OBVIOUS
  <2> QED BY <1>2, <1>9, <2>1, <2>2 DEF Start, LifeInv
<1>10. CASE Resume
  <2>1. Tail(Append(queue, Message("SRVICE_UP"))) = <<>>
    BY <1>1, <1>10, OtherMessage, TailOfAppend DEF Resume
  <2> QED BY <1>2, <1>10, <2>1 DEF Resume
<1>11. CASE End BY <1>2, <1>11 DEF End
<1>12. CASE Connect \/ Disconnect \/ Suspend \/ SuspendManager \/ UNCHANGED vars
  BY <1>2, <1>12 DEF Connect, Disconnect, Suspend, SuspendManager, vars
<1>13. CASE BroadcastActive \/ BroadcastFailure \/ PfwStopped
  BY <1>13 DEF BroadcastActive, BroadcastFailure, PfwStopped
<1> QED BY <1>3, <1>4, <1>5, <1>6, <1>7, <1>8, <1>9, <1>10, <1>11, <1>12, <1>13 DEF Next

(* The messages to the Configurator are handled in order.                  *)
LEMMA FlagStep ==
    ASSUME DataInv, LifeInv, FlagFollows, [Next]_vars
    PROVE  FlagFollows'
<1> USE DEF FlagFollows
<1> DEFINE T == {"STARTED", "STOPPED"}
<1>1. pfwTasks \in Seq(T) BY DEF DataInv
<1>2. ASSUME NEW t \in T
      PROVE  Append(pfwTasks, t) # <<>> /\ Append(pfwTasks, t)[Len(Append(pfwTasks, t))] = t
  BY <1>1, AppendProperties
<1>3. ASSUME pfwTasks # <<>>
      PROVE  /\ Tail(pfwTasks) = <<>> => Head(pfwTasks) = pfwTasks[Len(pfwTasks)]
             /\ Tail(pfwTasks) # <<>> =>
                   Tail(pfwTasks)[Len(Tail(pfwTasks))] = pfwTasks[Len(pfwTasks)]
  <2>1. PICK q \in Seq(T) : q = pfwTasks BY <1>1
  <2>2. PICK t \in Seq(T) : t = Tail(q) BY <1>3, <2>1, HeadTailProperties
  <2>3. /\ Len(q) \in Nat /\ Len(t) = Len(q) - 1 /\ Head(q) = q[1]
        /\ \A i \in 1..Len(t) : t[i] = q[i + 1]
    BY <1>3, <2>1, <2>2, HeadTailProperties
  <2>4. t = <<>> => Len(q) = 1 BY <2>3
  <2>5. t # <<>> => Len(t) \in 1..Len(t) /\ Len(t) + 1 = Len(q) BY <2>2, <2>3
  <2> QED BY <2>1, <2>2, <2>3, <2>4, <2>5
<1>4. CASE BroadcastActive BY <1>2, <1>4 DEF BroadcastActive
<1>5. CASE BroadcastFailure BY <1>2, <1>5 DEF BroadcastFailure
<1>6. CASE PfwStarted BY <1>3, <1>6 DEF PfwStarted
<1>7. CASE PfwStopped
  <2>1. needBroadcast \in BOOLEAN BY DEF DataInv
  <2> QED BY <1>3, <1>7, <2>1 DEF PfwStopped
<1>8. CASE Connect \/ Disconnect
  BY <1>8 DEF Connect, Disconnect
<1>12. CASE End BY <1>12 DEF End
<1>9. ASSUME NEW f \in Features, NEW v \in State(f), FirmwareChange(f, v)
      PROVE  FlagFollows'
  BY <1>9 DEF FirmwareChange, forwarding
<1>10. CASE ManagerStep \/ HandlerStep \/ PullStep \/ AlertArrives \/ Start
  BY <1>10 DEF ManagerStep, HandlerStep, PullStep, AlertArrives, Start, forwarding
<1>11. CASE Suspend \/ SuspendManager \/ Resume \/ UNCHANGED vars
  BY <1>11 DEF Suspend, SuspendManager, Resume, vars, forwarding
<1> QED BY <1>4, <1>5, <1>6, <1>7, <1>8, <1>9, <1>10, <1>11, <1>12 DEF Next

(* The pull over port forwarding, while no alert of TIME_SYNC is under way. *)
LEMMA PullAsks ==
    ASSUME "TIME_SYNC" \notin MayFail,
           DataInv, AbsentIsStill, PullRemembers, UpIsFirst, PullStep, link # "down",
           pull \in PullsForPfw, "TIME_SYNC" \notin Waiting
    PROVE  \/ Fresh("TIME_SYNC")'
           \/ /\ managerQueue' = managerQueue
              /\ pull' \in PullsForPfw \/ (pull' = <<>> /\ amt' = AMT_NOT_PRESENT)
<1>1. /\ Head(pull) \in {"AMT", "TIME_SYNC"} /\ pull # GenerateEvents
      /\ Head(pull) = "AMT" => Tail(pull) = <<"TIME_SYNC">>
  BY PullTail DEF PullStep, DataInv
<1>2. CASE PullAmt
  BY <1>1, <1>2 DEF PullStep, PullAmt, PullRemembers, PullsForPfw
<1>3. CASE PullFeature
  <2>1. Head(pull) = "TIME_SYNC" BY <1>1, <1>3 DEF PullFeature
  <2>2. Answers("TIME_SYNC") = {fw["TIME_SYNC"]} BY DEF Answers
  <2>3. fw["TIME_SYNC"] # None BY States DEF DataInv, Feature
  <2>4. amt = AMT_NOT_PRESENT => fw["TIME_SYNC"] = 0
    BY <2>1 DEF PullStep, PullRemembers, AbsentIsStill, Absent, Feature
  <2>5. CheckForStatusChange("TIME_SYNC", fw["TIME_SYNC"])
    BY <1>3, <2>1, <2>2, <2>3, <2>4 DEF PullFeature
  <2> QED BY <2>5, CheckIsFresh DEF PullStep, Feature
<1> QED BY <1>2, <1>3 DEF PullStep

LEMMA GapStep ==
    ASSUME "TIME_SYNC" \notin MayFail,
           DataInv, LifeInv, AbsentIsStill, PullRemembers, StartedInv, [Next]_vars
    PROVE  GapIsAsked'
<1> DEFINE TS == "TIME_SYNC"
<1> SUFFICES ASSUME Started', ~Fresh(TS)' PROVE Asked'
  BY DEF GapIsAsked
<1>0. link' = "announced" /\ pfwTasks' = <<>> BY DEF Started
<1>1. wire \in Seq(Sent) /\ managerQueue \in Seq(Sent) /\ queue \in Seq(Sent) BY DEF DataInv
<1>2. TS \in Feature BY DEF Feature
<1>3. CASE PfwStarted
  <2>1. Latest(Append(managerQueue, Message("PFW_AVAILABLE")), TS, Available)
    BY <1>1, OtherMessage, Appended DEF Available
  <2>2. life = "up" BY <1>0, <1>3 DEF PfwStarted, LifeInv
  <2> QED BY <1>3, <2>1, <2>2 DEF PfwStarted, Asked
<1>4. ~(BroadcastActive \/ BroadcastFailure \/ PfwStopped)
  <2>1. \A t : Append(pfwTasks, t) # <<>> OBVIOUS
  <2>2. ~(BroadcastActive \/ BroadcastFailure)
    BY <1>0, <2>1 DEF BroadcastActive, BroadcastFailure
  <2>3. CASE PfwStopped
    <3>1. FlagFollows' BY FlagStep DEF StartedInv
    <3> QED BY <1>0, <2>3, <3>1 DEF PfwStopped, FlagFollows
  <2> QED BY <2>2, <2>3
<1>5. CASE ~Started
  <2>1. \/ link' # "announced" \/ UNCHANGED <<link, pfwTasks>> \/ PfwStarted
    <3> USE DEF forwarding
    <3>1. ASSUME NEW f \in Features, NEW v \in State(f), FirmwareChange(f, v)
          PROVE  UNCHANGED <<link, pfwTasks>>
      BY <3>1 DEF FirmwareChange
    <3>2. CASE ManagerStep \/ HandlerStep \/ PullStep \/ AlertArrives \/ Start \/ Suspend
      BY <3>2 DEF ManagerStep, HandlerStep, PullStep, AlertArrives, Start, Suspend
    <3>3. CASE Connect \/ Disconnect \/ End \/ SuspendManager \/ Resume \/ UNCHANGED vars
      BY <3>3 DEF Connect, Disconnect, End, SuspendManager, Resume, vars
    <3> QED BY <1>4, <3>1, <3>2, <3>3 DEF Next
  <2> QED BY <1>0, <1>3, <1>5, <2>1 DEF Started
<1>6. CASE Started
  <2>0. link = "announced" /\ isPortForwardingStarted
    BY <1>6 DEF Started, StartedInv, FlagFollows
  <2>1. ~Fresh(TS) BY <1>0, <1>2, <2>0, FreshKept
  <2>2. Asked BY <1>6, <2>1 DEF StartedInv, GapIsAsked
  <2>3. life = "up" /\ handlers BY <2>0 DEF LifeInv
  <2>4. NoAlert(wire, TS) BY <1>2, <2>1 DEF StartedInv, WireIsCurrent, Fresh, FreshIn
  <2>5. ASSUME UNCHANGED <<managerQueue, queue, pull, amt>> PROVE Asked' BY <2>2, <2>5 DEF Asked
  <2>6. CASE ManagerStep
    <3>1. PICK m \in Sent : m = Head(managerQueue) BY <1>1, <2>6, Taken DEF ManagerStep
    <3>2. /\ managerQueue' = Tail(managerQueue) /\ UNCHANGED <<pull, amt>>
          /\ \/ queue' = Append(queue, m)
             \/ queue' = queue /\ m.type = "SUBSCRIBE_EVENT"
      BY <2>3, <2>6, <3>1 DEF ManagerStep
    <3>3. /\ NoAlert(managerQueue, TS) => ~IsAlert(m, TS) /\ NoAlert(managerQueue', TS)
          /\ Latest(managerQueue, TS, Available) =>
                \/ Latest(managerQueue', TS, Available)
                \/ m \in Available /\ NoAlert(managerQueue', TS)
          /\ m \notin Up
      <4>1. managerQueue # <<>> /\ Without(managerQueue, Up)
        BY <2>6 DEF ManagerStep, StartedInv, UpIsFirst
      <4>2. m \notin Up BY <1>1, <3>1, <4>1, Taken
      <4>3. NoAlert(managerQueue, TS) => ~IsAlert(m, TS) /\ NoAlert(managerQueue', TS)
        BY <1>1, <3>1, <3>2, <4>1, Taken
      <4>4. Latest(managerQueue, TS, Available) =>
               \/ Latest(managerQueue', TS, Available)
               \/ m \in Available /\ NoAlert(managerQueue', TS)
        BY <1>1, <3>1, <3>2, <4>1, Taken
      <4> QED BY <4>2, <4>3, <4>4
    <3>4. m.type = "SUBSCRIBE_EVENT" => m \notin Available BY OtherMessage DEF Available
    <3>5. /\ m \in Available => Latest(Append(queue, m), TS, Available)
          /\ ~IsAlert(m, TS) =>
                /\ Latest(queue, TS, Available) => Latest(Append(queue, m), TS, Available)
                /\ NoAlert(queue, TS) => NoAlert(Append(queue, m), TS)
          /\ Without(queue, Up) => Without(Append(queue, m), Up)
      BY <1>1, <3>3, Appended
    <3> QED BY <2>2, <3>2, <3>3, <3>4, <3>5 DEF Asked
  <2>7. CASE HandlerStep
    <3>1. PICK m \in Sent : m = Head(queue) BY <1>1, <2>7, Taken DEF HandlerStep
    <3>2. queue' = Tail(queue) /\ managerQueue' = managerQueue /\ pull = <<>>
      BY <2>7 DEF HandlerStep
    <3>3. /\ NoAlert(queue, TS) => NoAlert(queue', TS)
          /\ Latest(queue, TS, Available) =>
                \/ Latest(queue', TS, Available)
                \/ m \in Available /\ NoAlert(queue', TS)
          /\ Without(queue, Up) => m \notin Up /\ Without(queue', Up)
      <4>1. queue # <<>> BY <2>7 DEF HandlerStep
      <4>2. Without(queue, Up) => m \notin Up /\ Without(queue', Up)
        BY <1>1, <3>1, <3>2, <4>1, Taken
      <4>3. NoAlert(queue, TS) => NoAlert(queue', TS)
        BY <1>1, <3>1, <3>2, <4>1, Taken
      <4>4. Latest(queue, TS, Available) =>
               \/ Latest(queue', TS, Available)
               \/ m \in Available /\ NoAlert(queue', TS)
        BY <1>1, <3>1, <3>2, <4>1, Taken
      <4> QED BY <4>2, <4>3, <4>4
    <3>4. pull \notin PullsForPfw
      BY <3>2 DEF PullsForPfw, GeneratePortFwrdRelatedEvents
    <3>5. ASSUME m.type = "PFW_AVAILABLE" PROVE pull' \in PullsForPfw
      BY <2>0, <2>7, <3>1, <3>5 DEF HandlerStep, BeginPull, HandleAlert, PullsForPfw
    <3>6. m \in Available => m.type = "PFW_AVAILABLE" BY OtherMessage DEF Available
    <3>7. \/ m.type = "PFW_AVAILABLE" \/ m \in Up
          \/ UNCHANGED <<pull, amt>>
      BY <2>7, <3>1, SentMessages DEF HandlerStep, BeginPull, HandleAlert, Up
    <3> QED BY <2>2, <3>2, <3>3, <3>4, <3>5, <3>6, <3>7 DEF Asked
  <2>8. CASE PullStep
    <3>1. PICK g \in Feature : \/ CheckForStatusChange(g, fw[g])
                               \/ UNCHANGED <<storage, managerQueue>>
      BY <2>8, PullEffect
    <3>2. UNCHANGED <<fw, wire, queue>> /\ pull # <<>> BY <2>8 DEF PullStep
    <3>3. fw[g] \in State(g) /\ Alert(g, fw[g]) \in Sent BY AlertMessage DEF DataInv
    <3>4. \/ managerQueue' = managerQueue
          \/ managerQueue' = Append(managerQueue, Alert(g, fw[g])) /\ g # TS
      <4>1. CASE g = TS /\ managerQueue' = Append(managerQueue, Alert(g, fw[g]))
        <5>1. Latest(managerQueue', TS, {Alert(TS, fw'[TS])})
          BY <1>1, <3>2, <3>3, <4>1, Appended
        <5> QED BY <2>4, <3>2, <5>1 DEF Fresh, FreshIn
      <4> QED BY <3>1, <3>3, <4>1, CheckEffect
    <3>5. /\ Latest(managerQueue, TS, Available) => Latest(managerQueue', TS, Available)
          /\ NoAlert(managerQueue, TS) => NoAlert(managerQueue', TS)
      <4>1. g # TS => ~IsAlert(Alert(g, fw[g]), TS) BY <3>3, AlertMessage DEF IsAlert
      <4>2. g # TS =>
              /\ Latest(managerQueue, TS, Available) =>
                    Latest(Append(managerQueue, Alert(g, fw[g])), TS, Available)
              /\ NoAlert(managerQueue, TS) => NoAlert(Append(managerQueue, Alert(g, fw[g])), TS)
        BY <1>1, <3>3, <4>1, Appended
      <4> QED BY <3>4, <4>2
    <3>6. CASE /\ NoAlert(managerQueue, TS) /\ NoAlert(queue, TS)
               /\ pull \in PullsForPfw
      <4>1. TS \notin Waiting
        <5>1. PICK z \in Seq(Sent) : z = (wire \o managerQueue) \o queue
          BY <1>1, NoAlertOfThree
        <5>2. NoAlert(z, TS) BY <1>1, <2>4, <3>6, <5>1, NoAlertOfThree
        <5> QED BY <5>1, <5>2, ToldIsAlert DEF Waiting
      <4>2. pull' \in PullsForPfw \/ (pull' = <<>> /\ amt' = AMT_NOT_PRESENT)
        BY <2>0, <2>8, <3>6, <4>1, PullAsks DEF StartedInv
      <4>3. Without(queue, Up) BY <3>2 DEF StartedInv, UpIsFirst
      <4> QED BY <3>2, <3>5, <3>6, <4>2, <4>3 DEF Asked
    <3> QED BY <2>2, <3>2, <3>5, <3>6 DEF Asked
  <2>9. CASE AlertArrives
    <3>1. Head(wire) \in Sent /\ ~IsAlert(Head(wire), TS)
      BY <1>1, <2>4, <2>9, Taken DEF AlertArrives
    <3>2. /\ Latest(managerQueue, TS, Available) => Latest(managerQueue', TS, Available)
          /\ NoAlert(managerQueue, TS) => NoAlert(managerQueue', TS)
      BY <1>1, <2>9, <3>1, Appended DEF AlertArrives
    <3> QED BY <2>2, <2>9, <3>2 DEF AlertArrives, Asked
  <2>10. ASSUME NEW f \in Features, NEW v \in State(f), FirmwareChange(f, v) PROVE Asked'
    BY <2>5, <2>10 DEF FirmwareChange
  <2>11. CASE UNCHANGED vars BY <2>5, <2>11 DEF vars
  <2>12. ~(Connect \/ Disconnect \/ PfwStarted \/ Start \/ End \/ Suspend \/ SuspendManager
           \/ Resume)
    <3>1. ~(Connect \/ Start \/ Suspend \/ SuspendManager \/ Resume)
      BY <2>0, <2>3 DEF Connect, Start, Suspend, SuspendManager, Resume
    <3>2. ~(Disconnect \/ End) BY <1>0 DEF Disconnect, End
    <3>3. ~PfwStarted BY <1>6 DEF PfwStarted, Started
    <3> QED BY <3>1, <3>2, <3>3
  <2> QED BY <1>4, <2>6, <2>7, <2>8, <2>9, <2>10, <2>11, <2>12 DEF Next
<1> QED BY <1>5, <1>6

(* While port forwarding is started, the state that is asked for over it   *)
(* is the firmware's once everything is handled, whatever happened while   *)
(* there was no connection, if the firmware answers the question for it:   *)
(* EVENT_PORT_FORWARDING_SERVICE_AVAILABLE comes behind every older alert, *)
(* so the pull it begins is not undone.                                    *)
THEOREM GapsMadeGood ==
    ASSUME "TIME_SYNC" \notin MayFail
    PROVE  Spec => []StartedIsCurrent
<1>1. DataInv /\ AgreeInv /\ StartedInv /\ [Next]_vars => StartedInv'
  BY WireStep, UpStep, FlagStep, GapStep DEF AgreeInv, StartedInv
<1>2. AgreeInv /\ StartedInv => StartedIsCurrent
  <2> SUFFICES ASSUME AgreeInv, StartedInv, Quiet, Started, amt # AMT_NOT_PRESENT
               PROVE  storage["TIME_SYNC"] = fw["TIME_SYNC"]
    BY DEF StartedIsCurrent
  <2>1. ~Asked
    BY EmptyQueue DEF Quiet, Asked, PullsForPfw, GeneratePortFwrdRelatedEvents
  <2>2. Fresh("TIME_SYNC") BY <2>1 DEF StartedInv, GapIsAsked
  <2> QED BY <2>2, EmptyQueue DEF Quiet, Fresh, FreshIn
<1> QED BY <1>1, <1>2, StartedInit, DataAlways, AgreeAlways, PTL DEF Spec
=============================================================================
