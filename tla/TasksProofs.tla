----------------------------- MODULE TasksProofs ----------------------------
(***************************************************************************)
(* What each kernel function of Tasks keeps, for every kernel state and    *)
(* any number of tasks, locks and priorities.  SchedulerProofs cites one   *)
(* of these lemmas for each action of Scheduler.                           *)
(***************************************************************************)
EXTENDS Tasks, SequenceTheorems, WellFoundedInduction, TLAPS

ListType == [ListName -> Seq(Task)]
OnType   == [Task -> ListName \cup {NoList}]

Queued(k) == k \in KernelState /\ QueuesAgree(k)

-----------------------------------------------------------------------------
LEMMA ListNames ==
    /\ Sleeping \in ListName /\ Suspended \in ListName
    /\ \A l \in Lock : Blocked(l) \in ListName
    /\ \A p \in 0..NumPriorities : Ready(p) \in ListName
    /\ NoList \notin ListName
BY TasksAssumption
   DEF Sleeping, Suspended, Blocked, Ready, NoList, ListName, Priority

LEMMA SameInterval ==
    ASSUME NEW m \in Nat, NEW n \in Nat, 1..m = 1..n
    PROVE  m = n
<1>1. CASE m < n
  <2>1. n \in 1..n /\ n \notin 1..m BY <1>1
  <2> QED BY <2>1
<1>2. CASE n < m
  <2>1. m \in 1..m /\ m \notin 1..n BY <1>2
  <2> QED BY <2>1
<1> QED BY <1>1, <1>2

LEMMA Removal ==
    ASSUME NEW S, NEW s \in Seq(S), NEW i \in 1..Len(s)
    PROVE  /\ RemovedAt(s, i) \in Seq(S)
           /\ Len(RemovedAt(s, i)) = Len(s) - 1
           /\ \A j \in 1..Len(s) - 1 :
                RemovedAt(s, i)[j] = IF j < i THEN s[j] ELSE s[j + 1]
<1>1. Len(s) \in Nat /\ Len(s) - 1 \in Nat /\ s \in [1..Len(s) -> S]
  BY LenProperties
<1>2. RemovedAt(s, i) \in [1..Len(s) - 1 -> S]
  BY <1>1 DEF RemovedAt
<1>3. RemovedAt(s, i) \in Seq(S)
  BY <1>1, <1>2, SeqDef
<1>4. Len(RemovedAt(s, i)) = Len(s) - 1
  <2>1. DOMAIN RemovedAt(s, i) = 1..Len(s) - 1 BY <1>2
  <2>2. /\ Len(RemovedAt(s, i)) \in Nat
        /\ DOMAIN RemovedAt(s, i) = 1..Len(RemovedAt(s, i))
    BY <1>3, LenProperties
  <2> HIDE DEF RemovedAt
  <2> QED BY <2>1, <2>2, <1>1, SameInterval
<1> QED BY <1>1, <1>3, <1>4 DEF RemovedAt

LEMMA Appending ==
    ASSUME NEW S, NEW s \in Seq(S), NEW x \in S
    PROVE  /\ Append(s, x) \in Seq(S)
           /\ Len(s) \in Nat
           /\ Len(Append(s, x)) = Len(s) + 1
           /\ \A j \in 1..Len(s) + 1 :
                Append(s, x)[j] = IF j <= Len(s) THEN s[j] ELSE x
OBVIOUS

LEMMA Positions ==
    ASSUME NEW s, NEW t, \E i \in 1..Len(s) : s[i] = t
    PROVE  Position(s, t) \in 1..Len(s) /\ s[Position(s, t)] = t
BY DEF Position

-----------------------------------------------------------------------------
\* Taking a task off the list it points to.
LEMMA RemovingAgrees ==
    ASSUME NEW list \in ListType, NEW on \in OnType, Agree(list, on),
           NEW t \in Task, NEW l \in ListName, on[t] = l,
           NEW list2, NEW on2,
           list2 = [list EXCEPT ![l] = RemovedAt(@, Position(@, t))],
           on2 = [on EXCEPT ![t] = NoList]
    PROVE  list2 \in ListType /\ on2 \in OnType /\ Agree(list2, on2)
<1> DEFINE s == list[l]
           i == Position(s, t)
           r == RemovedAt(s, i)
<1>1. s \in Seq(Task) /\ Len(s) \in Nat
  BY LenProperties DEF ListType
<1>2. i \in 1..Len(s) /\ s[i] = t
  BY Positions, ListNames DEF Agree, OnTheirLists
<1>3. /\ r \in Seq(Task) /\ Len(r) = Len(s) - 1
      /\ \A j \in 1..Len(s) - 1 : r[j] = IF j < i THEN s[j] ELSE s[j + 1]
  BY <1>1, <1>2, Removal
<1>4. /\ list2 = [list EXCEPT ![l] = r]
      /\ list2 \in ListType /\ on2 \in OnType
      /\ list2[l] = r /\ on2[t] = NoList
      /\ \A m \in ListName : m # l => list2[m] = list[m]
      /\ \A v \in Task : v # t => on2[v] = on[v]
  BY <1>3 DEF ListType, OnType
<1> HIDE DEF s, i, r
<1>5. ASSUME NEW m \in ListName, NEW a \in 1..Len(list2[m]),
             NEW b \in 1..Len(list2[m]), list2[m][a] = list2[m][b]
      PROVE  a = b
  <2>1. CASE m # l BY <2>1, <1>4, <1>5 DEF Agree, NoRepeats
  <2>2. CASE m = l
    <3> DEFINE c == IF a < i THEN a ELSE a + 1
               d == IF b < i THEN b ELSE b + 1
    <3>1. a \in 1..Len(s) - 1 /\ b \in 1..Len(s) - 1 /\ r[a] = r[b]
      BY <2>2, <1>3, <1>4, <1>5
    <3>2. c \in 1..Len(s) /\ d \in 1..Len(s) /\ s[c] = s[d]
      BY <3>1, <1>1, <1>2, <1>3
    <3>3. c = d BY <3>2 DEF Agree, NoRepeats, s
    <3> QED BY <3>1, <3>3, <1>1, <1>2
  <2> QED BY <2>1, <2>2
<1>6. ASSUME NEW m \in ListName, NEW a \in 1..Len(list2[m])
      PROVE  on2[list2[m][a]] = m
  <2>1. CASE m # l
    <3>1. list[m] \in Seq(Task) /\ a \in 1..Len(list[m]) BY <2>1, <1>4 DEF ListType
    <3>2. list[m][a] \in Task /\ on[list[m][a]] = m
      BY <3>1, ElementOfSeq DEF Agree, PointBack
    <3> QED BY <3>2, <2>1, <1>4
  <2>2. CASE m = l
    <3> DEFINE c == IF a < i THEN a ELSE a + 1
    <3>0. a \in 1..Len(s) - 1 /\ list2[m][a] = r[a]
      BY <2>2, <1>3, <1>4
    <3>1. c \in 1..Len(s) /\ c # i /\ list2[m][a] = s[c]
      BY <3>0, <1>1, <1>2, <1>3
    <3>2. s[c] \in Task /\ s[c] # t
      BY <3>1, <1>1, <1>2, ElementOfSeq DEF Agree, NoRepeats, s
    <3>3. on[s[c]] = l BY <3>1 DEF Agree, PointBack, s
    <3> QED BY <3>1, <3>2, <3>3, <2>2, <1>4
  <2> QED BY <2>1, <2>2
<1>7. ASSUME NEW v \in Task, on2[v] # NoList
      PROVE  \E a \in 1..Len(list2[on2[v]]) : list2[on2[v]][a] = v
  <2>1. v # t /\ on2[v] = on[v] /\ on[v] \in ListName
    BY <1>4, <1>7 DEF OnType
  <2>2. PICK c \in 1..Len(list[on[v]]) : list[on[v]][c] = v
    BY <2>1, <1>7 DEF Agree, OnTheirLists
  <2>3. CASE on[v] # l BY <2>1, <2>2, <2>3, <1>4
  <2>4. CASE on[v] = l
    <3> DEFINE a == IF c < i THEN c ELSE c - 1
    <3>1. c \in 1..Len(s) /\ s[c] = v /\ c # i
      BY <2>1, <2>2, <2>4, <1>2 DEF s
    <3>2. a \in 1..Len(r) /\ r[a] = v BY <3>1, <1>1, <1>2, <1>3
    <3> QED BY <3>2, <2>1, <2>4, <1>4
  <2> QED BY <2>3, <2>4
<1> QED
  BY <1>4, <1>5, <1>6, <1>7 DEF Agree, NoRepeats, PointBack, OnTheirLists

\* Appending a task that points to no list.
LEMMA AppendingAgrees ==
    ASSUME NEW list \in ListType, NEW on \in OnType, Agree(list, on),
           NEW t \in Task, NEW l \in ListName, on[t] = NoList,
           NEW list2, NEW on2,
           list2 = [list EXCEPT ![l] = Append(@, t)],
           on2 = [on EXCEPT ![t] = l]
    PROVE  list2 \in ListType /\ on2 \in OnType /\ Agree(list2, on2)
<1> DEFINE s == list[l]
           r == Append(s, t)
<1>1. s \in Seq(Task)
  BY DEF ListType
<1>2. /\ r \in Seq(Task) /\ Len(s) \in Nat /\ Len(r) = Len(s) + 1
      /\ \A j \in 1..Len(s) + 1 : r[j] = IF j <= Len(s) THEN s[j] ELSE t
  BY <1>1, Appending
<1>3. /\ list2 = [list EXCEPT ![l] = r]
      /\ list2 \in ListType /\ on2 \in OnType
      /\ list2[l] = r /\ on2[t] = l
      /\ \A m \in ListName : m # l => list2[m] = list[m]
      /\ \A v \in Task : v # t => on2[v] = on[v]
  BY <1>2 DEF ListType, OnType
<1>4. ASSUME NEW m \in ListName, NEW a \in 1..Len(list[m])
      PROVE  list[m][a] \in Task /\ list[m][a] # t /\ on[list[m][a]] = m
  BY ElementOfSeq, ListNames DEF Agree, PointBack, ListType
<1> HIDE DEF s, r
<1>5. ASSUME NEW m \in ListName, NEW a \in 1..Len(list2[m]),
             NEW b \in 1..Len(list2[m]), list2[m][a] = list2[m][b]
      PROVE  a = b
  <2>1. CASE m # l BY <2>1, <1>3, <1>5 DEF Agree, NoRepeats
  <2>2. CASE m = l
    <3>1. \A j \in 1..Len(s) : s[j] # t BY <1>4 DEF s
    <3>2. \A c, d \in 1..Len(s) : s[c] = s[d] => c = d
      BY DEF Agree, NoRepeats, s
    <3> QED BY <3>1, <3>2, <2>2, <1>2, <1>3, <1>5
  <2> QED BY <2>1, <2>2
<1>6. ASSUME NEW m \in ListName, NEW a \in 1..Len(list2[m])
      PROVE  on2[list2[m][a]] = m
  <2>1. CASE m # l BY <2>1, <1>3, <1>4
  <2>2. CASE m = l
    <3>1. CASE a <= Len(s)
      <4>1. a \in 1..Len(s) /\ list2[m][a] = s[a] BY <3>1, <2>2, <1>2, <1>3
      <4> QED BY <4>1, <2>2, <1>3, <1>4 DEF s
    <3>2. CASE a > Len(s)
      <4>1. list2[m][a] = t BY <3>2, <2>2, <1>2, <1>3
      <4> QED BY <4>1, <2>2, <1>3
    <3> QED BY <3>1, <3>2, <1>2, <2>2, <1>3
  <2> QED BY <2>1, <2>2
<1>7. ASSUME NEW v \in Task, on2[v] # NoList
      PROVE  \E a \in 1..Len(list2[on2[v]]) : list2[on2[v]][a] = v
  <2>1. CASE v = t
    <3>1. r[Len(s) + 1] = t /\ Len(s) + 1 \in 1..Len(r) BY <1>2
    <3> QED BY <3>1, <2>1, <1>3
  <2>2. CASE v # t
    <3>1. on2[v] = on[v] /\ on[v] \in ListName BY <2>2, <1>3, <1>7 DEF OnType
    <3>2. PICK c \in 1..Len(list[on[v]]) : list[on[v]][c] = v
      BY <3>1, <1>7 DEF Agree, OnTheirLists
    <3>3. CASE on[v] # l BY <3>1, <3>2, <3>3, <1>3
    <3>4. CASE on[v] = l
      <4>1. c \in 1..Len(s) /\ s[c] = v BY <3>2, <3>4 DEF s
      <4>2. c \in 1..Len(r) /\ r[c] = v BY <4>1, <1>2
      <4> QED BY <4>2, <3>1, <3>4, <1>3
    <3> QED BY <3>3, <3>4
  <2> QED BY <2>1, <2>2
<1> QED
  BY <1>3, <1>5, <1>6, <1>7 DEF Agree, NoRepeats, PointBack, OnTheirLists

-----------------------------------------------------------------------------
\* The fields that moving a task between lists leaves alone.
SameFields(u, k) ==
    /\ u.state = k.state /\ u.prio = k.prio /\ u.sleep = k.sleep
    /\ u.cur = k.cur /\ u.next = k.next /\ u.qtl = k.qtl /\ u.tql = k.tql

\* tasks_unscheduleTask leaves the task on no list, and the others where they are.
LEMMA Unscheduling ==
    ASSUME NEW k, Queued(k), NEW t \in Task, NEW u, u = UnscheduleTask(k, t)
    PROVE  /\ Queued(u) /\ SameFields(u, k)
           /\ u.on = [k.on EXCEPT ![t] = NoList]
<1>1. /\ k \in KernelState /\ Agree(k.list, k.on)
      /\ k.list \in ListType /\ k.on \in OnType
  BY DEF Queued, QueuesAgree, KernelState, ListType, OnType
<1>2. CASE k.on[t] = NoList
  <2>1. u = k BY <1>2 DEF UnscheduleTask
  <2>2. k.on = [k.on EXCEPT ![t] = NoList] BY <1>1, <1>2 DEF OnType
  <2> QED BY <2>1, <2>2 DEF SameFields
<1>3. CASE k.on[t] # NoList
  <2> DEFINE l == k.on[t]
             list2 == [k.list EXCEPT ![l] = RemovedAt(@, Position(@, t))]
             on2 == [k.on EXCEPT ![t] = NoList]
  <2>1. l \in ListName BY <1>1, <1>3 DEF OnType
  <2>2. list2 \in ListType /\ on2 \in OnType /\ Agree(list2, on2)
    BY <1>1, <2>1, RemovingAgrees
  <2>3. u = [k EXCEPT !.list = list2, !.on = on2]
    BY <1>3 DEF UnscheduleTask
  <2> HIDE DEF list2, on2
  <2>4. u \in KernelState /\ SameFields(u, k) /\ u.list = list2 /\ u.on = on2
    BY <1>1, <2>2, <2>3 DEF KernelState, SameFields, ListType, OnType
  <2> QED BY <2>2, <2>4 DEF Queued, QueuesAgree, on2
<1> QED BY <1>2, <1>3

LEMMA Adding ==
    ASSUME NEW k, Queued(k), NEW t \in Task, k.on[t] = NoList,
           NEW l \in ListName
    PROVE  /\ Queued(ListAddBack(k, l, t)) /\ SameFields(ListAddBack(k, l, t), k)
           /\ ListAddBack(k, l, t).on = [k.on EXCEPT ![t] = l]
<1>0. PICK u : u = ListAddBack(k, l, t) OBVIOUS
<1> DEFINE list2 == [k.list EXCEPT ![l] = Append(@, t)]
           on2 == [k.on EXCEPT ![t] = l]
<1>1. /\ k \in KernelState /\ Agree(k.list, k.on)
      /\ k.list \in ListType /\ k.on \in OnType
  BY DEF Queued, QueuesAgree, KernelState, ListType, OnType
<1>2. list2 \in ListType /\ on2 \in OnType /\ Agree(list2, on2)
  BY <1>1, AppendingAgrees
<1>3. u = [k EXCEPT !.list = list2, !.on = on2]
  BY <1>0 DEF ListAddBack
<1> HIDE DEF list2, on2
<1>4. u \in KernelState /\ SameFields(u, k) /\ u.list = list2 /\ u.on = on2
  BY <1>1, <1>2, <1>3 DEF KernelState, SameFields, ListType, OnType
<1> QED BY <1>0, <1>2, <1>4 DEF Queued, QueuesAgree, on2

\* From kernel k to kernel u, task t moves to l, or gets priority p, and no other
\* task does.
Moves(u, k, t, l)   == u.on = [k.on EXCEPT ![t] = l]
Reranks(u, k, t, p) == u.prio = [k.prio EXCEPT ![t] = p]

\* The list tasks_scheduleTask puts a task of priority p on.
Target(s, p) == CASE s = "SUSPENDED" -> Suspended
                  [] s = "SLEEPING"  -> Sleeping
                  [] s = "READY"     -> Ready(p)
                  [] OTHER           -> NoList

LEMMA Scheduling ==
    ASSUME NEW k, Queued(k), NEW t \in Task, NEW s,
           NEW u, u = ScheduleTask(k, t, s)
    PROVE  /\ Queued(u) /\ SameFields(u, k)
           /\ u.on = [k.on EXCEPT ![t] = Target(s, k.prio[t])]
<1>0. PICK v : v = UnscheduleTask(k, t) OBVIOUS
<1>1. /\ Queued(v) /\ SameFields(v, k) /\ v.on = [k.on EXCEPT ![t] = NoList]
      /\ k.on \in OnType /\ v.on[t] = NoList
  <2>1. k.on \in OnType BY DEF Queued, KernelState, OnType
  <2>2. Queued(v) /\ SameFields(v, k) /\ v.on = [k.on EXCEPT ![t] = NoList]
    BY <1>0, Unscheduling
  <2> QED BY <2>1, <2>2 DEF OnType
<1>2. k.prio[t] \in 0..NumPriorities
  BY DEF Queued, KernelState
<1>3. Suspended \in ListName /\ Sleeping \in ListName
      /\ Ready(k.prio[t]) \in ListName
  BY <1>2, ListNames
<1>4. ASSUME NEW l \in ListName, u = ListAddBack(v, l, t)
      PROVE  Queued(u) /\ SameFields(u, k) /\ u.on = [k.on EXCEPT ![t] = l]
  <2>0. Queued(v) /\ v.on[t] = NoList /\ u = ListAddBack(v, l, t)
    BY <1>1, <1>4
  <2>1. Queued(u) /\ SameFields(u, v) /\ u.on = [v.on EXCEPT ![t] = l]
    BY <2>0, Adding
  <2> QED BY <2>1, <1>1 DEF SameFields, OnType
<1>5. CASE s = "SUSPENDED" BY <1>0, <1>3, <1>4, <1>5 DEF ScheduleTask, Target
<1>6. CASE s = "SLEEPING" BY <1>0, <1>3, <1>4, <1>6 DEF ScheduleTask, Target
<1>7. CASE s = "READY" BY <1>0, <1>3, <1>4, <1>7 DEF ScheduleTask, Target
<1>8. CASE s \notin {"SUSPENDED", "SLEEPING", "READY"}
  BY <1>0, <1>1, <1>8 DEF ScheduleTask, Target
<1> QED BY <1>5, <1>6, <1>7, <1>8

-----------------------------------------------------------------------------
\* Every task but t is where its state and priority say.
OthersAtHome(k, t) == \A v \in Task \ {t} : k.on[v] \in Home(k, v)

LEMMA HomeIsTarget ==
    ASSUME NEW k, NEW t \in Task, k.state[t] \in State, k.state[t] # "BLOCKED"
    PROVE  Home(k, t) = {Target(k.state[t], k.prio[t])}
BY DEF Home, Target, State

\* tasks_setTaskState puts the task where its new state says, if that is a state
\* with a list of its own.
LEMMA SettingState ==
    ASSUME NEW k, Queued(k), NEW t \in Task, NEW s \in State,
           NEW u, u = SetTaskState(k, t, s)
    PROVE  /\ Queued(u)
           /\ OthersAtHome(k, t) /\ s # "BLOCKED" => AtHome(u)
           /\ u.state = [k.state EXCEPT ![t] = s]
           /\ Moves(u, k, t, Target(s, k.prio[t]))
           /\ u.prio = k.prio
           /\ u.cur = k.cur /\ u.next = k.next /\ u.qtl = k.qtl /\ u.tql = k.tql
<1>0. PICK v : v = ScheduleTask(k, t, s) OBVIOUS
<1>1. u = SetTaskState(k, t, s) OBVIOUS
<1>2. /\ Queued(v) /\ SameFields(v, k)
      /\ v.on = [k.on EXCEPT ![t] = Target(s, k.prio[t])]
  BY <1>0, Scheduling
<1>3. PICK w : w = [v EXCEPT !.state = [v.state EXCEPT ![t] = s]] OBVIOUS
<1>4. /\ k \in KernelState /\ v \in KernelState /\ Agree(v.list, v.on)
      /\ s \in State
  BY <1>2 DEF Queued, QueuesAgree
<1>8. /\ w \in KernelState /\ w.list = v.list /\ w.on = v.on
      /\ w.state = [v.state EXCEPT ![t] = s] /\ w.prio = v.prio
      /\ w.sleep = v.sleep /\ w.cur = v.cur /\ w.next = v.next
      /\ w.qtl = v.qtl /\ w.tql = v.tql
  BY <1>3, <1>4 DEF KernelState
<1>9. u = w BY <1>0, <1>1, <1>3 DEF SetTaskState
<1>5. /\ u \in KernelState /\ u.list = v.list /\ u.on = v.on
      /\ u.state = [v.state EXCEPT ![t] = s] /\ u.prio = v.prio
      /\ u.sleep = v.sleep /\ u.cur = v.cur /\ u.next = v.next
      /\ u.qtl = v.qtl /\ u.tql = v.tql
  BY <1>9, <1>8
<1>6. ASSUME OthersAtHome(k, t), s # "BLOCKED" PROVE AtHome(u)
  <2> SUFFICES ASSUME NEW x \in Task PROVE u.on[x] \in Home(u, x)
    BY DEF AtHome
  <2>1. CASE x = t
    <3>1. u.state[x] = s /\ u.prio[x] = k.prio[t]
          /\ u.on[x] = Target(s, k.prio[t])
      BY <2>1, <1>2, <1>4, <1>5 DEF SameFields, KernelState
    <3> QED BY <3>1, <1>4, <1>6, HomeIsTarget
  <2>2. CASE x # t
    <3>1. u.state[x] = k.state[x] /\ u.prio[x] = k.prio[x] /\ u.on[x] = k.on[x]
      BY <2>2, <1>2, <1>4, <1>5 DEF SameFields, KernelState
    <3>2. k.on[x] \in Home(k, x) BY <2>2, <1>6 DEF OthersAtHome
    <3>3. Home(u, x) = Home(k, x) BY <3>1 DEF Home
    <3> QED BY <3>1, <3>2, <3>3
  <2> QED BY <2>1, <2>2
<1>7. Queued(u)
  BY <1>2, <1>4, <1>5 DEF Queued, QueuesAgree
<1> QED BY <1>1, <1>2, <1>5, <1>6, <1>7 DEF SameFields, Moves

\* tasks_setTaskPriority requeues a task; one that is blocked it takes off the
\* lock's list and puts on none.
LEMMA SettingPriority ==
    ASSUME NEW k, Queued(k), NEW t \in Task, NEW p \in 0..NumPriorities,
           NEW u, u = SetTaskPriority(k, t, p)
    PROVE  /\ Queued(u) /\ u.state = k.state
           /\ AtHome(k) /\ k.state[t] # "BLOCKED" => AtHome(u)
           /\ Reranks(u, k, t, p)
           /\ Moves(u, k, t, Target(k.state[t], p))
           /\ u.cur = k.cur /\ u.next = k.next /\ u.qtl = k.qtl /\ u.tql = k.tql
<1>0. Queued(k) /\ k \in KernelState /\ p <= NumPriorities
  BY TasksAssumption DEF Queued
<1>1. PICK v : v = UnscheduleTask(k, t) OBVIOUS
<1>2. PICK w : w = [v EXCEPT !.prio = [v.prio EXCEPT ![t] = p]] OBVIOUS
<1>4. u = SetTaskPriority(k, t, p) OBVIOUS
<1>3. u = ScheduleTask(w, t, k.state[t])
  BY <1>0, <1>1, <1>2, <1>4, TasksAssumption DEF SetTaskPriority
<1>5. Queued(v) /\ SameFields(v, k) /\ v.on = [k.on EXCEPT ![t] = NoList]
  BY <1>0, <1>1, Unscheduling
<1>6. /\ w \in KernelState /\ w.list = v.list /\ w.on = v.on
      /\ w.prio = [v.prio EXCEPT ![t] = p] /\ w.state = v.state
      /\ w.cur = v.cur /\ w.next = v.next /\ w.qtl = v.qtl /\ w.tql = v.tql
  BY <1>0, <1>2, <1>5 DEF Queued, KernelState
<1>7. Queued(w)
  BY <1>5, <1>6 DEF Queued, QueuesAgree
<1>8. /\ Queued(u) /\ SameFields(u, w)
      /\ u.on = [w.on EXCEPT ![t] = Target(k.state[t], w.prio[t])]
  BY <1>3, <1>7, Scheduling
<1>9. /\ u.state = k.state /\ u.prio = [k.prio EXCEPT ![t] = p]
      /\ u.cur = k.cur /\ u.next = k.next /\ u.qtl = k.qtl /\ u.tql = k.tql
      /\ u.on = [k.on EXCEPT ![t] = Target(k.state[t], p)]
  <2>1. k.on \in OnType /\ k.prio \in [Task -> 0..NumPriorities]
    BY <1>0 DEF KernelState, OnType
  <2>2. w.prio = [k.prio EXCEPT ![t] = p] /\ w.prio[t] = p
    BY <1>5, <1>6, <2>1 DEF SameFields
  <2>3. w.on = [k.on EXCEPT ![t] = NoList] BY <1>5, <1>6
  <2>4. u.on = [w.on EXCEPT ![t] = Target(k.state[t], p)] BY <1>8, <2>2
  <2>5. u.on = [k.on EXCEPT ![t] = Target(k.state[t], p)]
    BY <2>1, <2>3, <2>4 DEF OnType
  <2>6. /\ u.state = k.state /\ u.cur = k.cur /\ u.next = k.next
        /\ u.prio = w.prio /\ u.qtl = k.qtl /\ u.tql = k.tql
    BY <1>5, <1>6, <1>8 DEF SameFields
  <2> QED BY <2>2, <2>5, <2>6
<1>10. ASSUME AtHome(k), k.state[t] # "BLOCKED" PROVE AtHome(u)
  <2> SUFFICES ASSUME NEW x \in Task PROVE u.on[x] \in Home(u, x)
    BY DEF AtHome
  <2>1. CASE x = t
    <3>1. u.state[x] = k.state[t] /\ u.prio[x] = p
          /\ u.on[x] = Target(k.state[t], p)
      BY <2>1, <1>0, <1>9 DEF KernelState
    <3>2. k.state[t] \in State BY <1>0 DEF KernelState
    <3> QED BY <2>1, <3>1, <3>2, <1>10, HomeIsTarget
  <2>2. CASE x # t
    <3>1. u.state[x] = k.state[x] /\ u.prio[x] = k.prio[x] /\ u.on[x] = k.on[x]
      BY <2>2, <1>0, <1>9 DEF KernelState
    <3>2. k.on[x] \in Home(k, x) BY <1>10 DEF AtHome
    <3>3. Home(u, x) = Home(k, x) BY <3>1 DEF Home
    <3> QED BY <3>1, <3>2, <3>3
  <2> QED BY <2>1, <2>2
<1> QED BY <1>4, <1>8, <1>9, <1>10 DEF Moves, Reranks

-----------------------------------------------------------------------------
LEMMA LeastInSet ==
    ASSUME NEW S \in SUBSET Nat, S # {}
    PROVE  \E d \in S : \A e \in S : d <= e
<1>1. PICK d \in S : \A e \in S : <<e, d>> \notin OpToRel(<, Nat)
  BY NatLessThanWellFounded, WFMin
<1>2. \A e \in S : ~(e < d)
  BY <1>1 DEF OpToRel
<1> QED BY <1>2

LEMMA GreatestInSet ==
    ASSUME NEW n \in Nat, NEW S \in SUBSET (0..n), S # {}
    PROVE  \E d \in S : \A e \in S : d >= e
<1> DEFINE U == {j \in 0..n : n - j \in S}
<1>1. \A e \in S : n - e \in U OBVIOUS
<1>2. U \in SUBSET Nat /\ U # {}
  <2>1. U \subseteq Nat OBVIOUS
  <2>2. PICK e \in S : TRUE OBVIOUS
  <2>3. n - e \in U BY <1>1, <2>2
  <2> HIDE DEF U
  <2> QED BY <2>1, <2>3
<1>3. PICK m \in U : \A e \in U : m <= e BY <1>2, LeastInSet
<1>4. \A e \in S : m <= n - e BY <1>1, <1>3
<1>5. n - m \in S /\ \A e \in S : n - m >= e BY <1>3, <1>4
<1> QED BY <1>5

\* Tasks stay where they are, but for sleepers that are made ready.
OnlyWakes(u, k) ==
    \A t \in Task :
       \/ u.state[t] = k.state[t] /\ u.on[t] = k.on[t]
       \/ /\ k.on[t] = Sleeping
          /\ u.state[t] = "READY" /\ u.on[t] = Ready(k.prio[t])

\* tasks_tickSleeping only wakes tasks: it takes nobody else off its place, changes
\* no priority and dispatches nothing.
LEMMA Ticking ==
    ASSUME NEW k, Queued(k),
           NEW u, u = TickSleeping(k)
    PROVE  /\ Queued(u) /\ (AtHome(k) => AtHome(u)) /\ u.prio = k.prio
           /\ u.cur = k.cur /\ u.next = k.next /\ u.qtl = k.qtl /\ u.tql = k.tql
           /\ \A t \in Task : u.state[t] \in {k.state[t], "READY"}
           /\ OnlyWakes(u, k)
<1> DEFINE q    == k.list[Sleeping]
           due  == {i \in 1..Len(q) : k.sleep[q[i]] = 0}
           Seen(i) == \A d \in due : i < d
           sleep2 == [t \in Task |->
                       IF \E i \in 1..Len(q) : Seen(i) /\ q[i] = t
                       THEN k.sleep[t] - 1 ELSE k.sleep[t]]
<1>1. /\ k \in KernelState /\ Agree(k.list, k.on)
      /\ k.sleep \in [Task -> 0..MaxSleep]
  BY DEF Queued, QueuesAgree, KernelState
<1>2. q \in Seq(Task) /\ Len(q) \in Nat
  BY <1>1, ListNames, LenProperties DEF KernelState
<1>3. sleep2 \in [Task -> 0..MaxSleep]
  <2> SUFFICES ASSUME NEW t \in Task PROVE sleep2[t] \in 0..MaxSleep
    OBVIOUS
  <2>1. CASE \E i \in 1..Len(q) : Seen(i) /\ q[i] = t
    <3>1. PICK i \in 1..Len(q) : Seen(i) /\ q[i] = t BY <2>1
    <3>2. i \notin due BY <3>1, <1>2
    <3>3. k.sleep[t] # 0 BY <3>1, <3>2
    <3> QED BY <2>1, <3>3, <1>1, TasksAssumption
  <2>2. CASE ~\E i \in 1..Len(q) : Seen(i) /\ q[i] = t
    BY <2>2, <1>1
  <2> QED BY <2>1, <2>2
<1>4. PICK a : a = [k EXCEPT !.sleep = sleep2] OBVIOUS
<1>5. u = TickSleeping(k) OBVIOUS
<1>6. u = IF due = {} THEN a
          ELSE SetTaskState(a, q[CHOOSE d \in due : \A e \in due : d <= e],
                            "READY")
  BY <1>4, <1>5 DEF TickSleeping
<1> HIDE DEF sleep2, due, q
<1>7. /\ a \in KernelState /\ a.list = k.list /\ a.on = k.on
      /\ a.state = k.state /\ a.prio = k.prio
      /\ a.cur = k.cur /\ a.next = k.next /\ a.qtl = k.qtl /\ a.tql = k.tql
  BY <1>1, <1>3, <1>4 DEF KernelState
<1>8. Queued(a) /\ (AtHome(k) => AtHome(a))
  BY <1>1, <1>7 DEF Queued, QueuesAgree, AtHome, Home
<1>9. CASE due = {}
  BY <1>5, <1>6, <1>7, <1>8, <1>9 DEF OnlyWakes
<1>10. CASE due # {}
  <2> DEFINE d0 == CHOOSE d \in due : \A e \in due : d <= e
  <2>1. d0 \in due
    <3>1. due \subseteq Nat BY <1>2 DEF due
    <3>2. PICK n \in due : TRUE BY <1>10
    <3>3. \E d \in due : \A e \in due : d <= e
      BY <3>1, <3>2, LeastInSet
    <3> QED BY <3>3
  <2>2. d0 \in 1..Len(q) BY <2>1 DEF due
  <2> HIDE DEF d0
  <2>3. PICK t \in Task : t = q[d0] BY <2>2, <1>2, ElementOfSeq
  <2>9. k.on[t] = Sleeping
    BY <1>1, <2>2, <2>3, ListNames DEF Agree, PointBack, q
  <2>4. u = SetTaskState(a, t, "READY") BY <1>6, <1>10, <2>3 DEF d0
  <2>5. Queued(a) /\ (AtHome(k) => OthersAtHome(a, t))
    BY <1>8 DEF AtHome, OthersAtHome
  <2>6. "READY" \in State /\ "READY" # "BLOCKED" BY DEF State
  <2>7. /\ Queued(u) /\ (AtHome(k) => AtHome(u)) /\ u.state = [a.state EXCEPT ![t] = "READY"]
        /\ u.prio = a.prio /\ u.cur = a.cur /\ u.next = a.next
        /\ u.qtl = a.qtl /\ u.tql = a.tql
        /\ Moves(u, a, t, Target("READY", a.prio[t]))
    BY <2>4, <2>5, <2>6, SettingState
  <2>8. \A v \in Task : u.state[v] \in {k.state[v], "READY"}
    BY <2>7, <1>1, <1>7 DEF KernelState
  <2>10. OnlyWakes(u, k)
    <3>1. Target("READY", a.prio[t]) = Ready(k.prio[t]) BY <1>7 DEF Target
    <3>2. u.on = [k.on EXCEPT ![t] = Ready(k.prio[t])]
          /\ u.state = [k.state EXCEPT ![t] = "READY"]
      BY <2>7, <1>7, <3>1 DEF Moves
    <3>3. \A v \in Task \ {t} : u.state[v] = k.state[v] /\ u.on[v] = k.on[v]
      BY <3>2, <1>1 DEF KernelState
    <3>4. u.state[t] = "READY" /\ u.on[t] = Ready(k.prio[t])
      BY <3>2, <1>1 DEF KernelState
    <3> QED BY <2>9, <3>3, <3>4 DEF OnlyWakes
  <2> QED BY <2>7, <2>8, <2>10, <1>5, <1>7
<1> QED BY <1>9, <1>10

-----------------------------------------------------------------------------
\* A task is on a ready list.
Ranked(k, t) == \E p \in Priority : k.on[t] = Ready(p)

RankedTogether(k) == AtHome(k) /\ \A t \in Task : k.prio[t] \in Priority

\* tasks_search moves the task it picks to the back of its own list, with a new
\* quantum; the task is ready and no ready task outranks it.  It fails only if
\* every ready list is empty.
LEMMA Searching ==
    ASSUME NEW k, Queued(k),
           NEW u, u = Search(k)
    PROVE  /\ Queued(u) /\ (AtHome(k) => AtHome(u))
           /\ u.state = k.state /\ u.prio = k.prio /\ u.on = k.on
           /\ u.cur = k.cur /\ u.qtl = k.qtl
           /\ \/ u = k /\ \A t \in Task : ~Ranked(k, t)
              \/ /\ Ranked(k, u.next) /\ u.tql = TicksPerTask
                 /\ RankedTogether(k) => u.next \in Best(k)
<1> DEFINE ready == {p \in Priority : k.list[Ready(p)] # <<>>}
           top   == CHOOSE p \in ready : \A r \in ready : p >= r
           t     == Head(k.list[Ready(top)])
<1>1. /\ k \in KernelState /\ Queued(k) /\ Agree(k.list, k.on)
      /\ k.on \in OnType
  BY DEF Queued, QueuesAgree, KernelState, OnType
<1>2. u = Search(k) OBVIOUS
<1>3. CASE ready = {}
  <2>1. u = k BY <1>2, <1>3 DEF Search
  <2>2. ASSUME NEW x \in Task, NEW p \in Priority, k.on[x] = Ready(p)
        PROVE  FALSE
    <3>1. p \in 0..NumPriorities BY TasksAssumption DEF Priority
    <3>2. k.on[x] # NoList BY <2>2, <3>1, ListNames
    <3>3. \E i \in 1..Len(k.list[k.on[x]]) : k.list[k.on[x]][i] = x
      BY <1>1, <3>2 DEF Agree, OnTheirLists
    <3>4. k.list[Ready(p)] # <<>> BY <3>3, <2>2
    <3> QED BY <3>4, <1>3
  <2> QED BY <2>1, <2>2, <1>2 DEF Ranked
<1>4. CASE ready # {}
  <2>0. PICK v : v = UnscheduleTask(k, t) OBVIOUS
  <2>1. PICK w : w = ListAddBack(v, Ready(top), t) OBVIOUS
  <2>2. u = [w EXCEPT !.next = t, !.tql = TicksPerTask]
    BY <1>2, <1>4, <2>0, <2>1 DEF Search
  <2>3. top \in ready /\ \A r \in ready : top >= r
    <3>1. NumPriorities - 1 \in Nat /\ ready \in SUBSET (0..NumPriorities - 1)
      BY TasksAssumption DEF Priority
    <3>2. \E p \in ready : \A r \in ready : p >= r
      BY <3>1, <1>4, GreatestInSet
    <3> QED BY <3>2
  <2> HIDE DEF top
  <2>4. /\ top \in Priority /\ top \in 0..NumPriorities
        /\ Ready(top) \in ListName
        /\ k.list[Ready(top)] # <<>> /\ k.list[Ready(top)] \in Seq(Task)
    <3>1. top \in Priority /\ k.list[Ready(top)] # <<>> BY <2>3
    <3>2. top \in 0..NumPriorities BY <3>1, TasksAssumption DEF Priority
    <3>3. Ready(top) \in ListName BY <3>2, ListNames
    <3> QED BY <3>1, <3>2, <3>3, <1>1 DEF KernelState
  <2>5. /\ 1 \in 1..Len(k.list[Ready(top)]) /\ t = k.list[Ready(top)][1]
        /\ t \in Task
    BY <2>4
  <2>6. k.on[t] = Ready(top)
    BY <1>1, <2>4, <2>5 DEF Agree, PointBack
  <2> HIDE DEF t, ready
  <2>7. /\ Queued(v) /\ SameFields(v, k) /\ v.on = [k.on EXCEPT ![t] = NoList]
        /\ v.on[t] = NoList
    <3>1. Queued(v) /\ SameFields(v, k) /\ v.on = [k.on EXCEPT ![t] = NoList]
      BY <1>1, <2>0, <2>5, Unscheduling
    <3> QED BY <3>1, <1>1, <2>5 DEF OnType
  <2>8. Queued(w) /\ SameFields(w, v) /\ w.on = [v.on EXCEPT ![t] = Ready(top)]
    <3>1. PICK l \in ListName : l = Ready(top) BY <2>4
    <3>2. t \in Task /\ Queued(v) /\ v.on[t] = NoList BY <2>5, <2>7
    <3>3. w = ListAddBack(v, l, t) BY <2>1, <3>1
    <3>4. Queued(w) /\ SameFields(w, v) /\ w.on = [v.on EXCEPT ![t] = l]
      BY <3>2, <3>3, Adding
    <3> QED BY <3>1, <3>4
  <2>9. w.on = k.on
    BY <1>1, <2>5, <2>6, <2>7, <2>8 DEF OnType
  <2>10. /\ u \in KernelState /\ u.list = w.list /\ u.on = k.on
         /\ u.state = k.state /\ u.prio = k.prio /\ u.cur = k.cur
         /\ u.qtl = k.qtl /\ u.next = t /\ u.tql = TicksPerTask
    <3>1. w \in KernelState /\ SameFields(w, k)
      BY <2>7, <2>8 DEF Queued, SameFields
    <3>2. TicksPerTask \in 0..TicksPerTask BY TasksAssumption
    <3>3. /\ u \in KernelState /\ u.list = w.list /\ u.on = w.on
          /\ u.state = w.state /\ u.prio = w.prio /\ u.cur = w.cur
          /\ u.qtl = w.qtl /\ u.next = t /\ u.tql = TicksPerTask
      BY <2>2, <2>5, <3>1, <3>2 DEF KernelState
    <3> QED BY <2>9, <3>1, <3>3 DEF SameFields
  <2>11. Queued(u) /\ (AtHome(k) => AtHome(u))
    BY <1>1, <2>8, <2>9, <2>10
       DEF Queued, QueuesAgree, AtHome, Home
  <2>13. Ranked(k, t) BY <2>4, <2>6 DEF Ranked
  <2>12. ASSUME AtHome(k), \A x \in Task : k.prio[x] \in Priority PROVE t \in Best(k)
    <3>1. ASSUME NEW x \in Task, k.on[x] = Ready(k.prio[x])
          PROVE  k.prio[x] \in ready
      <4>1. k.prio[x] \in Priority /\ k.on[x] \in ListName
        <5>1. k.prio[x] \in Priority BY <2>12
        <5>2. k.prio[x] \in 0..NumPriorities
          BY <5>1, TasksAssumption DEF Priority
        <5> QED BY <5>1, <5>2, <3>1, ListNames
      <4>2. k.on[x] # NoList BY <4>1, ListNames
      <4>3. \E i \in 1..Len(k.list[k.on[x]]) : k.list[k.on[x]][i] = x
        BY <1>1, <4>2 DEF Agree, OnTheirLists
      <4>4. k.list[k.on[x]] # <<>> BY <4>3
      <4> QED BY <3>1, <4>1, <4>4 DEF ready
    <3>2. k.state[t] = "READY" /\ k.prio[t] = top
      <4>1. top < NumPriorities /\ top \in 0..NumPriorities
        BY <2>4, TasksAssumption DEF Priority
      <4>2. k.on[t] = <<"ready", top>> BY <2>6, <4>1 DEF Ready
      <4>3. k.prio[t] < NumPriorities /\ k.prio[t] \in 0..NumPriorities
        BY <2>5, <2>12, TasksAssumption DEF Priority
      <4>4. Ready(k.prio[t]) = <<"ready", k.prio[t]>> BY <4>3 DEF Ready
      <4>5. k.on[t] \in Home(k, t) BY <2>12, <2>5 DEF AtHome
      <4>6. k.state[t] \in State BY <1>1, <2>5 DEF KernelState
      <4>7. k.state[t] = "READY"
        <5>1. CASE k.state[t] = "BLOCKED"
          <6>1. \E l \in Lock : <<"ready", top>> = <<"blocked", l>>
            BY <5>1, <4>2, <4>5 DEF Home, Blocked
          <6> QED BY <6>1
        <5>2. CASE k.state[t] = "SLEEPING"
          BY <5>2, <4>2, <4>5 DEF Home, Sleeping
        <5>3. CASE k.state[t] = "SUSPENDED"
          BY <5>3, <4>2, <4>5 DEF Home, Suspended
        <5>4. CASE k.state[t] = "UNINIT"
          BY <5>4, <4>2, <4>5 DEF Home, NoList
        <5> QED BY <5>1, <5>2, <5>3, <5>4, <4>6 DEF State
      <4> QED BY <4>2, <4>4, <4>5, <4>7 DEF Home
    <3>3. ASSUME NEW x \in Task, k.state[x] = "READY" PROVE k.prio[x] <= k.prio[t]
      <4>0. k.on[x] = Ready(k.prio[x]) BY <2>12, <3>3 DEF AtHome, Home
      <4>1. k.prio[x] \in ready /\ k.prio[x] \in Priority
        BY <4>0, <3>1, <3>3, <2>12
      <4>2. top >= k.prio[x] BY <4>1, <2>3
      <4> QED BY <4>1, <4>2, <3>2, <2>4, TasksAssumption DEF Priority
    <3> QED BY <2>5, <3>2, <3>3 DEF Best
  <2> QED BY <1>2, <2>10, <2>11, <2>12, <2>13 DEF RankedTogether
<1> QED BY <1>3, <1>4

\* tasks_switchTask, up to the test of kCriticalNesting.
LEMMA CountingTick ==
    ASSUME NEW k, Queued(k),
           NEW u, u = CountTick(k)
    PROVE  /\ Queued(u) /\ (AtHome(k) => AtHome(u))
           /\ u.prio = k.prio /\ u.cur = k.cur /\ u.next = k.next
           /\ \A t \in Task : u.state[t] \in {k.state[t], "READY"}
           /\ OnlyWakes(u, k)
           /\ IF k.qtl # 0 THEN u.qtl = k.qtl - 1 /\ u.tql = k.tql
              ELSE /\ u.qtl = TickRate
                   /\ u.tql = IF k.tql > 0 THEN k.tql - 1 ELSE 0
<1>1. u = CountTick(k) OBVIOUS
<1>2. PICK v : v = TickSleeping(k) OBVIOUS
<1>3. k \in KernelState BY DEF Queued
<1>4. CASE k.qtl # 0
  <2>1. u = [k EXCEPT !.qtl = k.qtl - 1] BY <1>1, <1>4 DEF CountTick
  <2>2. k.qtl - 1 \in 0..TickRate
    BY <1>3, <1>4, TasksAssumption DEF KernelState
  <2>3. /\ u \in KernelState /\ u.list = k.list /\ u.on = k.on
        /\ u.state = k.state /\ u.prio = k.prio
        /\ u.cur = k.cur /\ u.next = k.next
        /\ u.qtl = k.qtl - 1 /\ u.tql = k.tql
    BY <1>3, <2>1, <2>2 DEF KernelState
  <2>4. Queued(u) /\ (AtHome(k) => AtHome(u))
    BY <2>3 DEF Queued, QueuesAgree, AtHome, Home
  <2> QED BY <1>1, <1>4, <2>3, <2>4 DEF OnlyWakes
<1>5. CASE k.qtl = 0
  <2> DEFINE left == IF v.tql > 0 THEN v.tql - 1 ELSE 0
  <2>1. u = [v EXCEPT !.qtl = TickRate, !.tql = left]
    BY <1>1, <1>2, <1>5 DEF CountTick
  <2>2. /\ Queued(v) /\ (AtHome(k) => AtHome(v))
        /\ v.prio = k.prio /\ v.cur = k.cur /\ v.next = k.next
        /\ v.tql = k.tql /\ OnlyWakes(v, k)
        /\ \A t \in Task : v.state[t] \in {k.state[t], "READY"}
    BY <1>2, Ticking
  <2>3. v \in KernelState BY <2>2 DEF Queued
  <2>4. left \in 0..TicksPerTask /\ TickRate \in 0..TickRate
    BY <2>3, TasksAssumption DEF KernelState
  <2>7. left = IF k.tql > 0 THEN k.tql - 1 ELSE 0 BY <2>2
  <2> HIDE DEF left
  <2>5. /\ u \in KernelState /\ u.list = v.list /\ u.on = v.on
        /\ u.state = v.state /\ u.prio = v.prio
        /\ u.cur = v.cur /\ u.next = v.next
        /\ u.qtl = TickRate /\ u.tql = left
    BY <2>1, <2>3, <2>4 DEF KernelState
  <2>6. Queued(u) /\ (AtHome(k) => AtHome(u))
    BY <2>2, <2>5 DEF Queued, QueuesAgree, AtHome, Home
  <2>8. OnlyWakes(u, k) BY <2>2, <2>5 DEF OnlyWakes
  <2> QED BY <1>1, <1>5, <2>2, <2>5, <2>6, <2>7, <2>8
<1> QED BY <1>4, <1>5

\* The rest of tasks_switchTask: while the quantum of the task that was picked
\* last is not used up, that task is dispatched; afterwards one from the highest
\* ready list that is not empty.
LEMMA Dispatching ==
    ASSUME NEW k, Queued(k),
           NEW u, u = Dispatch(k)
    PROVE  /\ Queued(u) /\ (AtHome(k) => AtHome(u))
           /\ u.state = k.state /\ u.prio = k.prio /\ u.on = k.on
           /\ u.next = u.cur /\ u.qtl = k.qtl
           /\ \/ /\ u.cur = k.next /\ u.tql = k.tql
                 /\ k.tql = 0 => \A t \in Task : ~Ranked(k, t)
              \/ /\ k.tql = 0 /\ Ranked(k, u.cur) /\ u.tql = TicksPerTask
                 /\ RankedTogether(k) => u.cur \in Best(k)
<1>1. u = Dispatch(k) OBVIOUS
<1>2. PICK v : v = IF k.tql = 0 THEN Search(k) ELSE k OBVIOUS
<1>3. /\ Queued(v) /\ (AtHome(k) => AtHome(v))
      /\ v.state = k.state /\ v.prio = k.prio /\ v.on = k.on /\ v.qtl = k.qtl
      /\ \/ /\ v.next = k.next /\ v.tql = k.tql
            /\ k.tql = 0 => \A t \in Task : ~Ranked(k, t)
         \/ /\ k.tql = 0 /\ Ranked(k, v.next) /\ v.tql = TicksPerTask
            /\ RankedTogether(k) => v.next \in Best(k)
  <2>1. CASE k.tql = 0 BY <1>2, <2>1, Searching
  <2>2. CASE k.tql # 0 BY <1>2, <2>2
  <2> QED BY <2>1, <2>2
<1>4. u = [v EXCEPT !.cur = v.next] BY <1>1, <1>2 DEF Dispatch
<1>5. v \in KernelState BY <1>3 DEF Queued
<1>6. /\ u \in KernelState /\ u.list = v.list /\ u.on = v.on
      /\ u.state = v.state /\ u.prio = v.prio
      /\ u.cur = v.next /\ u.next = v.next
      /\ u.qtl = v.qtl /\ u.tql = v.tql
  BY <1>4, <1>5 DEF KernelState
<1>7. Queued(u) /\ (AtHome(k) => AtHome(u))
  BY <1>3, <1>6 DEF Queued, QueuesAgree, AtHome, Home
<1> QED BY <1>1, <1>3, <1>6, <1>7

StaysPut(u, k) == u.state = k.state /\ u.on = k.on

FallsAsleep(u, k) == /\ u.state = [k.state EXCEPT ![k.cur] = "SLEEPING"]
                     /\ Moves(u, k, k.cur, Sleeping)

\* The critical section of tasks_sleep ends the quantum, and puts the current task
\* to sleep if it is given a time.
LEMMA SleepingSection ==
    ASSUME NEW k, Queued(k), NEW n \in 0..MaxSleep,
           NEW u, u = SleepSection(k, n)
    PROVE  /\ Queued(u) /\ (AtHome(k) => AtHome(u)) /\ u.prio = k.prio
           /\ u.cur = k.cur /\ u.next = k.next /\ u.qtl = 0 /\ u.tql = 0
           /\ \A t \in Task : u.state[t] \in {k.state[t], "SLEEPING"}
           /\ IF n = 0 THEN StaysPut(u, k) ELSE FallsAsleep(u, k)
<1>1. u = SleepSection(k, n) OBVIOUS
<1>2. PICK z : z = [k EXCEPT !.tql = 0, !.qtl = 0] OBVIOUS
<1>3. PICK t : t = k.cur OBVIOUS
<1>4. PICK y : y = [z EXCEPT !.sleep = [z.sleep EXCEPT ![t] = n]] OBVIOUS
<1>5. k \in KernelState /\ t \in Task
  BY <1>3 DEF Queued, KernelState
<1>6. 0 \in 0..TickRate /\ 0 \in 0..TicksPerTask BY TasksAssumption
<1>7. /\ z \in KernelState /\ z.list = k.list /\ z.on = k.on
      /\ z.state = k.state /\ z.prio = k.prio
      /\ z.cur = k.cur /\ z.next = k.next /\ z.qtl = 0 /\ z.tql = 0
  BY <1>2, <1>5, <1>6 DEF KernelState
<1>8. Queued(z) /\ (AtHome(k) => AtHome(z))
  BY <1>7 DEF Queued, QueuesAgree, AtHome, Home
<1>9. CASE n = 0
  <2>1. u = z BY <1>1, <1>2, <1>9 DEF SleepSection
  <2> QED BY <2>1, <1>1, <1>7, <1>8, <1>9 DEF StaysPut
<1>10. CASE n # 0
  <2>1. u = SetTaskState(y, t, "SLEEPING")
    BY <1>1, <1>2, <1>3, <1>4, <1>7, <1>10 DEF SleepSection
  <2>2. /\ y \in KernelState /\ y.list = z.list /\ y.on = z.on
        /\ y.state = z.state /\ y.prio = z.prio
        /\ y.cur = z.cur /\ y.next = z.next /\ y.qtl = z.qtl /\ y.tql = z.tql
    BY <1>4, <1>7 DEF KernelState
  <2>3. Queued(y) /\ (AtHome(k) => OthersAtHome(y, t))
    BY <1>8, <2>2 DEF Queued, QueuesAgree, AtHome, Home, OthersAtHome
  <2>4. "SLEEPING" \in State /\ "SLEEPING" # "BLOCKED" BY DEF State
  <2>5. /\ Queued(u) /\ (AtHome(k) => AtHome(u))
        /\ u.state = [y.state EXCEPT ![t] = "SLEEPING"]
        /\ Moves(u, y, t, Target("SLEEPING", y.prio[t]))
        /\ u.prio = y.prio /\ u.cur = y.cur /\ u.next = y.next
        /\ u.qtl = y.qtl /\ u.tql = y.tql
    BY <1>5, <2>1, <2>3, <2>4, SettingState
  <2>6. \A v \in Task : u.state[v] \in {k.state[v], "SLEEPING"}
    <3>1. u.state = [k.state EXCEPT ![t] = "SLEEPING"] BY <1>7, <2>2, <2>5
    <3> QED BY <3>1, <1>5 DEF KernelState
  <2>7. /\ u.state = [k.state EXCEPT ![k.cur] = "SLEEPING"]
        /\ Moves(u, k, k.cur, Sleeping)
    <3>1. Target("SLEEPING", y.prio[t]) = Sleeping BY DEF Target
    <3> QED BY <3>1, <1>3, <1>7, <2>2, <2>5 DEF Moves
  <2> QED BY <1>1, <1>7, <1>10, <2>2, <2>5, <2>6, <2>7 DEF FallsAsleep
<1> QED BY <1>9, <1>10

\* The priority tasks_createTaskStatic gives a task.
Clipped(p) == IF p < NumPriorities THEN p ELSE NumPriorities - 1

\* A task is created on the ready list its clipped priority names.
LEMMA Creating ==
    ASSUME NEW k, Queued(k), NEW t \in Task, NEW p \in Nat,
           NEW u, u = CreateTask(k, t, p)
    PROVE  /\ Queued(u) /\ (AtHome(k) => AtHome(u))
           /\ u.cur = k.cur /\ u.next = k.next /\ u.qtl = k.qtl /\ u.tql = k.tql
           /\ \E c \in Priority : /\ c = Clipped(p)
                                  /\ Reranks(u, k, t, c) /\ Moves(u, k, t, Ready(c))
           /\ u.state = [k.state EXCEPT ![t] = "READY"]
<1> DEFINE c == Clipped(p)
<1>1. c \in Priority /\ c \in 0..NumPriorities
  BY TasksAssumption DEF Priority, Clipped
<1>2. u = CreateTask(k, t, p) OBVIOUS
<1>3. PICK y : y = [k EXCEPT !.prio = [k.prio EXCEPT ![t] = c]] OBVIOUS
<1>4. u = SetTaskState(y, t, "READY") BY <1>2, <1>3 DEF CreateTask, Clipped
<1>5. k \in KernelState BY DEF Queued
<1> HIDE DEF c
<1>6. /\ y \in KernelState /\ y.list = k.list /\ y.on = k.on
      /\ y.state = k.state /\ y.prio = [k.prio EXCEPT ![t] = c]
      /\ y.cur = k.cur /\ y.next = k.next /\ y.qtl = k.qtl /\ y.tql = k.tql
  BY <1>1, <1>3, <1>5 DEF KernelState
<1>7. Queued(y) BY <1>6 DEF Queued, QueuesAgree
<1>8. ASSUME AtHome(k) PROVE OthersAtHome(y, t)
  <2> SUFFICES ASSUME NEW v \in Task \ {t} PROVE y.on[v] \in Home(y, v)
    BY DEF OthersAtHome
  <2>1. y.prio[v] = k.prio[v] /\ y.state[v] = k.state[v] /\ y.on[v] = k.on[v]
    BY <1>5, <1>6 DEF KernelState
  <2>2. k.on[v] \in Home(k, v) BY <1>8 DEF AtHome
  <2> QED BY <2>1, <2>2 DEF Home
<1>9. "READY" \in State /\ "READY" # "BLOCKED" BY DEF State
<1>10. /\ Queued(u) /\ (AtHome(k) => AtHome(u))
       /\ u.state = [y.state EXCEPT ![t] = "READY"]
       /\ Moves(u, y, t, Target("READY", y.prio[t]))
       /\ u.prio = y.prio /\ u.cur = y.cur /\ u.next = y.next
       /\ u.qtl = y.qtl /\ u.tql = y.tql
  BY <1>4, <1>7, <1>8, <1>9, SettingState
<1>11. Moves(u, k, t, Ready(c))
  <2>1. y.prio[t] = c BY <1>5, <1>6 DEF KernelState
  <2> QED BY <2>1, <1>6, <1>10 DEF Target, Moves
<1>12. Reranks(u, k, t, c) BY <1>6, <1>10 DEF Reranks
<1>13. c = Clipped(p) BY DEF c
<1> QED BY <1>1, <1>6, <1>10, <1>11, <1>12, <1>13

LEMMA InitialConsistent ==
    /\ Queued(InitialKernel) /\ AtHome(InitialKernel)
    /\ InitialKernel.next = InitialKernel.cur
    /\ \A t \in Task : InitialKernel.state[t] # "BLOCKED"
    /\ InitialKernel.state[Idle] # "UNINIT"
    /\ \A t \in Task : InitialKernel.prio[t] \in Priority
    /\ InitialKernel.state[Idle] = "READY" /\ InitialKernel.on[Idle] = Ready(0)
    /\ \A t \in Task : InitialKernel.on[t] \in {Ready(0), NoList}
    /\ InitialKernel.cur = Idle /\ InitialKernel.tql = 0
<1> DEFINE list == [l \in ListName |-> IF l = Ready(0) THEN <<Idle>> ELSE <<>>]
           on   == [t \in Task |-> IF t = Idle THEN Ready(0) ELSE NoList]
<1>1. PICK k : k = InitialKernel OBVIOUS
<1>2. Ready(0) \in ListName /\ NoList \notin ListName /\ Idle \in Task
  BY ListNames, TasksAssumption
<1>3. /\ k.list = list /\ k.on = on
      /\ k.state = [t \in Task |-> IF t = Idle THEN "READY" ELSE "UNINIT"]
      /\ k.prio = [t \in Task |-> 0] /\ k.sleep = [t \in Task |-> 0]
      /\ k.cur = Idle /\ k.next = Idle /\ k.tql = 0
  BY <1>1 DEF InitialKernel
<1>4. list \in ListType /\ on \in OnType BY <1>2 DEF ListType, OnType
<1>5. k \in KernelState
  BY <1>1, <1>2, <1>4, TasksAssumption
     DEF InitialKernel, KernelState, ListType, OnType, State
<1>6. Agree(list, on)
  <2>1. ASSUME NEW l \in ListName, NEW i \in 1..Len(list[l])
        PROVE  i = 1 /\ list[l][i] = Idle /\ l = Ready(0)
    <3>1. l = Ready(0) BY <2>1
    <3>2. list[l] = <<Idle>> BY <3>1
    <3> QED BY <3>1, <3>2
  <2>2. NoRepeats(list) BY <2>1 DEF NoRepeats
  <2>3. PointBack(list, on) BY <1>2, <2>1 DEF PointBack
  <2>4. ASSUME NEW t \in Task, on[t] # NoList
        PROVE  \E i \in 1..Len(list[on[t]]) : list[on[t]][i] = t
    <3>1. t = Idle /\ on[t] = Ready(0) BY <2>4, <1>2
    <3>2. list[on[t]] = <<Idle>> BY <1>2, <3>1
    <3> QED BY <3>1, <3>2
  <2> QED BY <2>2, <2>3, <2>4 DEF Agree, OnTheirLists
<1>7. AtHome(k) BY <1>2, <1>3 DEF AtHome, Home
<1>8. /\ k.state[Idle] = "READY" /\ k.on[Idle] = Ready(0)
      /\ \A t \in Task : k.state[t] # "BLOCKED" /\ k.on[t] \in {Ready(0), NoList}
  BY <1>2, <1>3
<1>9. \A t \in Task : k.prio[t] \in Priority
  <2>1. 0 \in Priority BY TasksAssumption DEF Priority
  <2> QED BY <2>1, <1>3
<1> HIDE DEF list, on
<1> QED
  BY <1>1, <1>3, <1>5, <1>6, <1>7, <1>8, <1>9
     DEF Queued, QueuesAgree
=============================================================================
