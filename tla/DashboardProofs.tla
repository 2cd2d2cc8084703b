---------------------------- MODULE DashboardProofs ----------------------------
(***************************************************************************)
(* For any caps, ids, alerts and failures: the page never has two sockets,  *)
(* the newest statistics count every alert that was handled, the list is in *)
(* order and bounded, and only toasts that shared their id can stay.        *)
(***************************************************************************)
EXTENDS Dashboard, SequenceTheorems, FiniteSetTheorems, TLAPS

LinkInv ==
    /\ connecting \in Nat /\ open \in Nat /\ closing \in Nat /\ waiting \in Nat
    /\ OneConnection

\* Alerts are handled in their order, and each fetch was made for one of them.
FeedInv ==
    /\ total \in 0..MaxAlerts
    /\ queue \in Seq(1..MaxAlerts)
    /\ \A i \in 1..Len(queue) : seen < queue[i] /\ queue[i] <= total
    /\ \A i, j \in 1..Len(queue) : i < j => queue[i] < queue[j]
    /\ seen \in 0..total
    /\ fetches \in 0..seen

\* An answer to the newest fetch that is no error counts all that has been handled.
CardInv ==
    /\ requests \subseteq 1..fetches
    /\ answers \subseteq (1..fetches) \X (Undefined..total)
    /\ erred \subseteq 1..fetches
    /\ \A a \in answers : (a[1] = fetches /\ a[1] \notin erred) => a[2] >= seen
    /\ cards \in Undefined..total
    /\ applied \in 0..fetches
    /\ CardsCurrent

\* Toasts on the page with the same id have met each other.
ToastInv ==
    /\ container \in BOOLEAN
    /\ shown \in 0..MaxToasts
    /\ toasts \subseteq 1..shown
    /\ id \in [1..MaxToasts -> Ids]
    /\ armed \subseteq 1..shown
    /\ fading \subseteq 1..shown
    /\ collided \subseteq 1..shown
    /\ NoToastStays
    /\ \A t, u \in toasts : (t # u /\ id[t] = id[u]) => t \in collided

ListInv ==
    /\ list \in Seq(EmptyRow..MaxAlerts)
    /\ texts \in Nat
    /\ \A i \in 1..Len(list) : list[i] <= seen
    /\ NewestFirst

\* Only the template makes text nodes, and only a list that is short enough grows.
BoundInv ==
    /\ Len(list) <= Cap + texts
    /\ Cardinality(TextNodes(list)) <= texts

IInv ==
    /\ LinkInv
    /\ FeedInv
    /\ CardInv
    /\ ToastInv
    /\ ListInv
    /\ BoundInv
    /\ faults \in 0..MaxFaults

-----------------------------------------------------------------------------
(* Counting nodes.                                                           *)

\* A list is its elements and its text nodes.
LEMMA NodesCounted ==
    ASSUME NEW nodes, Len(nodes) \in Nat
    PROVE  /\ IsFiniteSet(TextNodes(nodes)) /\ Cardinality(TextNodes(nodes)) \in Nat
           /\ Cardinality(Elements(nodes)) \in Nat /\ Cardinality(Rows(nodes)) \in Nat
           /\ Cardinality(Rows(nodes)) <= Len(nodes)
           /\ Len(nodes) = Cardinality(Elements(nodes)) + Cardinality(TextNodes(nodes))
<1> DEFINE places == 1..Len(nodes)
<1>0. 1 \in Int /\ Len(nodes) \in Int /\ (1 > Len(nodes) => Len(nodes) = 0)
    OBVIOUS
<1>i. /\ IsFiniteSet(places)
      /\ Cardinality(places) = IF 1 > Len(nodes) THEN 0 ELSE Len(nodes) - 1 + 1
    BY <1>0, FS_Interval, Zenon
<1>1. IsFiniteSet(places) /\ Cardinality(places) = Len(nodes)
    BY <1>0, <1>i
<1>2. TextNodes(nodes) \in SUBSET places /\ Rows(nodes) \in SUBSET places
    BY DEF TextNodes, Rows
<1>3. IsFiniteSet(TextNodes(nodes)) /\ IsFiniteSet(Rows(nodes)) /\ Cardinality(Rows(nodes)) <= Len(nodes)
    BY <1>1, <1>2, FS_Subset
<1>4. Cardinality(TextNodes(nodes)) \in Nat /\ Cardinality(Rows(nodes)) \in Nat
    BY <1>3, FS_CardinalityType
<1>5. Elements(nodes) = places \ TextNodes(nodes) /\ places \cap TextNodes(nodes) = TextNodes(nodes)
    BY DEF Elements, TextNodes
<1>6. IsFiniteSet(Elements(nodes)) /\ Cardinality(Elements(nodes)) = Len(nodes) - Cardinality(TextNodes(nodes))
    BY <1>1, <1>5, FS_Difference
<1>7. Cardinality(Elements(nodes)) \in Nat
    BY <1>6, FS_CardinalityType
<1> QED
    BY <1>3, <1>4, <1>6, <1>7

\* A row put first moves the text nodes one place on.
LEMMA TextNodesShift ==
    ASSUME NEW nodes, Len(nodes) \in Nat, NEW new, Len(new) = Len(nodes) + 1,
           new[1] # Text, \A i \in 1..Len(nodes) : new[i + 1] = nodes[i]
    PROVE  Cardinality(TextNodes(new)) <= Cardinality(TextNodes(nodes))
<1> DEFINE old == TextNodes(nodes)
           f == [i \in old |-> i + 1]
<1>1. \A i \in old : i \in 1..Len(nodes) /\ nodes[i] = Text
    BY DEF TextNodes
<1>2. \A i \in old : i + 1 \in TextNodes(new)
    BY <1>1 DEF TextNodes
<1>3. ASSUME NEW j \in TextNodes(new) PROVE \E i \in old : f[i] = j
  <2>1. j \in 1..(Len(nodes) + 1) /\ new[j] = Text /\ j # 1
    BY DEF TextNodes
  <2>2. j - 1 \in 1..Len(nodes) /\ (j - 1) + 1 = j
    BY <2>1
  <2>3. nodes[j - 1] = Text
    BY <2>1, <2>2
  <2>4. j - 1 \in old
    BY <2>2, <2>3 DEF TextNodes
  <2> QED
    BY <2>2, <2>4
<1>4. f \in Surjection(old, TextNodes(new))
    BY <1>2, <1>3 DEF Surjection
<1>5. IsFiniteSet(old)
    BY NodesCounted
<1> HIDE DEF f
<1> QED
    BY <1>4, <1>5, FS_Surjection

\* A list without its last node has no more text nodes.
LEMMA TextNodesOfPrefix ==
    ASSUME NEW nodes, Len(nodes) \in Nat, NEW new, Len(new) \in Nat, Len(new) <= Len(nodes),
           \A i \in 1..Len(new) : new[i] = nodes[i]
    PROVE  Cardinality(TextNodes(new)) <= Cardinality(TextNodes(nodes))
<1>1. TextNodes(new) \in SUBSET TextNodes(nodes)
    BY DEF TextNodes
<1> QED
    BY <1>1, NodesCounted, FS_Subset

\* A rendered table of n rows has at most n + 1 text nodes.
LEMMA TextNodesRendered ==
    ASSUME NEW n \in Nat, NEW nodes, Len(nodes) = 2 * n + 1,
           \A i \in 1..Len(nodes) : nodes[i] = Text => i % 2 = 1
    PROVE  Cardinality(TextNodes(nodes)) <= n + 1
<1> DEFINE S == {i \in 1..(2 * n + 1) : i % 2 = 1}
           f == [k \in 1..(n + 1) |-> 2 * k - 1]
<1>1. \A k \in 1..(n + 1) : 2 * k - 1 \in S
  <2> TAKE k \in 1..(n + 1)
  <2>1. (2 * k - 1) % 2 = 1 /\ 2 * k - 1 \in 1..(2 * n + 1)
    OBVIOUS
  <2> QED
    BY <2>1
<1>2. \A i \in S : \E k \in 1..(n + 1) : f[k] = i
  <2> TAKE i \in S
  <2>1. i \in 1..(2 * n + 1) /\ i = 2 * (i \div 2) + 1
    OBVIOUS
  <2>2. i \div 2 + 1 \in 1..(n + 1) /\ 2 * (i \div 2 + 1) - 1 = i
    BY <2>1
  <2> WITNESS i \div 2 + 1 \in 1..(n + 1)
  <2> QED
    BY <2>2
<1>3. f \in Surjection(1..(n + 1), S)
    BY <1>1, <1>2 DEF Surjection
<1>4. IsFiniteSet(1..(n + 1)) /\ Cardinality(1..(n + 1)) = n + 1
    BY FS_Interval
<1> HIDE DEF f
<1>5. IsFiniteSet(S) /\ Cardinality(S) <= n + 1
    BY <1>3, <1>4, FS_Surjection
<1>6. TextNodes(nodes) \in SUBSET S
    BY DEF TextNodes
<1> HIDE DEF S
<1>7. Cardinality(TextNodes(nodes)) <= Cardinality(S) /\ IsFiniteSet(TextNodes(nodes))
    BY <1>5, <1>6, FS_Subset
<1> QED
    BY <1>5, <1>7, FS_CardinalityType

-----------------------------------------------------------------------------

LEMMA InitEstablishes == Init => IInv
<1> SUFFICES ASSUME Init PROVE IInv
    OBVIOUS
<1> USE DashboardAssumption
<1>1. LinkInv
    BY DEF Init, LinkInv, OneConnection
<1>2. total \in 0..MaxAlerts
    BY DEF Init
<1>3. FeedInv
    BY <1>2 DEF Init, FeedInv
<1>4. CardInv
    BY <1>2 DEF Init, CardInv, CardsCurrent, Undefined
<1>5. ToastInv
  <2>1. MaxToasts \in Nat
    BY DEF MaxToasts
  <2>2. (CHOOSE i \in Ids : TRUE) \in Ids
    OBVIOUS
  <2> QED
    BY <2>1, <2>2 DEF Init, ToastInv, NoToastStays
<1>6. ListInv
  <2>1. CASE total = 0
    <3>1. list = <<Text, EmptyRow, Text>>
      BY <2>1 DEF Init, Rendered
    <3>2. Text \in EmptyRow..MaxAlerts /\ EmptyRow \in EmptyRow..MaxAlerts
      BY DEF Text, EmptyRow
    <3>3. texts \in Nat
      BY <2>1 DEF Init
    <3>4. \A i \in 1..Len(list) : list[i] <= seen /\ ~IsRow(list[i])
      BY <2>1, <3>1 DEF Init, IsRow, Text, EmptyRow
    <3> QED
      BY <3>1, <3>2, <3>3, <3>4 DEF ListInv, NewestFirst
  <2>2. CASE total # 0
    <3>1. list = [i \in 1..(2 * total + 1) |-> IF i % 2 = 0 THEN total + 1 - i \div 2 ELSE Text]
      BY <2>2 DEF Init, Rendered
    <3>2. ASSUME NEW i \in 1..(2 * total + 1)
          PROVE (IF i % 2 = 0 THEN total + 1 - i \div 2 ELSE Text) \in EmptyRow..MaxAlerts
      <4>1. i \div 2 \in 0..total /\ (i % 2 = 0 => i \div 2 >= 1)
        BY <1>2
      <4> QED
        BY <1>2, <4>1 DEF Text, EmptyRow
    <3>3. 2 * total + 1 \in Nat /\ texts \in Nat
      BY <1>2, <2>2 DEF Init
    <3>4. list \in [1..(2 * total + 1) -> EmptyRow..MaxAlerts]
      BY <3>1, <3>2
    <3>5. list \in Seq(EmptyRow..MaxAlerts) /\ Len(list) = 2 * total + 1
      <4> DEFINE m == 2 * total + 1
      <4>1. m \in Nat /\ list \in [1..m -> EmptyRow..MaxAlerts]
        BY <3>3, <3>4
      <4> HIDE DEF m
      <4>2. list \in Seq(EmptyRow..MaxAlerts) /\ DOMAIN list = 1..m
        BY <4>1, SeqDef
      <4>3. Len(list) \in Nat /\ DOMAIN list = 1..Len(list)
        BY <4>2, LenProperties
      <4>4. Len(list) = m
        BY <4>1, <4>2, <4>3
      <4> QED
        BY <4>2, <4>4 DEF m
    <3>6. ASSUME NEW i \in 1..Len(list), IsRow(list[i]) PROVE i % 2 = 0 /\ list[i] = total + 1 - i \div 2
      <4>1. list[i] = IF i % 2 = 0 THEN total + 1 - i \div 2 ELSE Text
        BY <3>1, <3>5
      <4> QED
        BY <3>6, <4>1 DEF IsRow, Text
    <3>7. \A i \in 1..Len(list) : list[i] <= seen
      <4> TAKE i \in 1..Len(list)
      <4>1. i % 2 = 0 => i \div 2 >= 1
        BY <3>5, <1>2
      <4>2. list[i] = IF i % 2 = 0 THEN total + 1 - i \div 2 ELSE Text
        BY <3>1, <3>5
      <4>3. seen = total
        BY DEF Init
      <4> QED
        BY <1>2, <3>5, <4>1, <4>2, <4>3 DEF Text
    <3>8. NewestFirst
      <4> SUFFICES ASSUME NEW i \in 1..Len(list), NEW j \in 1..Len(list), i < j, IsRow(list[i]), IsRow(list[j])
                   PROVE  list[i] > list[j]
        BY DEF NewestFirst
      <4>1. i % 2 = 0 /\ j % 2 = 0 => i \div 2 < j \div 2
        BY <3>5, <1>2
      <4> QED
        BY <1>2, <3>5, <3>6, <4>1
    <3> QED
      BY <3>3, <3>5, <3>7, <3>8 DEF ListInv
  <2> QED
    BY <2>1, <2>2
<1>7. BoundInv
  <2>1. CASE total = 0
    <3>1. list = <<Text, EmptyRow, Text>> /\ texts = 2 /\ Len(list) = 3
      BY <2>1 DEF Init, Rendered
    <3>2. \A i \in 1..Len(list) : list[i] = Text => i % 2 = 1
      BY <3>1 DEF Text, EmptyRow
    <3>3. Len(list) = 2 * 1 + 1 /\ 1 \in Nat
      BY <3>1
    <3>4. Cardinality(TextNodes(list)) <= 1 + 1
      BY <3>2, <3>3, TextNodesRendered
    <3> QED
      BY <3>1, <3>4, DashboardAssumption DEF BoundInv
  <2>2. CASE total # 0
    <3>1. list = [i \in 1..(2 * total + 1) |-> IF i % 2 = 0 THEN total + 1 - i \div 2 ELSE Text]
      BY <2>2 DEF Init, Rendered
    <3>2. texts = total + 1 /\ total <= Cap /\ total \in Nat
      BY <2>2, <1>2 DEF Init
    <3>3. Len(list) = 2 * total + 1
      <4> DEFINE m == 2 * total + 1
      <4>1. m \in Nat /\ DOMAIN list = 1..m
        BY <3>1, <3>2
      <4> HIDE DEF m
      <4>2. Len(list) \in Nat /\ DOMAIN list = 1..Len(list)
        BY <1>6, LenProperties DEF ListInv
      <4>3. Len(list) = m
        BY <4>1, <4>2
      <4> QED
        BY <4>3 DEF m
    <3>4. ASSUME NEW i \in 1..Len(list), list[i] = Text PROVE i % 2 = 1
      <4>1. list[i] = IF i % 2 = 0 THEN total + 1 - i \div 2 ELSE Text
        BY <3>1, <3>3
      <4>2. total + 1 - i \div 2 > 0
        BY <3>2, <3>3
      <4>3. i % 2 \in 0..1
        BY <3>2, <3>3
      <4> QED
        BY <3>4, <4>1, <4>2, <4>3 DEF Text
    <3>5. Cardinality(TextNodes(list)) <= total + 1
      BY <3>2, <3>3, <3>4, TextNodesRendered
    <3> QED
      BY <3>2, <3>3, <3>5 DEF BoundInv
  <2> QED
    BY <2>1, <2>2
<1>8. faults \in 0..MaxFaults
    BY DEF Init
<1> QED
    BY <1>1, <1>3, <1>4, <1>5, <1>6, <1>7, <1>8 DEF IInv

-----------------------------------------------------------------------------
(* The socket.                                                               *)

LEMMA LinkStep == IInv /\ [Next]_vars => LinkInv'
<1> SUFFICES ASSUME IInv, [Next]_vars PROVE LinkInv'
    OBVIOUS
<1> USE DEF IInv, LinkInv, OneConnection, linkVars
<1>1. CASE Open
    BY <1>1 DEF Open
<1>2. CASE Error
    BY <1>2 DEF Error, ErrorCloses
<1>3. CASE Break
    BY <1>3 DEF Break
<1>4. CASE Close
    BY <1>4 DEF Close, SetTimer
<1>5. CASE Reconnect
    BY <1>5 DEF Reconnect
<1>6. CASE UNCHANGED linkVars
    BY <1>6
<1> QED
    BY <1>1, <1>2, <1>3, <1>4, <1>5, <1>6
    DEF Next, Page, Failure, vars, NewAlert, Handle, Answer, RefreshCards, FetchFails, AnswerError, TimerRunsOff, Remove, ClickClose

-----------------------------------------------------------------------------
(* Alerts, fetches and cards.                                                *)

LEMMA FeedStep == IInv /\ [Next]_vars => FeedInv'
<1> SUFFICES ASSUME IInv, [Next]_vars PROVE FeedInv'
    OBVIOUS
<1> USE DashboardAssumption DEF IInv, FeedInv
<1>1. CASE NewAlert
  <2>1. total' = total + 1 /\ total' \in 0..MaxAlerts /\ seen' = seen /\ fetches' = fetches
    BY <1>1 DEF NewAlert, cardVars
  <2>2. CASE queue' = queue
    BY <2>1, <2>2
  <2>3. CASE queue' = Append(queue, total + 1)
    <3>1. queue' \in Seq(1..MaxAlerts) /\ Len(queue') = Len(queue) + 1
      BY <2>1, <2>3
    <3>2. \A i \in 1..Len(queue) : queue'[i] = queue[i]
      BY <2>3
    <3>3. queue'[Len(queue) + 1] = total + 1
      BY <2>3
    <3>4. \A i \in 1..Len(queue') : i \in 1..Len(queue) \/ i = Len(queue) + 1
      BY <3>1
    <3>5. \A i \in 1..Len(queue') : seen < queue'[i] /\ queue'[i] <= total + 1
      BY <3>2, <3>3, <3>4
    <3>6. ASSUME NEW i \in 1..Len(queue'), NEW j \in 1..Len(queue'), i < j PROVE queue'[i] < queue'[j]
      <4>1. i \in 1..Len(queue) /\ Len(queue) \in Nat
        BY <3>1, <3>4, <3>6
      <4>2. CASE j \in 1..Len(queue)
        BY <3>2, <3>6, <4>1, <4>2
      <4>3. CASE j = Len(queue) + 1
        BY <3>2, <3>3, <4>1, <4>3
      <4> QED
        BY <3>4, <4>2, <4>3
    <3> QED
      BY <2>1, <3>1, <3>5, <3>6
  <2> QED
    BY <1>1, <2>2, <2>3 DEF NewAlert
<1>2. CASE Break
    BY <1>2 DEF Break, cardVars
<1>3. ASSUME NEW parses \in BOOLEAN, Handle(parses) PROVE FeedInv'
  <2>1. queue # <<>> /\ queue' = Tail(queue) /\ seen' = Head(queue) /\ total' = total /\ fetches' = fetches + 1
    BY <1>3 DEF Handle, Fetch
  <2>2. Len(queue) \in Nat \ {0} /\ Head(queue) = queue[1]
    BY <2>1
  <2>3. queue' \in Seq(1..MaxAlerts) /\ Len(queue') = Len(queue) - 1
    BY <2>1, <2>2
  <2>4. \A i \in 1..Len(queue') : queue'[i] = queue[i + 1]
    BY <2>1, <2>2
  <2>5. seen' \in 0..total' /\ seen < seen'
    BY <2>1, <2>2
  <2>6. \A i \in 1..Len(queue') : seen' < queue'[i] /\ queue'[i] <= total'
    BY <2>1, <2>2, <2>3, <2>4
  <2>7. ASSUME NEW i \in 1..Len(queue'), NEW j \in 1..Len(queue'), i < j PROVE queue'[i] < queue'[j]
    <3>1. i + 1 \in 1..Len(queue) /\ j + 1 \in 1..Len(queue) /\ i + 1 < j + 1
      BY <2>2, <2>3, <2>7
    <3> QED
      BY <2>4, <3>1
  <2> QED
    BY <2>1, <2>3, <2>5, <2>6, <2>7
<1>4. CASE UNCHANGED <<feedVars, fetches>>
    BY <1>4 DEF feedVars
<1> QED
    BY <1>1, <1>2, <1>3, <1>4
    DEF Next, Page, Failure, vars, feedVars, cardVars, Open, Error, Close, Reconnect, Answer, RefreshCards, FetchFails, AnswerError,
        TimerRunsOff, Remove, ClickClose

LEMMA CardStep == IInv /\ [Next]_vars => CardInv'
<1> SUFFICES ASSUME IInv, [Next]_vars PROVE CardInv'
    OBVIOUS
<1> USE DEF IInv, FeedInv, CardInv, CardsCurrent, Undefined
<1>1. CASE NewAlert
    BY <1>1 DEF NewAlert, cardVars
<1>2. CASE Break
    BY <1>2 DEF Break, cardVars
<1>3. ASSUME NEW parses \in BOOLEAN, Handle(parses) PROVE CardInv'
  <2>1. total' = total /\ UNCHANGED <<answers, cards, applied, erred>>
    BY <1>3 DEF Handle
  <2>2. fetches' = fetches + 1 /\ requests' = requests \cup {fetches + 1}
    BY <1>3 DEF Handle, Fetch
  <2> QED
    BY <2>1, <2>2
<1>4. ASSUME NEW f \in 1..MaxAlerts, Answer(f) PROVE CardInv'
    BY <1>4 DEF Answer, feedVars
<1>5. ASSUME NEW f \in 1..MaxAlerts, NEW n \in Undefined..MaxAlerts, RefreshCards(<<f, n>>) PROVE CardInv'
    BY <1>5 DEF RefreshCards, feedVars
<1>6. ASSUME NEW f \in 1..MaxAlerts, FetchFails(f) PROVE CardInv'
    BY <1>6 DEF FetchFails, feedVars
<1>7. ASSUME NEW f \in 1..MaxAlerts, AnswerError(f) PROVE CardInv'
    BY <1>7 DEF AnswerError, feedVars
<1>8. CASE UNCHANGED <<feedVars, cardVars>>
    BY <1>8 DEF feedVars, cardVars
<1> QED
    BY <1>1, <1>2, <1>3, <1>4, <1>5, <1>6, <1>7, <1>8
    DEF Next, Page, Failure, vars, Open, Error, Close, Reconnect, TimerRunsOff, Remove, ClickClose

-----------------------------------------------------------------------------
(* The toasts.                                                               *)

LEMMA Added == ASSUME ToastInv, NEW i \in Ids, AddToast(i) PROVE ToastInv'
<1> USE DashboardAssumption DEF ToastInv, NoToastStays
<1>1. /\ shown + 1 <= MaxToasts
      /\ shown' = shown + 1
      /\ toasts' = toasts \cup {shown + 1}
      /\ id' = [id EXCEPT ![shown + 1] = i]
      /\ armed' = armed \cup {shown + 1}
      /\ collided' = IF {t \in toasts : id[t] = i} = {} THEN collided
                     ELSE collided \cup {t \in toasts : id[t] = i} \cup {shown + 1}
      /\ UNCHANGED <<container, fading>>
    BY Zenon DEF AddToast, Arm
<1>2. MaxToasts \in Nat /\ shown' \in 0..MaxToasts
    BY <1>1 DEF MaxToasts
<1>3. id' \in [1..MaxToasts -> Ids] /\ id'[shown + 1] = i /\ \A t \in toasts : id'[t] = id[t]
    BY <1>1, <1>2
<1>4. toasts' \subseteq 1..shown' /\ armed' \subseteq 1..shown' /\ fading' \subseteq 1..shown'
    BY <1>1
<1>5. collided' \subseteq 1..shown' /\ collided \subseteq collided'
  <2>1. shown + 1 \in 1..shown' /\ 1..shown \subseteq 1..shown'
    BY <1>1
  <2>2. collided' = collided \/ collided' = collided \cup {t \in toasts : id[t] = i} \cup {shown + 1}
    BY <1>1
  <2> QED
    BY <2>1, <2>2
<1>6. NoToastStays'
    BY <1>1, <1>5
<1>7. ASSUME NEW t \in toasts', NEW u \in toasts', t # u, id'[t] = id'[u] PROVE t \in collided'
    BY <1>1, <1>3, <1>5, <1>7
<1>8. container' \in BOOLEAN
  <2>1. container' = container
    BY <1>1
  <2> QED
    BY <2>1, Zenon
<1> QED
    BY <1>2, <1>3, <1>4, <1>5, <1>6, <1>7, <1>8

LEMMA Shown == ASSUME ToastInv, ShowToast PROVE ToastInv'
<1>1. CASE UNCHANGED toastVars
    BY <1>1 DEF toastVars, ToastInv, NoToastStays
<1> QED
    BY <1>1, Added DEF ShowToast

LEMMA Removed == ASSUME ToastInv, NEW ts, Gone(ts), UNCHANGED <<shown, id, armed>> PROVE ToastInv'
    BY DEF ToastInv, NoToastStays, Gone

LEMMA ToastStep == IInv /\ [Next]_vars => ToastInv'
<1> SUFFICES ASSUME IInv, [Next]_vars PROVE ToastInv'
    OBVIOUS
<1> USE DEF IInv
<1>1. CASE Open
    BY <1>1, Shown DEF Open
<1>2. ASSUME NEW parses \in BOOLEAN, Handle(parses) PROVE ToastInv'
    BY <1>2, Shown DEF Handle
<1>3. ASSUME NEW n \in 1..MaxToasts, TimerRunsOff(n) PROVE ToastInv'
  <2> USE DEF ToastInv, NoToastStays
  <2>1. armed' = armed \ {n} /\ fading' = fading \cup Found(id[n]) /\ UNCHANGED <<container, shown, toasts, id, collided>>
    BY <1>3 DEF TimerRunsOff, Fade
  <2>2. fading' \subseteq 1..shown
    BY <2>1 DEF Found
  <2>3. (n \in toasts /\ n \notin collided) => n \in Found(id[n])
    BY DEF Found
  <2> QED
    BY <2>1, <2>2, <2>3
<1>4. ASSUME NEW n \in 1..MaxToasts, Remove(n) PROVE ToastInv'
    BY <1>4, Removed DEF Remove
<1>5. ASSUME NEW n \in 1..MaxToasts, ClickClose(n) PROVE ToastInv'
    BY <1>5, Removed DEF ClickClose
<1>6. CASE UNCHANGED toastVars
    BY <1>6 DEF toastVars, ToastInv, NoToastStays
<1> QED
    BY <1>1, <1>2, <1>3, <1>4, <1>5, <1>6
    DEF Next, Page, Failure, vars, NewAlert, Error, Break, Close, Reconnect, Answer, RefreshCards, FetchFails, AnswerError

-----------------------------------------------------------------------------
(* The list.                                                                 *)

LEMMA NodeIsNumber ==
    ASSUME NEW nodes \in Seq(EmptyRow..MaxAlerts), NEW i \in 1..Len(nodes)
    PROVE  nodes[i] \in EmptyRow..MaxAlerts /\ nodes[i] \in Int
<1>1. nodes[i] \in EmptyRow..MaxAlerts
    BY ElementOfSeq
<1> QED
    BY <1>1 DEF EmptyRow

\* A row that is newer than all others goes first, and the rest keeps its order.
LEMMA Inserted ==
    ASSUME NEW nodes \in Seq(EmptyRow..MaxAlerts), NEW n \in 1..MaxAlerts,
           \A i \in 1..Len(nodes) : nodes[i] < n,
           \A i, j \in 1..Len(nodes) :
               (i < j /\ IsRow(nodes[i]) /\ IsRow(nodes[j])) => nodes[i] > nodes[j],
           NEW new, new = Insert(nodes, n)
    PROVE  /\ new \in Seq(EmptyRow..MaxAlerts)
           /\ \A i \in 1..Len(new) : new[i] <= n
           /\ \A i, j \in 1..Len(new) : (i < j /\ IsRow(new[i]) /\ IsRow(new[j])) => new[i] > new[j]
<1> DEFINE longer == <<n>> \o nodes
<1>1. longer \in Seq(EmptyRow..MaxAlerts) /\ Len(longer) = Len(nodes) + 1 /\ Len(nodes) \in Nat
  <2>1. <<n>> \in Seq(EmptyRow..MaxAlerts) /\ Len(<<n>>) = 1
    BY DEF EmptyRow
  <2> QED
    BY <2>1, ConcatProperties
<1>2. \A i \in 1..Len(longer) : longer[i] = IF i = 1 THEN n ELSE nodes[i - 1]
    BY <1>1
<1>3. new = longer \/ new = SubSeq(longer, 1, Len(longer) - 1)
    BY DEF Insert
<1>4. new \in Seq(EmptyRow..MaxAlerts) /\ Len(new) <= Len(longer) /\ \A i \in 1..Len(new) : new[i] = longer[i]
  <2> HIDE DEF longer
  <2>1. CASE new = longer
    BY <1>1, <2>1
  <2>2. CASE new = SubSeq(longer, 1, Len(longer) - 1)
    <3>1. \A i \in 1..(Len(longer) - 1) : longer[i] \in EmptyRow..MaxAlerts
      BY <1>1, NodeIsNumber
    <3>2. 1 \in Int /\ Len(longer) - 1 \in Int /\ Len(longer) - 1 >= 0
      BY <1>1
    <3> QED
      BY <2>2, <3>1, <3>2, SubSeqProperties
  <2> QED
    BY <1>3, <2>1, <2>2
<1> HIDE DEF longer
<1>5. Len(new) \in Nat
    BY <1>4
<1>6. \A i \in 1..Len(new) : new[i] = IF i = 1 THEN n ELSE nodes[i - 1]
    BY <1>1, <1>2, <1>4, <1>5
<1>7. \A i \in 1..Len(new) : i # 1 => i - 1 \in 1..Len(nodes) /\ new[i] = nodes[i - 1]
    BY <1>1, <1>4, <1>5, <1>6
<1>8. \A i \in 1..Len(new) : new[i] <= n
  <2> TAKE i \in 1..Len(new)
  <2>1. n \in Int /\ new[i] \in Int
    BY <1>4, NodeIsNumber
  <2>2. i # 1 => new[i] < n
    BY <1>7
  <2> QED
    BY <1>6, <2>1, <2>2
<1>9. ASSUME NEW i \in 1..Len(new), NEW j \in 1..Len(new), i < j, IsRow(new[i]), IsRow(new[j])
      PROVE  new[i] > new[j]
  <2>1. new[j] = nodes[j - 1] /\ j - 1 \in 1..Len(nodes)
    BY <1>5, <1>7, <1>9
  <2>2. CASE i = 1
    BY <1>6, <2>1, <2>2
  <2>3. CASE i # 1
    <3>1. new[i] = nodes[i - 1] /\ i - 1 \in 1..Len(nodes) /\ i - 1 < j - 1
      BY <1>5, <1>7, <1>9, <2>3
    <3> QED
      BY <1>9, <2>1, <3>1
  <2> QED
    BY <2>2, <2>3
<1> QED
    BY <1>4, <1>8, <1>9

LEMMA ListStep == IInv /\ [Next]_vars => ListInv'
<1> SUFFICES ASSUME IInv, [Next]_vars PROVE ListInv'
    OBVIOUS
<1> USE DEF IInv
<1>1. ASSUME NEW parses \in BOOLEAN, Handle(parses) PROVE ListInv'
  <2> DEFINE nodes == IF HasEmptyRow THEN <<>> ELSE list
             n == Head(queue)
  <2>1. n \in 1..MaxAlerts /\ seen < n /\ seen \in Nat /\ seen' = n
    <3>1. queue # <<>> /\ seen' = n /\ queue \in Seq(1..MaxAlerts) /\ seen \in Nat
      BY <1>1 DEF Handle, FeedInv
    <3>2. n = queue[1] /\ Len(queue) \in Nat \ {0}
      BY <3>1, EmptySeq
    <3>3. 1 \in 1..Len(queue)
      BY <3>2
    <3>4. n \in 1..MaxAlerts
      <4>1. queue \in Seq(1..MaxAlerts)
        BY <3>1
      <4>2. queue[1] \in 1..MaxAlerts
        BY <3>3, <4>1, ElementOfSeq
      <4> QED
        BY <3>2, <4>2
    <3> QED
      BY <3>1, <3>2, <3>3, <3>4 DEF FeedInv
  <2>2. /\ nodes \in Seq(EmptyRow..MaxAlerts)
        /\ \A i \in 1..Len(nodes) : nodes[i] <= seen
        /\ \A i, j \in 1..Len(nodes) : (i < j /\ IsRow(nodes[i]) /\ IsRow(nodes[j])) => nodes[i] > nodes[j]
    <3>1. CASE HasEmptyRow
      BY <3>1
    <3>2. CASE ~HasEmptyRow
      BY <3>2 DEF ListInv, NewestFirst
    <3> QED
      BY <3>1, <3>2
  <2>3. texts' \in Nat
    BY <1>1 DEF Handle, AddRow, AddRowFails, ListInv
  <2>4. list' = Insert(nodes, n) \/ list' = nodes
    BY <1>1 DEF Handle, AddRow, AddRowFails
  <2> HIDE DEF nodes, n
  <2>5. \A i \in 1..Len(nodes) : nodes[i] < n
    <3>1. \A i \in 1..Len(nodes) : nodes[i] \in Int
      BY <2>2, NodeIsNumber
    <3> QED
      BY <2>1, <2>2, <3>1
  <2>6. CASE list' = Insert(nodes, n)
    BY <2>1, <2>2, <2>3, <2>5, <2>6, Inserted DEF ListInv, NewestFirst
  <2>7. CASE list' = nodes
    <3>1. \A i \in 1..Len(nodes) : nodes[i] <= n
      <4>1. \A i \in 1..Len(nodes) : nodes[i] \in Int
        BY <2>2, NodeIsNumber
      <4> QED
        BY <2>1, <2>5, <4>1
    <3> QED
      BY <2>1, <2>2, <2>3, <2>7, <3>1 DEF ListInv, NewestFirst
  <2> QED
    BY <2>4, <2>6, <2>7
<1>2. CASE UNCHANGED <<listVars, seen>>
    BY <1>2 DEF listVars, ListInv, NewestFirst
<1> QED
    BY <1>1, <1>2
    DEF Next, Page, Failure, vars, feedVars, listVars, Open, NewAlert, Error, Break, Close, Reconnect, Answer, RefreshCards,
        FetchFails, AnswerError, TimerRunsOff, Remove, ClickClose

\* A list within the bound stays within it: it grows only while its elements are no
\* more than Cap, and what it has beyond them are text nodes.
LEMMA InsertedBounded ==
    ASSUME NEW nodes \in Seq(EmptyRow..MaxAlerts), NEW n \in 1..MaxAlerts, NEW t \in Nat,
           Len(nodes) <= Cap + t, Cardinality(TextNodes(nodes)) <= t,
           NEW new, new = Insert(nodes, n)
    PROVE  Len(new) <= Cap + t /\ Cardinality(TextNodes(new)) <= t
<1> DEFINE longer == <<n>> \o nodes
<1>1. Len(longer) = Len(nodes) + 1 /\ Len(nodes) \in Nat /\ Cap \in Nat
  <2>1. <<n>> \in Seq(EmptyRow..MaxAlerts) /\ Len(<<n>>) = 1
    BY DEF EmptyRow
  <2> QED
    BY <2>1, ConcatProperties, DashboardAssumption
<1>2. longer[1] # Text /\ \A i \in 1..Len(nodes) : longer[i + 1] = nodes[i]
  <2>1. longer[1] = n
    BY <1>1
  <2>2. n # Text
    BY DEF Text
  <2> QED
    BY <1>1, <2>1, <2>2
<1>3. longer \in Seq(EmptyRow..MaxAlerts)
  <2>1. <<n>> \in Seq(EmptyRow..MaxAlerts)
    BY DEF EmptyRow
  <2> QED
    BY <2>1, ConcatProperties
<1>4. new = IF Cardinality(Elements(longer)) > Cap THEN SubSeq(longer, 1, Len(longer) - 1) ELSE longer
    BY DEF Insert
<1> HIDE DEF longer
<1>5. Cardinality(TextNodes(longer)) <= t /\ Cardinality(TextNodes(longer)) \in Nat
  <2>1. Cardinality(TextNodes(longer)) <= Cardinality(TextNodes(nodes))
    BY <1>1, <1>2, TextNodesShift
  <2>2. Cardinality(TextNodes(longer)) \in Nat /\ Cardinality(TextNodes(nodes)) \in Nat
    BY <1>1, NodesCounted
  <2> QED
    BY <2>1, <2>2
<1>6. CASE Cardinality(Elements(longer)) > Cap
  <2>1. new = SubSeq(longer, 1, Len(longer) - 1)
    BY <1>4, <1>6
  <2>2. \A i \in 1..(Len(longer) - 1) : longer[i] \in EmptyRow..MaxAlerts
    BY <1>1, <1>3, NodeIsNumber
  <2>3. 1 \in Int /\ Len(longer) - 1 \in Int /\ Len(longer) - 1 >= 0
    BY <1>1
  <2>4. Len(new) = Len(nodes) /\ \A i \in 1..Len(new) : new[i] = longer[i]
    BY <1>1, <2>1, <2>2, <2>3, SubSeqProperties
  <2>5. Cardinality(TextNodes(new)) <= Cardinality(TextNodes(longer))
    BY <1>1, <2>4, TextNodesOfPrefix
  <2>6. Cardinality(TextNodes(new)) \in Nat
    BY <1>1, <2>4, NodesCounted
  <2> QED
    BY <1>5, <2>4, <2>5, <2>6
<1>7. CASE ~(Cardinality(Elements(longer)) > Cap)
  <2>1. new = longer
    BY <1>4, <1>7
  <2>2. /\ Len(longer) = Cardinality(Elements(longer)) + Cardinality(TextNodes(longer))
        /\ Cardinality(Elements(longer)) \in Nat
    BY <1>1, NodesCounted
  <2>3. Len(longer) <= Cap + Cardinality(TextNodes(longer))
    BY <1>1, <1>5, <1>7, <2>2
  <2> QED
    BY <1>1, <1>5, <2>1, <2>3
<1> QED
    BY <1>6, <1>7

LEMMA BoundStep == IInv /\ [Next]_vars => BoundInv'
<1> SUFFICES ASSUME IInv, [Next]_vars PROVE BoundInv'
    OBVIOUS
<1> USE DEF IInv
<1>1. ASSUME NEW parses \in BOOLEAN, Handle(parses) PROVE BoundInv'
  <2> DEFINE nodes == IF HasEmptyRow THEN <<>> ELSE list
             n == Head(queue)
  <2>1. n \in 1..MaxAlerts
    <3>1. queue # <<>> /\ queue \in Seq(1..MaxAlerts)
      BY <1>1 DEF Handle, FeedInv
    <3> QED
      BY <3>1, HeadTailProperties
  <2>2. /\ nodes \in Seq(EmptyRow..MaxAlerts) /\ texts' \in Nat
        /\ Len(nodes) <= Cap + texts' /\ Cardinality(TextNodes(nodes)) <= texts'
    <3>1. CASE HasEmptyRow
      <4>1. nodes = <<>> /\ texts' = 0 /\ Len(nodes) = 0
        BY <1>1, <3>1 DEF Handle, AddRow, AddRowFails
      <4>2. TextNodes(nodes) = {}
        BY <4>1 DEF TextNodes
      <4>3. Cardinality(TextNodes(nodes)) = 0
        BY <4>2, FS_EmptySet
      <4>4. nodes \in Seq(EmptyRow..MaxAlerts)
        BY <3>1
      <4>5. Len(nodes) <= Cap + texts' /\ texts' \in Nat /\ Cardinality(TextNodes(nodes)) <= texts'
        <5> HIDE DEF nodes
        <5> QED
          BY <4>1, <4>3, DashboardAssumption
      <4> QED
        BY <4>4, <4>5
    <3>2. CASE ~HasEmptyRow
      <4>1. nodes = list /\ texts' = texts
        BY <1>1, <3>2 DEF Handle, AddRow, AddRowFails
      <4> QED
        BY <4>1 DEF ListInv, BoundInv
    <3> QED
      BY <3>1, <3>2
  <2>3. list' = Insert(nodes, n) \/ list' = nodes
    BY <1>1 DEF Handle, AddRow, AddRowFails
  <2> HIDE DEF nodes, n
  <2>4. CASE list' = Insert(nodes, n)
    BY <2>1, <2>2, <2>4, InsertedBounded DEF BoundInv
  <2>5. CASE list' = nodes
    BY <2>2, <2>5 DEF BoundInv
  <2> QED
    BY <2>3, <2>4, <2>5
<1>2. CASE UNCHANGED listVars
    BY <1>2 DEF listVars, BoundInv
<1> QED
    BY <1>1, <1>2
    DEF Next, Page, Failure, vars, Open, NewAlert, Error, Break, Close, Reconnect, Answer, RefreshCards,
        FetchFails, AnswerError, TimerRunsOff, Remove, ClickClose

LEMMA FaultStep == IInv /\ [Next]_vars => faults' \in 0..MaxFaults
<1> SUFFICES ASSUME IInv, [Next]_vars PROVE faults' \in 0..MaxFaults
    OBVIOUS
<1>1. faults' = faults \/ Fault
    BY DEF Next, Page, Failure, vars, Open, NewAlert, Error, Break, Close, Reconnect, Handle, Answer, RefreshCards,
           FetchFails, AnswerError, TimerRunsOff, Remove, ClickClose
<1> QED
    BY <1>1, DashboardAssumption DEF IInv, Fault

THEOREM Invariance == Spec => []IInv
<1>1. IInv /\ [Next]_vars => IInv'
    BY LinkStep, FeedStep, CardStep, ToastStep, ListStep, BoundStep, FaultStep DEF IInv
<1> QED
    BY InitEstablishes, <1>1, PTL DEF Spec

-----------------------------------------------------------------------------

\* Every variable keeps its type.
THEOREM TypeCorrect == Spec => []TypeOK
<1>1. IInv => TypeOK
  <2> SUFFICES ASSUME IInv PROVE TypeOK
    OBVIOUS
  <2>1. /\ connecting \in Nat /\ open \in Nat /\ closing \in Nat /\ waiting \in Nat
        /\ faults \in 0..MaxFaults
    BY DEF IInv, LinkInv
  <2>2. total \in 0..MaxAlerts /\ queue \in Seq(1..MaxAlerts) /\ seen \in 0..MaxAlerts /\ fetches \in 0..MaxAlerts
    BY DashboardAssumption DEF IInv, FeedInv
  <2>3. /\ requests \subseteq 1..MaxAlerts /\ answers \subseteq (1..MaxAlerts) \X (Undefined..MaxAlerts)
        /\ cards \in Undefined..MaxAlerts /\ applied \in 0..MaxAlerts /\ erred \subseteq 1..MaxAlerts
    BY <2>2, DashboardAssumption DEF IInv, FeedInv, CardInv, Undefined
  <2>4. /\ container \in BOOLEAN /\ shown \in 0..MaxToasts /\ toasts \subseteq 1..MaxToasts /\ id \in [1..MaxToasts -> Ids]
        /\ armed \subseteq 1..MaxToasts /\ fading \subseteq 1..MaxToasts /\ collided \subseteq 1..MaxToasts
    BY DashboardAssumption DEF IInv, ToastInv, MaxToasts
  <2>5. list \in Seq(EmptyRow..MaxAlerts) /\ texts \in Nat
    BY DEF IInv, ListInv
  <2> QED
    BY <2>1, <2>2, <2>3, <2>4, <2>5 DEF TypeOK
<1> QED
    BY Invariance, <1>1, PTL

\* connectWebSocket with its handlers: one socket or one timer, however it fails.
THEOREM NeverTwoConnections == Spec => []OneConnection
<1>1. IInv => OneConnection
    BY DEF IInv, LinkInv
<1> QED
    BY Invariance, <1>1, PTL

\* fetchStatsAndRefreshCards: with the answer to the newest fetch the cards count
\* every alert the page has handled, in whatever order answers came before, unless it
\* was an error in JSON.
THEOREM NewestAnswerCounts == Spec => []CardsCurrent
<1>1. IInv => CardsCurrent
    BY DEF IInv, CardInv
<1> QED
    BY Invariance, <1>1, PTL

\* addAlertToDashboardFeed and the template keep the newest alert on top.
THEOREM InOrder == Spec => []NewestFirst
<1>1. IInv => NewestFirst
    BY DEF IInv, ListInv
<1> QED
    BY Invariance, <1>1, PTL

\* addAlertToDashboardFeed: however many alerts come in, the list has no more rows
\* than the cap and one for each text node that the template has left in it.
THEOREM NeverTooLong == Spec => []ListBounded
<1>1. IInv => ListBounded
  <2> SUFFICES ASSUME IInv PROVE Cardinality(Rows(list)) <= Cap + texts
    BY DEF ListBounded
  <2>1. Len(list) \in Nat /\ texts \in Nat /\ Cap \in Nat /\ Len(list) <= Cap + texts
    BY DashboardAssumption DEF IInv, ListInv, BoundInv
  <2>2. Cardinality(Rows(list)) <= Len(list) /\ Cardinality(Rows(list)) \in Nat
    BY <2>1, NodesCounted
  <2> QED
    BY <2>1, <2>2
<1> QED
    BY Invariance, <1>1, PTL

\* showNotification: a toast that is left for good has shared its id with another.
THEOREM OnlyCollidedStay == Spec => []NoToastStays
<1>1. IInv => NoToastStays
    BY DEF IInv, ToastInv
<1> QED
    BY Invariance, <1>1, PTL

=============================================================================
