------------------------------ MODULE Dashboard ------------------------------
(***************************************************************************)
(* The dashboard's script (static/js/app.js) in one page: its WebSocket and *)
(* reconnection, and what it does with an alert that comes in: a toast, a   *)
(* fetch of the statistics for the cards, and a row in the list.            *)
(*                                                                         *)
(* Alerts are numbered in the order the backend broadcasts them.  The list  *)
(* is the sequence of the DOM nodes of the table's body: rows, the row that *)
(* says there is nothing, and the text nodes that the template leaves       *)
(* between rows.  The alert and the process table run the same code.        *)
(***************************************************************************)
EXTENDS Integers, Sequences, FiniteSets

CONSTANTS
    Cap,       \* 10 in the alert table, 50 in the process table
    Ids,       \* the numbers that the ids of toasts are drawn from
    MaxAlerts, \* bound: alerts
    MaxFaults  \* bound: connections, fetches and alerts that fail

ASSUME DashboardAssumption ==
    /\ Cap \in Nat \ {0}
    /\ Ids # {}
    /\ MaxAlerts \in Nat
    /\ MaxFaults \in Nat

VARIABLES
    connecting, \* how many sockets are connecting
    open,       \* how many are open
    closing,    \* how many have failed and are being closed
    waiting,    \* how many timers are set to connect again
    total,      \* the alerts the backend has
    queue,      \* the alerts on their way to the page
    seen,       \* the last alert that has been handled
    fetches,    \* how many fetches have been made
    requests,   \* those that the backend has still to answer
    answers,    \* the answers under way: fetch and number of alerts
    cards,      \* the number of alerts on the cards
    applied,    \* the fetch that the cards are from
    erred,      \* the fetches that were answered by an error (history)
    list,       \* the nodes of the list
    texts,      \* how many of them the template has left as text
    container,  \* has the page a place for toasts
    shown,      \* how many toasts there have been
    toasts,     \* the toasts on the page
    id,         \* id[n]: the id of toast n
    armed,      \* the toasts whose timer has not run off
    fading,     \* the toasts that are to be removed in 300 ms
    collided,   \* those that have met another one of their id on the page
    faults      \* how many failures have happened

linkVars  == <<connecting, open, closing, waiting>>
feedVars  == <<total, queue, seen>>
cardVars  == <<fetches, requests, answers, cards, applied, erred>>
listVars  == <<list, texts>>
toastVars == <<container, shown, toasts, id, armed, fading, collided>>
vars == <<linkVars, feedVars, cardVars, listVars, toastVars, faults>>

Text == 0
EmptyRow == -1
Undefined == -1
MaxToasts == MaxAlerts + MaxFaults + 1

Fault == faults < MaxFaults /\ faults' = faults + 1

\* The page as the template renders it: a text node on either side of each row.
Rendered(n) ==
    IF n = 0 THEN <<Text, EmptyRow, Text>>
    ELSE [i \in 1..(2 * n + 1) |-> IF i % 2 = 0 THEN n + 1 - i \div 2 ELSE Text]

Init ==
    /\ connecting = 1 /\ open = 0 /\ closing = 0 /\ waiting = 0
    /\ total \in {n \in 0..Cap : n <= MaxAlerts}
    /\ queue = <<>>
    /\ seen = total
    /\ fetches = 0 /\ requests = {} /\ answers = {}
    /\ cards = total /\ applied = 0 /\ erred = {}
    /\ list = Rendered(total)
    /\ texts = IF total = 0 THEN 2 ELSE total + 1
    /\ container \in BOOLEAN
    /\ shown = 0 /\ toasts = {} /\ armed = {} /\ fading = {} /\ collided = {}
    /\ id = [n \in 1..MaxToasts |-> CHOOSE i \in Ids : TRUE]
    /\ faults = 0

IsRow(node) == node > 0

\* The places of the elements (`children`), of the text nodes and of the rows.
Elements(nodes) == {i \in 1..Len(nodes) : nodes[i] # Text}
TextNodes(nodes) == {i \in 1..Len(nodes) : nodes[i] = Text}
Rows(nodes) == {i \in 1..Len(nodes) : IsRow(nodes[i])}

-----------------------------------------------------------------------------
(* Slips: wrong forms of operators defined below, for no specification here. *)

\* onerror sets the timer as onclose does.
ErrorReconnects ==
    /\ connecting' = connecting - 1
    /\ closing' = closing + 1
    /\ waiting' = waiting + 1

\* No fetch while another one is under way.
FetchIfIdle ==
    IF requests = {} /\ answers = {}
    THEN /\ fetches' = fetches + 1
         /\ requests' = requests \cup {fetches + 1}
    ELSE UNCHANGED <<fetches, requests>>

\* The length is compared before the row is inserted.
InsertLate(nodes, n) ==
    IF Cardinality(Elements(nodes)) > Cap
    THEN <<n>> \o SubSeq(nodes, 1, Len(nodes) - 1)
    ELSE <<n>> \o nodes

\* Rows are appended.
InsertLast(nodes, n) == Append(nodes, n)

\* The timer lets the toast fade and does not remove it.
FadesOnly(n) == UNCHANGED fading

\* The timer of a closed socket is set only if it had been open.
CloseQuietly ==
    /\ closing > 0
    /\ closing' = closing - 1
    /\ UNCHANGED <<connecting, open, waiting>>

-----------------------------------------------------------------------------
(* showNotification                                                          *)

Arm(n) == armed' = armed \cup {n}

\* With the id that Math.random gives.
AddToast(i) ==
    LET n    == shown + 1
        same == {t \in toasts : id[t] = i}
    IN  /\ n <= MaxToasts
        /\ shown' = n
        /\ toasts' = toasts \cup {n}
        /\ id' = [id EXCEPT ![n] = i]
        /\ Arm(n)
        /\ collided' = IF same = {} THEN collided ELSE collided \cup same \cup {n}
        /\ UNCHANGED <<container, fading>>

\* base.html renders the container only when there are messages.
ShowToast ==
    \/ container /\ \E i \in Ids : AddToast(i)
    \/ ~container /\ UNCHANGED toastVars

\* getElementById finds the first toast of that id.
Found(i) == {t \in toasts : id[t] = i /\ \A u \in toasts : id[u] = i => t <= u}

\* t.remove()
Gone(ts) ==
    /\ toasts' = toasts \ ts
    /\ fading' = fading \ ts
    /\ collided' = collided \ ts
    /\ UNCHANGED container

Fade(n) == fading' = fading \cup Found(id[n])

\* After 4 seconds, so in the order of the toasts.
TimerRunsOff(n) ==
    /\ n \in armed
    /\ \A m \in armed : n <= m
    /\ armed' = armed \ {n}
    /\ Fade(n)
    /\ UNCHANGED <<linkVars, feedVars, cardVars, listVars, container, shown, toasts, id, collided, faults>>

\* After 300 ms more.
Remove(n) ==
    /\ n \in fading
    /\ Gone({n})
    /\ UNCHANGED <<linkVars, feedVars, cardVars, listVars, shown, id, armed, faults>>

\* The toast's button removes the first toast of its id.
ClickClose(n) ==
    /\ n \in toasts
    /\ Gone(Found(id[n]))
    /\ UNCHANGED <<linkVars, feedVars, cardVars, listVars, shown, id, armed, faults>>

-----------------------------------------------------------------------------
(* connectWebSocket                                                          *)

\* onopen
Open ==
    /\ connecting > 0
    /\ connecting' = connecting - 1
    /\ open' = open + 1
    /\ ShowToast
    /\ UNCHANGED <<closing, waiting, feedVars, cardVars, listVars, faults>>

\* onerror of a socket that does not connect: it is closed.
ErrorCloses ==
    /\ connecting' = connecting - 1
    /\ closing' = closing + 1
    /\ UNCHANGED waiting

Error ==
    /\ connecting > 0
    /\ Fault
    /\ ErrorCloses
    /\ UNCHANGED <<open, feedVars, cardVars, listVars, toastVars>>

\* The connection breaks: what is on its way is lost.
Break ==
    /\ open > 0
    /\ Fault
    /\ open' = open - 1
    /\ closing' = closing + 1
    /\ queue' = <<>>
    /\ UNCHANGED <<connecting, waiting, total, seen, cardVars, listVars, toastVars>>

\* onclose sets the timer.
SetTimer ==
    /\ closing > 0
    /\ closing' = closing - 1
    /\ waiting' = waiting + 1
    /\ UNCHANGED <<connecting, open>>

Close == SetTimer /\ UNCHANGED <<feedVars, cardVars, listVars, toastVars, faults>>

\* Three seconds later.
Reconnect ==
    /\ waiting > 0
    /\ waiting' = waiting - 1
    /\ connecting' = connecting + 1
    /\ UNCHANGED <<open, closing, feedVars, cardVars, listVars, toastVars, faults>>

-----------------------------------------------------------------------------
(* The backend broadcasts a new alert to the pages that are connected.       *)

NewAlert ==
    /\ total < MaxAlerts
    /\ total' = total + 1
    /\ queue' = IF open > 0 THEN Append(queue, total + 1) ELSE queue
    /\ UNCHANGED <<linkVars, seen, cardVars, listVars, toastVars, faults>>

-----------------------------------------------------------------------------
(* handleRealTimeEvent                                                       *)

\* fetchStatsAndRefreshCards
Fetch ==
    /\ fetches' = fetches + 1
    /\ requests' = requests \cup {fetches + 1}

\* The row goes first; a list that is too long then loses its last node.
Insert(nodes, n) ==
    LET longer == <<n>> \o nodes
    IN  IF Cardinality(Elements(longer)) > Cap
        THEN SubSeq(longer, 1, Len(longer) - 1) ELSE longer

HasEmptyRow == \E i \in 1..Len(list) : list[i] = EmptyRow

\* addAlertToDashboardFeed
AddRow(n) ==
    /\ list' = Insert(IF HasEmptyRow THEN <<>> ELSE list, n)
    /\ texts' = IF HasEmptyRow THEN 0 ELSE texts

\* A time stamp that does not parse: the list has been cleared, no more.
AddRowFails ==
    /\ list' = IF HasEmptyRow THEN <<>> ELSE list
    /\ texts' = IF HasEmptyRow THEN 0 ELSE texts

\* onmessage with an alert
Handle(parses) ==
    /\ open > 0
    /\ queue # <<>>
    /\ queue' = Tail(queue)
    /\ seen' = Head(queue)
    /\ ShowToast
    /\ Fetch
    /\ IF parses THEN AddRow(Head(queue)) /\ UNCHANGED faults ELSE AddRowFails /\ Fault
    /\ UNCHANGED <<linkVars, total, answers, cards, applied, erred>>

\* The backend counts and answers; answers may pass each other.
Answer(f) ==
    /\ f \in requests
    /\ requests' = requests \ {f}
    /\ answers' = answers \cup {<<f, total>>}
    /\ UNCHANGED <<linkVars, feedVars, fetches, cards, applied, erred, listVars, toastVars, faults>>

\* An error whose body is JSON has no counts.
AnswerError(f) ==
    /\ f \in requests
    /\ Fault
    /\ requests' = requests \ {f}
    /\ answers' = answers \cup {<<f, Undefined>>}
    /\ erred' = erred \cup {f}
    /\ UNCHANGED <<linkVars, feedVars, fetches, cards, applied, listVars, toastVars>>

\* res.ok is not looked at: what is missing in the answer is undefined on the cards.
RefreshCards(a) ==
    /\ a \in answers
    /\ answers' = answers \ {a}
    /\ applied' = a[1]
    /\ cards' = a[2]
    /\ UNCHANGED <<linkVars, feedVars, fetches, requests, erred, listVars, toastVars, faults>>

\* No answer, or one that is not JSON: the cards stay.
FetchFails(f) ==
    /\ f \in requests
    /\ Fault
    /\ requests' = requests \ {f}
    /\ UNCHANGED <<linkVars, feedVars, fetches, answers, cards, applied, erred, listVars, toastVars>>

Page ==
    \/ Open \/ Close \/ Reconnect
    \/ Handle(TRUE)
    \/ \E f \in 1..MaxAlerts : Answer(f) \/ \E n \in Undefined..MaxAlerts : RefreshCards(<<f, n>>)
    \/ \E n \in 1..MaxToasts : TimerRunsOff(n) \/ Remove(n)

Failure ==
    \/ Error \/ Break
    \/ Handle(FALSE)
    \/ \E f \in 1..MaxAlerts : FetchFails(f) \/ AnswerError(f)

Next == Page \/ NewAlert \/ Failure \/ \E n \in 1..MaxToasts : ClickClose(n)

Spec == Init /\ [][Next]_vars

\* Connections open or fail, and timers run off.
FairSpec == Spec /\ WF_vars(Open) /\ WF_vars(Close) /\ WF_vars(Reconnect)

-----------------------------------------------------------------------------
(* Properties.                                                               *)

TypeOK ==
    /\ connecting \in Nat /\ open \in Nat /\ closing \in Nat /\ waiting \in Nat
    /\ total \in 0..MaxAlerts
    /\ queue \in Seq(1..MaxAlerts)
    /\ seen \in 0..MaxAlerts
    /\ fetches \in 0..MaxAlerts
    /\ requests \subseteq 1..MaxAlerts
    /\ answers \subseteq (1..MaxAlerts) \X (Undefined..MaxAlerts)
    /\ cards \in Undefined..MaxAlerts
    /\ applied \in 0..MaxAlerts
    /\ erred \subseteq 1..MaxAlerts
    /\ list \in Seq(EmptyRow..MaxAlerts)
    /\ texts \in Nat
    /\ container \in BOOLEAN
    /\ shown \in 0..MaxToasts
    /\ toasts \subseteq 1..MaxToasts
    /\ id \in [1..MaxToasts -> Ids]
    /\ armed \subseteq 1..MaxToasts
    /\ fading \subseteq 1..MaxToasts
    /\ collided \subseteq 1..MaxToasts
    /\ faults \in 0..MaxFaults

\* However connections fail, the page has one socket, or one timer that will make
\* it: never two, whose events would all be handled twice.
OneConnection == connecting + open + closing + waiting = 1

\* Once the answer to the newest fetch is on the cards, they count every alert that
\* the page has handled, unless that answer was an error: then they show undefined.
\* Otherwise only an older answer that comes later can take them back.
CardsCurrent == (applied = fetches /\ applied \notin erred) => cards >= seen

\* The list shows the newest alerts first, none twice.
NewestFirst ==
    \A i, j \in 1..Len(list) :
        (i < j /\ IsRow(list[i]) /\ IsRow(list[j])) => list[i] > list[j]

\* The list stays bounded.  It is not the Cap of the comment: each text node that
\* the template left is removed in the place of a row.
ListBounded == Cardinality(Rows(list)) <= Cap + texts

\* A toast that stays on the page is one that shared its id: every other one has
\* its timer running or is about to be removed.
NoToastStays == toasts \subseteq armed \cup fading \cup collided

\* The page comes back online.
ComesBack == (open = 0) ~> (open > 0)

=============================================================================
