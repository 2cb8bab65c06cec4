--------------------------- MODULE DashboardProofs ---------------------------
(***************************************************************************)
(* Proofs about Dashboard, for every set of transactions, accounts and     *)
(* categories, every instant, every page and any number of requests in     *)
(* flight: once none is and no save either, the screen shows what the      *)
(* tables say unless it missed something; at all times the figures of a    *)
(* page add up, each is the total of the page its link leads to, and the   *)
(* tables hold what their writers may leave.                               *)
(*                                                                         *)
(* A request in flight must be right before it is shown: what its          *)
(* statements have returned so far is what they would return now, unless   *)
(* it is marked as behind; and what is asked for, some request in flight   *)
(* that is not behind will show.  That the figures add up needs less: that *)
(* what was returned, at whatever moment, is rows and limits of their      *)
(* types.                                                                  *)
(***************************************************************************)
EXTENDS Dashboard, CalendarProofs, SequenceTheorems, TLAPS

\* The pages there are.
AddressOK(a) ==
  /\ a.page \in {"tracker", "wrap", "drill", "activity"}
  /\ a.page = "wrap" => a.month \in Months

\* A wrap's month is over; it is at most the current one.
Over(a) == a.page = "wrap" => a.month < CurrentMonth(now)
NotAhead(a) == a.page = "wrap" => a.month <= CurrentMonth(now)

Lags == {"none", "asked", "missed"}

\* What a request is made of.
Shape(r) ==
  /\ r = [element |-> r.element, address |-> r.address, stage |-> r.stage,
          reads |-> r.reads, lag |-> r.lag]
  /\ r.reads = [now |-> r.reads.now, rows |-> r.reads.rows, targets |-> r.reads.targets,
                limits |-> r.reads.limits, edge |-> r.reads.edge]
  /\ r.element \in OnRegion \cup {"none", "page", "gone"}
  /\ r.stage \in Stages(r.address)
  /\ r.lag \in Lags

\* What the tab and the editor are made of.
Shapes ==
  /\ page = [address |-> page.address, view |-> page.view, lag |-> page.lag,
             month |-> page.month, badges |-> page.badges, rail |-> page.rail]
  /\ page.lag \in Lags
  /\ requests = [s \in Slots |-> requests[s]]
  /\ \A s \in Slots : Shape(requests[s])
  /\ editor = [stage |-> editor.stage, txn |-> editor.txn, class |-> editor.class]
  /\ now \in Instants

\* The region of this page is the one on screen.
SameRegion(a) ==
  a = page.address \/ (a.page = "activity" /\ page.address.page = "activity")

\* Where a request comes from, and which month it may be of: no region turns into the
\* tracker's.  It lags behind only what changes after its rows are read.
Placed(r) ==
  /\ AddressOK(r.address) /\ NotAhead(r.address)
  /\ r.stage # "rows" => Over(r.address)
  /\ r.stage = "rows" => r.lag = "none"
  /\ r.element = "page" => editor.stage = "none"
  /\ r.element \in OnRegion \cup {"gone"} => Over(r.address) /\ SameRegion(r.address)

\* One request each for a listener and a sync form.
OneEach ==
  \A s, t \in Slots :
    s # t /\ requests[s].element \in {"listener", "sync"} =>
      requests[t].element # requests[s].element

Asked ==
  /\ AddressOK(page.address) /\ Over(page.address)
  /\ \A s \in Slots : Placed(requests[s])
  /\ OneEach
  /\ queued => Busy("listener")

\* What the statements of the request have returned is what they would return now.
FreshRead(r) ==
  LET a == r.address
      reads == r.reads
  IN /\ r.stage # "rows" => reads.now = now /\ reads.rows = RowsFor(a)
     /\ r.stage \in {"limits", "active"} => reads.targets = targets
     /\ r.stage = "active" => reads.limits = limits
     /\ r.stage = "respond" /\ "targets" \in Stages(a) =>
          reads.targets = targets /\ reads.limits = ActiveLimits(limits, Active)

\* A request that is not behind is fresh.
ReadsFresh ==
  editor.stage = "none" => \A s \in Slots : requests[s].lag = "none" => FreshRead(requests[s])

\* What is asked for is on its way.
OnItsWay == page.lag = "asked" => \E s \in InFlight : requests[s].lag = "none"

\* A screen that is not behind shows what the tables say.
ScreenFresh == editor.stage = "none" /\ page.lag = "none" => page.view = ViewNow(page.address)

\* The inductive invariant.
ScreenInv == Shapes /\ Asked /\ ReadsFresh /\ OnItsWay /\ ScreenFresh

\* The tables and the clock stand.
Quiet == UNCHANGED <<tables, now>>

\* The clock stands or goes on.
Onward == now' \in Instants /\ CurrentMonth(now) <= CurrentMonth(now')

-----------------------------------------------------------------------------
(* The clock. *)

\* Every instant lies in a month, a later one in no earlier month.
LEMMA MonthsRun ==
  \A i, j \in Instants : /\ CurrentMonth(i) \in Months
                         /\ i <= j => CurrentMonth(i) <= CurrentMonth(j)
<1>1. ASSUME NEW i \in Instants
      PROVE  i \in Int /\ DayOf(i) \in Int /\ Within(DayOf(i), CurrentMonth(i))
  <2>1. PICK d \in Days : i = Midnight(d) + 1
    BY DashboardAssumption
  <2>2. PICK m \in Months : Within(d, m)
    BY DayHasMonth
  <2>3. i \in Int /\ DayOf(i) = d /\ d \in Int
    BY <2>1, <2>2 DEF Within, Midnight, DayOf
  <2>4. CurrentMonth(i) = m
    BY <2>2, <2>3, MonthIs DEF CurrentMonth
  <2> QED
    BY <2>2, <2>3, <2>4
<1>2. ASSUME NEW i \in Instants, NEW j \in Instants, i <= j
      PROVE  CurrentMonth(i) <= CurrentMonth(j)
  <2>1. /\ i \in Int /\ j \in Int
        /\ Within(DayOf(i), CurrentMonth(i)) /\ Within(DayOf(j), CurrentMonth(j))
    BY <1>1
  <2>2. DayOf(i) <= DayOf(j)
    BY <1>2, <2>1 DEF DayOf
  <2> QED
    BY <2>1, <2>2, MonthsAdvance
<1>3. \A i \in Instants : CurrentMonth(i) \in Months
  BY <1>1 DEF Within
<1> QED
  BY <1>2, <1>3

-----------------------------------------------------------------------------
(* What the statements return, and what a page needs of it. *)

\* The same tables at the same instant give the same rows.
LEMMA RowsStand ==
  ASSUME Quiet, NEW a
  PROVE  RowsFor(a)' = RowsFor(a)
  BY DEF Quiet, tables, RowsFor, RowsOfMonth, Listed, Stored

\* The oldest date and the active categories stand with the tables too.
LEMMA EdgeStands ==
  ASSUME Quiet
  PROVE  Earliest' = Earliest /\ Active' = Active
  BY DEF Quiet, tables, Earliest, Stored, Active

\* The same tables at the same instant give the same page.
LEMMA ViewStands ==
  ASSUME Quiet
  PROVE  \A a : ViewNow(a)' = ViewNow(a)
  BY RowsStand, EdgeStands DEF Quiet, tables, ViewNow, ReadNow

\* The statements a page does not make do not matter to it: with its own as they are
\* now, it is the page of this moment.
LEMMA StatementsSuffice ==
  ASSUME NEW a, AddressOK(a), NEW reads,
         reads.now = now, reads.rows = RowsFor(a),
         "targets" \in Stages(a) =>
           reads.targets = targets /\ reads.limits = ActiveLimits(limits, Active)
  PROVE  View(a, reads) = ViewNow(a)
<1>1. CASE a.page = "tracker"
  BY <1>1 DEF Stages, View, ViewNow, ReadNow
<1>2. CASE a.page = "wrap"
  BY <1>2 DEF View, ViewNow, ReadNow
<1>3. CASE a.page = "drill" /\ a.bucket = "everything-else"
  BY <1>3 DEF Stages, View, ViewNow, ReadNow
<1>4. CASE a.page = "drill" /\ a.bucket # "everything-else"
  <2>1. \A rows, k, l : DrillRows(rows, a.bucket, k) = DrillRows(rows, a.bucket, l)
    BY <1>4 DEF DrillRows
  <2>2. \A rows, k, l : SpendDrill(rows, a.bucket, k) = SpendDrill(rows, a.bucket, l)
    BY <2>1 DEF SpendDrill
  <2> QED
    BY <1>4, <2>2 DEF View, ViewNow, ReadNow
<1>5. CASE a.page = "activity"
  BY <1>5 DEF View, ViewNow, ReadNow
<1> QED
  BY <1>1, <1>2, <1>3, <1>4, <1>5 DEF AddressOK

\* Months are numbers.
LEMMA MonthsAreNumbers == Months \subseteq Int
  BY CalendarAssumption, LenProperties DEF Months

\* Instants are numbers.
LEMMA InstantsAreNumbers == Instants \subseteq Int
  BY DashboardAssumption DEF Midnight, Days
-----------------------------------------------------------------------------
(* What a step leaves of a request. *)

\* A month that is over stays so, and one that is not ahead of the clock.
LEMMA MonthsStayOver ==
  ASSUME now \in Instants, Onward
  PROVE  \A a : AddressOK(a) => (Over(a) => Over(a)') /\ (NotAhead(a) => NotAhead(a)')
<1>1. CurrentMonth(now) \in Months /\ CurrentMonth(now') \in Months
  BY MonthsRun DEF Onward
<1>2. \A m, c, d \in Int : c <= d => (m < c => m < d) /\ (m <= c => m <= d)
  OBVIOUS
<1>3. \A m \in Months : /\ m < CurrentMonth(now) => m < CurrentMonth(now')
                        /\ m <= CurrentMonth(now) => m <= CurrentMonth(now')
  BY <1>1, <1>2, MonthsAreNumbers DEF Onward
<1> QED
  BY <1>3 DEF AddressOK, Over, NotAhead

\* The clock that stands is not behind itself.
LEMMA StandingIsOnward ==
  ASSUME now \in Instants, UNCHANGED now
  PROVE  Onward
<1>1. CurrentMonth(now) \in Int
  BY MonthsRun, MonthsAreNumbers
<1>2. CurrentMonth(now) <= CurrentMonth(now)
  BY <1>1
<1> QED
  BY <1>2 DEF Onward

\* A month that is over is not ahead of the clock.
LEMMA PastIsNotAhead ==
  ASSUME now \in Instants, NEW a, AddressOK(a), Over(a)
  PROVE  NotAhead(a)
<1>1. CurrentMonth(now) \in Int
  BY MonthsRun, MonthsAreNumbers
<1>2. \A m, c \in Int : m < c => m <= c
  OBVIOUS
<1> QED
  BY <1>1, <1>2, MonthsAreNumbers DEF AddressOK, Over, NotAhead

\* The tracker is always a page to ask for.
LEMMA TrackerAddress == AddressOK(Tracker) /\ NotAhead(Tracker) /\ Over(Tracker)
  BY DEF AddressOK, NotAhead, Over, Tracker

\* A request stays in its place while the page does.
LEMMA StillPlaced ==
  ASSUME now \in Instants, Onward, UNCHANGED page.address
  PROVE  \A r : Placed(r) /\ (r.element = "page" => editor'.stage = "none") => Placed(r)'
<1> SUFFICES ASSUME NEW r, Placed(r), r.element = "page" => editor'.stage = "none"
             PROVE  Placed(r)'
  OBVIOUS
<1>1. AddressOK(r.address) /\ AddressOK(r.address)'
  BY DEF Placed, AddressOK
<1>2. /\ Over(r.address) => Over(r.address)'
      /\ NotAhead(r.address) => NotAhead(r.address)'
  BY <1>1, MonthsStayOver
<1> QED
  BY <1>1, <1>2 DEF Placed, SameRegion

\* A request that was fresh still is, when nothing it depends on changes.
LEMMA StillFresh ==
  ASSUME Quiet
  PROVE  \A r : FreshRead(r) => FreshRead(r)'
<1>1. \A a : RowsFor(a)' = RowsFor(a)
  BY RowsStand
<1> QED
  BY <1>1, EdgeStands DEF Quiet, tables, FreshRead, ActiveLimits

\* One that has read nothing is fresh.
LEMMA UnreadIsFresh ==
  \A r : r.stage = "rows" => FreshRead(r) /\ FreshRead(r)'
  BY DEF FreshRead

\* A request just made.
LEMMA GetIs ==
  ASSUME NEW element \in OnRegion \cup {"none", "page"}, NEW a
  PROVE  /\ Shape(Get(element, a))
         /\ Get(element, a).element = element /\ Get(element, a).address = a
         /\ Get(element, a).stage = "rows" /\ Get(element, a).lag = "none"
  BY DEF Get, Shape, NothingRead, Stages, Lags

\* It is in its place when its page is.
LEMMA GetPlaced ==
  ASSUME NEW element \in OnRegion \cup {"none", "page"}, NEW a, AddressOK(a), NotAhead(a),
         element = "page" => editor.stage = "none",
         element \in OnRegion => Over(a) /\ SameRegion(a)
  PROVE  Placed(Get(element, a))
<1>1. element # "gone"
  BY DEF OnRegion
<1> QED
  BY <1>1, GetIs DEF Placed

LEMMA IdleIs ==
  /\ Shape(Idle) /\ Placed(Idle) /\ Placed(Idle)'
  /\ Idle.element = "none" /\ Idle.stage = "rows" /\ Idle.lag = "none"
<1>1. /\ Shape(Idle) /\ Idle.element = "none" /\ Idle.address = Tracker
      /\ Idle.stage = "rows" /\ Idle.lag = "none"
  BY GetIs DEF Idle
<1>2. "none" \notin OnRegion
  BY DEF OnRegion
<1>3. Placed(Idle)
  BY <1>1, <1>2, TrackerAddress DEF Placed
<1>4. Placed(Idle)'
  BY <1>1, <1>2 DEF Placed, AddressOK, NotAhead, Over, Tracker
<1> QED
  BY <1>1, <1>3, <1>4

\* A request put behind is otherwise as it was.
LEMMA BehindIs ==
  ASSUME NEW r, Shape(r), NEW lag \in Lags
  PROVE  LET b == Behind(r, lag)
         IN /\ Shape(b) /\ b.element = r.element /\ b.address = r.address
            /\ b.stage = r.stage /\ b.reads = r.reads
            /\ b.lag = IF r.stage = "rows" THEN r.lag ELSE lag
            /\ Placed(r) => Placed(b)
<1> DEFINE b == Behind(r, lag)
<1>1. b = [element |-> r.element, address |-> r.address, stage |-> r.stage,
           reads |-> r.reads, lag |-> IF r.stage = "rows" THEN r.lag ELSE lag]
  BY DEF Behind, Shape
<1>2. /\ Shape(b) /\ b.element = r.element /\ b.address = r.address
      /\ b.stage = r.stage /\ b.reads = r.reads
      /\ b.lag = IF r.stage = "rows" THEN r.lag ELSE lag
  BY <1>1 DEF Shape
<1> HIDE DEF b
<1>3. Placed(r) => Placed(b)
  BY <1>2 DEF Placed
<1> QED
  BY <1>2, <1>3 DEF b

\* While each slot keeps its element, the same are busy.
LEMMA BusyStands ==
  ASSUME \A s \in Slots : requests'[s].element = requests[s].element
  PROVE  InFlight' = InFlight /\ \A element : Busy(element)' = Busy(element)
<1>1. InFlight' = InFlight
  BY DEF InFlight
<1> QED
  BY <1>1 DEF Busy, InFlight
-----------------------------------------------------------------------------
(* Steps the tab takes no part in. *)

\* A step that leaves the tab, the editor, the tables and the instant alone.
LEMMA ElsewherePreserves ==
  ASSUME ScreenInv, UNCHANGED <<tab, editor, tables, now>>
  PROVE  ScreenInv'
<1> USE DEF ScreenInv
<1>1. Quiet /\ UNCHANGED <<page, requests, queued, editor>>
  BY DEF Quiet, tab
<1>2. Shapes'
  BY <1>1 DEF Shapes, Shape, Quiet
<1>3. Asked'
  <2>1. Onward
    BY <1>1, StandingIsOnward DEF Shapes, Quiet
  <2>2. \A s \in Slots : Placed(requests[s])'
    BY <1>1, <2>1, StillPlaced DEF Shapes, Asked, Placed
  <2>3. AddressOK(page.address)' /\ Over(page.address)'
    BY <1>1 DEF Asked, AddressOK, Over, Quiet
  <2>4. OneEach' /\ (queued => Busy("listener"))'
    BY <1>1 DEF Asked, OneEach, Busy, InFlight
  <2> QED
    BY <2>2, <2>3, <2>4 DEF Asked
<1>4. ReadsFresh'
  BY <1>1, StillFresh DEF ReadsFresh
<1>5. OnItsWay'
  BY <1>1 DEF OnItsWay, InFlight
<1>6. ScreenFresh'
  BY <1>1, ViewStands DEF ScreenFresh
<1> QED
  BY <1>2, <1>3, <1>4, <1>5, <1>6

\* What changes and is missed: the screen is behind, and so is every request begun.
LEMMA ChangePreserves ==
  ASSUME ScreenInv, Changed("missed"), Onward,
         editor' = [stage |-> editor'.stage, txn |-> editor'.txn, class |-> editor'.class],
         editor.stage = "none" => editor'.stage = "none",
         queued' => queued \/ Busy("listener")
  PROVE  ScreenInv'
<1> USE DEF ScreenInv
<1>1. /\ page' = [address |-> page.address, view |-> page.view, lag |-> "missed",
                 month |-> page.month, badges |-> page.badges, rail |-> page.rail]
      /\ requests' = [s \in Slots |-> Behind(requests[s], "missed")]
  BY DEF Changed, Shapes
<1>2. \A s \in Slots : /\ requests'[s] = Behind(requests[s], "missed")
                       /\ Shape(requests'[s])
                       /\ requests'[s].element = requests[s].element
                       /\ requests'[s].lag = IF requests[s].stage = "rows" THEN requests[s].lag
                                                                          ELSE "missed"
                       /\ requests'[s].stage = requests[s].stage
                       /\ Placed(requests'[s])
  BY <1>1, BehindIs DEF Shapes, Asked, Lags
<1>3. Shapes'
  <2>1. \A s \in Slots : Shape(requests[s])'
    BY <1>2 DEF Shape
  <2> QED
    BY <1>1, <2>1 DEF Shapes, Onward, Lags
<1>4. Asked'
  <2>1. \A s \in Slots : Placed(requests[s])'
    <3>1. UNCHANGED page.address
      BY <1>1
    <3>2. \A s \in Slots : requests'[s].element = "page" => editor'.stage = "none"
      BY <1>2 DEF Asked, Placed
    <3> QED
      BY <1>2, <3>1, <3>2, StillPlaced DEF Shapes
  <2>2. AddressOK(page.address)' /\ Over(page.address)'
    <3>1. AddressOK(page.address)'
      BY <1>1 DEF Asked, AddressOK
    <3> QED
      BY <1>1, <3>1, MonthsStayOver DEF Shapes, Asked
  <2>3. OneEach' /\ (queued => Busy("listener"))'
    BY <1>2, BusyStands DEF Asked, OneEach
  <2> QED
    BY <2>1, <2>2, <2>3 DEF Asked
<1>5. ReadsFresh'
  <2>1. \A s \in Slots : requests'[s].lag = "none" => requests'[s].stage = "rows"
    BY <1>2
  <2> QED
    BY <2>1, UnreadIsFresh DEF ReadsFresh
<1>6. OnItsWay' /\ ScreenFresh'
  BY <1>1 DEF OnItsWay, ScreenFresh
<1> QED
  BY <1>3, <1>4, <1>5, <1>6

\* The budget editor takes no part; what it saves is missed.
LEMMA BudgetEditorPreserves ==
  ASSUME ScreenInv, BudgetEditor
  PROVE  ScreenInv'
<1>1. CASE SetBudget
  <2>1. Changed("missed") /\ UNCHANGED <<now, queued, editor>>
    BY <1>1 DEF SetBudget
  <2>2. Onward
    BY <2>1, StandingIsOnward DEF ScreenInv, Shapes
  <2> QED
    BY <2>1, <2>2, ChangePreserves DEF ScreenInv, Shapes
<1>2. CASE UNCHANGED <<tab, editor, tables, now>>
  BY <1>2, ElsewherePreserves
<1> QED
  BY <1>1, <1>2 DEF BudgetEditor, GetBudgetPage, SubmittedLimits, RenderBudget, FailBudget,
                    PostBudget

\* What changes with nothing announced preserves the invariant.
LEMMA OthersPreserve ==
  ASSUME ScreenInv, Others
  PROVE  ScreenInv'
<1>1. CASE Silently
  <2>1. Changed("missed") /\ UNCHANGED <<now, queued, editor>>
    BY <1>1 DEF Silently
  <2>2. Onward
    BY <2>1, StandingIsOnward DEF ScreenInv, Shapes
  <2> QED
    BY <2>1, <2>2, ChangePreserves DEF ScreenInv, Shapes
<1>2. ASSUME NEW instant \in Instants, TimePasses(instant)
      PROVE  ScreenInv'
  <2>1. Changed("missed") /\ UNCHANGED <<queued, editor>> /\ now' \in Instants /\ now < now'
    BY <1>2 DEF TimePasses
  <2>2. now \in Instants /\ now \in Int /\ now' \in Int
    BY <2>1, InstantsAreNumbers DEF ScreenInv, Shapes
  <2>3. Onward
    BY <2>1, <2>2, MonthsRun DEF Onward
  <2> QED
    BY <2>1, <2>3, ChangePreserves DEF ScreenInv, Shapes
<1> QED
  BY <1>1, <1>2 DEF Others, BankPosts, BankSettles, BankRemoves, Recategorize, Pair,
                    Disconnect, ArchiveCategory, UnarchiveCategory
-----------------------------------------------------------------------------
(* The tab's reads. *)

\* One request moves on, or takes another's place; the others stand.
OneMoves(s) ==
  /\ requests' = [t \in Slots |-> requests'[t]]
  /\ \A t \in Slots \ {s} : requests'[t] = requests[t]

\* One request takes another's place and the page stays as it is, but for what it lacks:
\* the invariant is preserved if the new request is right and what is asked for is still
\* on its way.
LEMMA SlotPreserves ==
  ASSUME ScreenInv, NEW s \in Slots, OneMoves(s), Quiet, UNCHANGED editor,
         NEW lag \in Lags, page' = [page EXCEPT !.lag = lag], lag = "none" => page.lag = "none",
         Shape(requests'[s]), Placed(requests[s])',
         editor.stage = "none" /\ requests'[s].lag = "none" => FreshRead(requests[s])',
         OneEach', (queued => Busy("listener"))', OnItsWay'
  PROVE  ScreenInv'
<1> USE DEF ScreenInv
<1>1. page' = [address |-> page.address, view |-> page.view, lag |-> lag,
               month |-> page.month, badges |-> page.badges, rail |-> page.rail]
  BY DEF Shapes
<1>2. Shapes'
  <2>1. \A t \in Slots : Shape(requests'[t])
    BY DEF Shapes, OneMoves
  <2>2. \A t \in Slots : Shape(requests[t])'
    BY <2>1 DEF Shape
  <2> QED
    BY <1>1, <2>2 DEF Shapes, OneMoves, Quiet
<1>3. Asked'
  <2>1. Onward /\ UNCHANGED page.address
    BY <1>1, StandingIsOnward DEF Shapes, Quiet
  <2>2. ASSUME NEW t \in Slots, t # s PROVE Placed(requests[t])'
    <3>1. requests'[t] = requests[t] /\ Placed(requests[t])
      BY <2>2 DEF OneMoves, Asked
    <3>2. requests[t].element = "page" => editor'.stage = "none"
      BY <3>1 DEF Placed
    <3> QED
      BY <2>1, <3>1, <3>2, StillPlaced DEF Shapes
  <2>3. \A t \in Slots : Placed(requests[t])'
    BY <2>2
  <2>4. AddressOK(page.address)' /\ Over(page.address)'
    BY <2>1 DEF Asked, AddressOK, Over, Quiet
  <2> QED
    BY <2>3, <2>4 DEF Asked
<1>4. ReadsFresh'
  <2>1. ASSUME NEW t \in Slots, editor.stage = "none", requests'[t].lag = "none"
        PROVE  FreshRead(requests[t])'
    <3>1. CASE t = s
      BY <2>1, <3>1
    <3>2. CASE t # s
      <4>1. requests'[t] = requests[t] /\ FreshRead(requests[t])
        BY <2>1, <3>2 DEF OneMoves, ReadsFresh
      <4> QED
        BY <4>1, StillFresh
    <3> QED
      BY <3>1, <3>2
  <2> QED
    BY <2>1 DEF ReadsFresh
<1>5. ScreenFresh'
  BY <1>1, ViewStands DEF ScreenFresh
<1> QED
  BY <1>2, <1>3, <1>4, <1>5

\* A slot whose request moves on, fresh if it is not behind, preserves the invariant.
LEMMA MovePreserves ==
  ASSUME ScreenInv, NEW s \in Slots, OneMoves(s), Quiet, UNCHANGED <<page, queued, editor>>,
         Shape(requests'[s]), Placed(requests[s])',
         requests'[s].element = requests[s].element,
         requests'[s].lag = requests[s].lag,
         editor.stage = "none" /\ requests[s].lag = "none" => FreshRead(requests[s])'
  PROVE  ScreenInv'
<1>1. \A t \in Slots : /\ requests'[t].element = requests[t].element
                       /\ requests'[t].lag = requests[t].lag
  BY DEF OneMoves
<1>2. OneEach' /\ (queued => Busy("listener"))'
  BY <1>1, BusyStands DEF ScreenInv, Asked, OneEach
<1>3. OnItsWay'
  BY <1>1, BusyStands DEF ScreenInv, OnItsWay, InFlight
<1>4. page' = [page EXCEPT !.lag = page.lag] /\ page.lag \in Lags
  BY DEF ScreenInv, Shapes
<1> QED
  BY <1>2, <1>3, <1>4, SlotPreserves

\* A page of the current month redirects a whole page to the tracker, and no region.
LEMMA RedirectPreserves ==
  ASSUME ScreenInv, NEW s \in Slots, Redirect(s)
  PROVE  ScreenInv'
<1> USE DEF ScreenInv
<1> DEFINE r == requests[s]
           g == Get(r.element, Tracker)
<1>1. r.element = "page"
  <2>1. CurrentMonth(now) \in Int
    BY MonthsRun, MonthsAreNumbers DEF Shapes
  <2>2. ~Over(r.address)
    BY <2>1 DEF Redirect, OfCurrentMonth, Over
  <2>3. r.element # "none"
    BY DEF Redirect, InFlight
  <2> QED
    BY <2>2, <2>3 DEF Asked, Placed, Shapes, Shape
<1>2. /\ requests' = [requests EXCEPT ![s] = g]
      /\ UNCHANGED <<page, queued, editor>> /\ Quiet /\ r.stage = "rows"
  BY DEF Redirect, Quiet
<1>3. editor.stage = "none" /\ r.lag = "none"
  BY <1>1, <1>2 DEF Asked, Placed
<1>4. /\ Shape(g) /\ g.element = "page" /\ g.stage = "rows" /\ g.lag = "none"
      /\ Placed(g)
  BY <1>1, <1>3, GetIs, GetPlaced, TrackerAddress DEF OnRegion
<1> HIDE DEF g
<1>5. OneMoves(s) /\ requests'[s] = g
  BY <1>2 DEF OneMoves, Shapes
<1>6. Placed(requests[s])'
  <2>1. Onward /\ UNCHANGED page.address /\ editor'.stage = "none"
    BY <1>2, <1>3, StandingIsOnward DEF Shapes, Quiet
  <2> QED
    BY <1>4, <1>5, <2>1, StillPlaced DEF Shapes
<1>7. FreshRead(requests[s])'
  BY <1>4, <1>5, UnreadIsFresh
<1> QED
  BY <1>1, <1>2, <1>3, <1>4, <1>5, <1>6, <1>7, MovePreserves

\* A statement of a page: what it leaves alone, and what comes after it.
LEMMA ReadingMoves ==
  ASSUME Shapes, NEW s \in Slots, NEW stage, NEW reads, Reading(s, stage, reads)
  PROVE  /\ requests'[s] = [element |-> requests[s].element, address |-> requests[s].address,
                            stage |-> NextStage(requests[s].address, stage), reads |-> reads,
                            lag |-> requests[s].lag]
         /\ OneMoves(s) /\ Quiet /\ UNCHANGED <<page, queued, editor>>
         /\ requests[s].stage = stage
<1> DEFINE r == requests[s]
<1>1. /\ requests' = [requests EXCEPT ![s].stage = NextStage(requests[s].address, stage),
                                     ![s].reads = reads]
      /\ Quiet /\ UNCHANGED <<page, queued, editor>> /\ r.stage = stage
  BY DEF Reading, Quiet
<1>2. requests = [t \in Slots |-> requests[t]] /\ Shape(r)
  BY DEF Shapes
<1>3. \A st : [[r EXCEPT !.stage = st] EXCEPT !.reads = reads] =
                [element |-> r.element, address |-> r.address, stage |-> st,
                 reads |-> reads, lag |-> r.lag]
  <2> TAKE st
  <2> DEFINE b == [r EXCEPT !.stage = st]
  <2>1. b = [element |-> r.element, address |-> r.address, stage |-> st,
             reads |-> r.reads, lag |-> r.lag]
    <3> HIDE DEF r
    <3> QED
      BY <1>2 DEF Shape
  <2> HIDE DEF b
  <2>2. [b EXCEPT !.reads = reads] =
          [element |-> r.element, address |-> r.address, stage |-> st,
           reads |-> reads, lag |-> r.lag]
    BY <2>1
  <2> QED
    BY <2>2 DEF b
<1>4. requests' = [requests EXCEPT ![s] =
                     [[r EXCEPT !.stage = NextStage(r.address, stage)] EXCEPT !.reads = reads]]
  BY <1>1, <1>2
<1>5. requests' = [requests EXCEPT ![s] =
                     [element |-> r.element, address |-> r.address,
                      stage |-> NextStage(r.address, stage), reads |-> reads, lag |-> r.lag]]
  BY <1>3, <1>4
<1>6. OneMoves(s)
  BY <1>2, <1>5 DEF OneMoves
<1> QED
  BY <1>1, <1>2, <1>5, <1>6

\* The same, field by field.
LEMMA OneRead ==
  ASSUME Shapes, NEW s \in Slots, NEW stage, NEW reads, Reading(s, stage, reads)
  PROVE  /\ requests'[s].address = requests[s].address /\ requests'[s].reads = reads
         /\ requests'[s].stage = NextStage(requests[s].address, stage)
         /\ requests'[s].element = requests[s].element
         /\ requests'[s].lag = requests[s].lag
         /\ requests[s].stage = stage /\ Quiet
<1>1. /\ requests'[s] = [element |-> requests[s].element, address |-> requests[s].address,
                         stage |-> NextStage(requests[s].address, stage), reads |-> reads,
                         lag |-> requests[s].lag]
      /\ requests[s].stage = stage /\ Quiet
  BY ReadingMoves
<1> QED
  BY <1>1

\* A statement whose request is as fresh after it as before.
LEMMA ReadingPreserves ==
  ASSUME ScreenInv, NEW s \in Slots,
         NEW stage \in {"rows", "targets", "limits", "active", "edge"},
         NEW reads, Reading(s, stage, reads),
         reads = [now |-> reads.now, rows |-> reads.rows, targets |-> reads.targets,
                  limits |-> reads.limits, edge |-> reads.edge],
         stage = "rows" => Over(requests[s].address),
         FreshRead(requests[s]) => FreshRead(requests[s])'
  PROVE  ScreenInv'
<1> USE DEF ScreenInv
<1> DEFINE r == requests[s]
<1>1. /\ requests'[s] = [element |-> r.element, address |-> r.address,
                         stage |-> NextStage(r.address, stage), reads |-> reads,
                         lag |-> r.lag]
      /\ OneMoves(s) /\ Quiet /\ UNCHANGED <<page, queued, editor>> /\ r.stage = stage
  BY ReadingMoves
<1>2. Shape(requests'[s])
  <2>1. NextStage(r.address, stage) \in Stages(r.address)
    BY <1>1 DEF NextStage, Stages, Shapes, Shape
  <2>2. Shape(r)
    BY DEF Shapes
  <2>3. r.element \in OnRegion \cup {"none", "page", "gone"} /\ r.lag \in Lags
    BY <2>2 DEF Shape
  <2> HIDE DEF r
  <2> QED
    BY <1>1, <2>1, <2>3 DEF Shape
<1>3. Placed(requests[s])'
  <2>1. Onward /\ UNCHANGED page.address
    BY <1>1, StandingIsOnward DEF Shapes, Quiet
  <2>2. Over(r.address)
    BY <1>1 DEF Asked, Placed
  <2>3. Placed(requests'[s]) /\ (requests'[s].element = "page" => editor'.stage = "none")
    <3>1. NextStage(r.address, stage) # "rows"
      BY DEF NextStage
    <3> QED
      BY <1>1, <2>2, <3>1 DEF Asked, Placed
  <2> QED
    BY <2>1, <2>3, StillPlaced DEF Shapes
<1>4. editor.stage = "none" /\ r.lag = "none" => FreshRead(requests[s])'
  BY DEF ReadsFresh
<1> QED
  BY <1>1, <1>2, <1>3, <1>4, MovePreserves

\* The first statement makes a request fresh so far, and lets only a wrap of a month that
\* is over through.
LEMMA ReadRowsPreserves ==
  ASSUME ScreenInv, NEW s \in Slots, ReadRows(s)
  PROVE  ScreenInv'
<1> USE DEF ScreenInv
<1> DEFINE r == requests[s]
           reads == [r.reads EXCEPT !.now = now, !.rows = RowsFor(r.address)]
<1>1. Over(r.address)
  <2>1. CurrentMonth(now) \in Int
    BY MonthsRun, MonthsAreNumbers DEF Shapes
  <2> QED
    BY <2>1, MonthsAreNumbers DEF Asked, Placed, AddressOK, NotAhead, Over, ReadRows,
                                  OfCurrentMonth
<1>2. reads = [now |-> now, rows |-> RowsFor(r.address), targets |-> r.reads.targets,
               limits |-> r.reads.limits, edge |-> r.reads.edge]
  <2>1. Shape(r)
    BY DEF Shapes
  <2> DEFINE b == [r.reads EXCEPT !.now = now]
  <2>2. b = [now |-> now, rows |-> r.reads.rows, targets |-> r.reads.targets,
             limits |-> r.reads.limits, edge |-> r.reads.edge]
    <3> HIDE DEF r
    <3> QED
      BY <2>1 DEF Shape
  <2> HIDE DEF b
  <2>3. [b EXCEPT !.rows = RowsFor(r.address)] =
          [now |-> now, rows |-> RowsFor(r.address), targets |-> r.reads.targets,
           limits |-> r.reads.limits, edge |-> r.reads.edge]
    BY <2>2
  <2> QED
    BY <2>3 DEF b
<1>3. Reading(s, "rows", reads)
  BY DEF ReadRows
<1> HIDE DEF reads
<1>4. /\ requests'[s].address = r.address /\ requests'[s].reads = reads
      /\ requests'[s].stage = NextStage(r.address, "rows") /\ Quiet
  BY <1>3, OneRead
<1>5. FreshRead(requests[s])'
  <2>1. \A a : RowsFor(a)' = RowsFor(a)
    BY <1>4, RowsStand
  <2>2. requests'[s].reads.now = now' /\ requests'[s].reads.rows = RowsFor(requests[s].address)'
    BY <1>2, <1>4, <2>1 DEF Quiet
  <2>3. /\ requests'[s].stage \notin {"limits", "active"}
        /\ requests'[s].stage = "respond" => "targets" \notin Stages(requests'[s].address)
    BY <1>4 DEF NextStage, Stages
  <2> QED
    BY <2>2, <2>3 DEF FreshRead
<1> QED
  BY <1>1, <1>2, <1>3, <1>5, ReadingPreserves

\* The later statements: each adds what it returns to a request that was fresh.
LEMMA LaterReadPreserves ==
  ASSUME ScreenInv, NEW s \in Slots,
         ReadTargets(s) \/ ReadLimits(s) \/ ReadActive(s) \/ ReadEdge(s)
  PROVE  ScreenInv'
<1> USE DEF ScreenInv
<1> DEFINE r == requests[s]
           a == r.address
           old == r.reads
<1>0. old = [now |-> old.now, rows |-> old.rows, targets |-> old.targets,
             limits |-> old.limits, edge |-> old.edge]
  <2>1. Shape(r)
    BY DEF Shapes
  <2> QED
    BY <2>1 DEF Shape
<1>1. ASSUME Quiet, requests'[s].address = a, requests'[s].reads.now = old.now,
             requests'[s].reads.rows = old.rows, r.stage # "rows", FreshRead(r)
      PROVE  /\ requests'[s].reads.now = now'
             /\ requests'[s].reads.rows = RowsFor(requests[s].address)'
  <2>1. \A b : RowsFor(b)' = RowsFor(b)
    BY <1>1, RowsStand
  <2> QED
    BY <1>1, <2>1 DEF FreshRead, Quiet
<1>2. CASE ReadTargets(s)
  <2> DEFINE reads == [old EXCEPT !.targets = targets]
  <2>1. reads = [now |-> old.now, rows |-> old.rows, targets |-> targets,
                 limits |-> old.limits, edge |-> old.edge]
    BY <1>0
  <2>2. Reading(s, "targets", reads)
    BY <1>2 DEF ReadTargets
  <2> HIDE DEF reads
  <2>3. /\ requests'[s].address = a /\ requests'[s].reads = reads /\ r.stage = "targets"
        /\ requests'[s].stage = NextStage(a, "targets") /\ Quiet
    BY <2>2, OneRead
  <2>4. ASSUME FreshRead(r) PROVE FreshRead(requests[s])'
    BY <1>1, <2>1, <2>3, <2>4 DEF FreshRead, NextStage, Quiet, tables
  <2> QED
    BY <2>1, <2>2, <2>4, ReadingPreserves
<1>3. CASE ReadLimits(s)
  <2> DEFINE reads == [old EXCEPT !.limits = limits]
  <2>1. reads = [now |-> old.now, rows |-> old.rows, targets |-> old.targets,
                 limits |-> limits, edge |-> old.edge]
    BY <1>0
  <2>2. Reading(s, "limits", reads)
    BY <1>3 DEF ReadLimits
  <2> HIDE DEF reads
  <2>3. /\ requests'[s].address = a /\ requests'[s].reads = reads /\ r.stage = "limits"
        /\ requests'[s].stage = NextStage(a, "limits") /\ Quiet
    BY <2>2, OneRead
  <2>4. ASSUME FreshRead(r) PROVE FreshRead(requests[s])'
    BY <1>1, <2>1, <2>3, <2>4 DEF FreshRead, NextStage, Quiet, tables
  <2> QED
    BY <2>1, <2>2, <2>4, ReadingPreserves
<1>4. CASE ReadActive(s)
  <2> DEFINE reads == [old EXCEPT !.limits = ActiveLimits(old.limits, Active)]
  <2>1. reads = [now |-> old.now, rows |-> old.rows, targets |-> old.targets,
                 limits |-> ActiveLimits(old.limits, Active), edge |-> old.edge]
    BY <1>0
  <2>2. Reading(s, "active", reads)
    BY <1>4 DEF ReadActive
  <2> HIDE DEF reads
  <2>3. /\ requests'[s].address = a /\ requests'[s].reads = reads /\ r.stage = "active"
        /\ requests'[s].stage = NextStage(a, "active") /\ Quiet
    BY <2>2, OneRead
  <2>4. (ActiveLimits(limits, Active))' = ActiveLimits(limits, Active)
    BY <2>3, EdgeStands DEF Quiet, tables, ActiveLimits
  <2>5. ASSUME FreshRead(r) PROVE FreshRead(requests[s])'
    BY <1>1, <2>1, <2>3, <2>4, <2>5 DEF FreshRead, NextStage, Quiet, tables
  <2> QED
    BY <2>1, <2>2, <2>5, ReadingPreserves
<1>5. CASE ReadEdge(s)
  <2> DEFINE reads == [old EXCEPT !.edge = Earliest]
  <2>1. reads = [now |-> old.now, rows |-> old.rows, targets |-> old.targets,
                 limits |-> old.limits, edge |-> Earliest]
    BY <1>0
  <2>2. Reading(s, "edge", reads)
    BY <1>5 DEF ReadEdge
  <2> HIDE DEF reads
  <2>3. /\ requests'[s].address = a /\ requests'[s].reads = reads /\ r.stage = "edge"
        /\ requests'[s].stage = NextStage(a, "edge") /\ Quiet
    BY <2>2, OneRead
  <2>4. "targets" \notin Stages(a)
    BY <2>3 DEF Shapes, Shape, Stages
  <2>5. Stages(requests'[s].address) = Stages(a)
    BY <2>3
  <2>6. ASSUME FreshRead(r) PROVE FreshRead(requests[s])'
    BY <1>1, <2>1, <2>3, <2>4, <2>5, <2>6 DEF FreshRead, NextStage
  <2> QED
    BY <2>1, <2>2, <2>6, ReadingPreserves
<1> QED
  BY <1>2, <1>3, <1>4, <1>5
-----------------------------------------------------------------------------
(* The tab's answers. *)

\* What a fresh answer shows is what the tables say.
LEMMA FreshAnswer ==
  ASSUME NEW r, AddressOK(r.address), FreshRead(r), r.stage = "respond", Quiet
  PROVE  \A a : a = r.address => View(r.address, r.reads) = ViewNow(a)'
<1>1. View(r.address, r.reads) = ViewNow(r.address)
  BY StatementsSuffice DEF FreshRead
<1> QED
  BY <1>1, ViewStands

\* A page that arrives is fresh if its request was; only other pages are still to come.
LEMMA SwapPagePreserves ==
  ASSUME ScreenInv, NEW s \in Slots, SwapPage(s)
  PROVE  ScreenInv'
<1> USE DEF ScreenInv
<1> DEFINE r == requests[s]
           lag == IF r.lag = "none" THEN "none" ELSE "missed"
<1>1. /\ r.element = "page" /\ r.stage = "respond" /\ queued' = FALSE
      /\ Quiet /\ UNCHANGED editor
      /\ page' = PageOf(r.address, r.reads, lag)
      /\ requests' = [t \in Slots |-> IF t # s /\ requests[t].element = "page"
                                      THEN requests[t] ELSE Idle]
  BY DEF SwapPage, Quiet
<1>2. /\ AddressOK(r.address) /\ Over(r.address) /\ editor.stage = "none"
      /\ Shape(r)
  BY <1>1 DEF Asked, Placed, Shapes
<1>3. \A t \in Slots : \/ requests'[t] = requests[t] /\ requests[t].element = "page"
                       \/ requests'[t] = Idle
  BY <1>1
<1>4. /\ page'.address = r.address /\ page'.view = View(r.address, r.reads)
      /\ page'.lag = lag
      /\ page' = [address |-> page'.address, view |-> page'.view, lag |-> page'.lag,
                  month |-> page'.month, badges |-> page'.badges, rail |-> page'.rail]
  BY <1>1 DEF PageOf
<1>5. Shapes'
  <2>1. \A t \in Slots : Shape(requests'[t])
    BY <1>3, IdleIs DEF Shapes
  <2>2. \A t \in Slots : Shape(requests[t])'
    BY <2>1 DEF Shape
  <2> QED
    BY <1>1, <1>4, <2>2 DEF Shapes, Quiet, Lags
<1>6. Asked'
  <2>1. \A q : q.element = "page" /\ Placed(q) => Placed(q)'
    BY <1>1 DEF Placed, AddressOK, NotAhead, Over, OnRegion, Quiet
  <2>2. \A t \in Slots : Placed(requests[t])'
    BY <1>3, <2>1, IdleIs DEF Asked
  <2>3. AddressOK(page.address)' /\ Over(page.address)'
    BY <1>1, <1>2, <1>4 DEF AddressOK, Over, Quiet
  <2>4. \A t \in Slots : requests'[t].element \in {"page", "none"}
    BY <1>3, IdleIs
  <2> QED
    BY <1>1, <2>2, <2>3, <2>4 DEF Asked, OneEach
<1>7. ReadsFresh'
  <2>1. ASSUME NEW t \in Slots, requests'[t].lag = "none" PROVE FreshRead(requests[t])'
    <3>1. CASE requests'[t] = Idle
      BY <3>1, IdleIs, UnreadIsFresh
    <3>2. CASE requests'[t] = requests[t]
      BY <1>1, <1>2, <2>1, <3>2, StillFresh DEF ReadsFresh
    <3> QED
      BY <1>3, <3>1, <3>2
  <2> QED
    BY <2>1 DEF ReadsFresh
<1>8. OnItsWay'
  BY <1>4 DEF OnItsWay
<1>9. ScreenFresh'
  <2>1. ASSUME page'.lag = "none", NEW a, a = page'.address PROVE page'.view = ViewNow(a)'
    <3>1. FreshRead(r)
      BY <1>2, <1>4, <2>1 DEF ReadsFresh
    <3> QED
      BY <1>1, <1>2, <1>4, <2>1, <3>1, FreshAnswer
  <2> QED
    BY <1>4, <2>1 DEF ScreenFresh, ViewNow, ReadNow, RowsFor
<1> QED
  BY <1>5, <1>6, <1>7, <1>8, <1>9

\* A region that arrives is fresh if its request was; of what was asked for before, some
\* other request will bring what this one does not.
LEMMA SwapRegionPreserves ==
  ASSUME ScreenInv, NEW s \in Slots, SwapRegion(s)
  PROVE  ScreenInv'
<1> USE DEF ScreenInv
<1> DEFINE r == requests[s]
           Gone(q) == [q EXCEPT !.element = "gone"]
<1>1. /\ r.element \in OnRegion \cup {"gone"} /\ r.stage = "respond" /\ queued' = FALSE
      /\ Quiet /\ UNCHANGED editor
      /\ page' = [page EXCEPT !.address = r.address, !.view = View(r.address, r.reads),
                              !.lag = LagAfter(r)]
      /\ requests' = [t \in Slots |->
                        IF t = s THEN Idle
                        ELSE IF requests[t].element \in OnRegion THEN Gone(requests[t])
                             ELSE requests[t]]
  BY DEF SwapRegion, Quiet
<1>2. /\ AddressOK(r.address) /\ Over(r.address) /\ SameRegion(r.address) /\ Shape(r)
  BY <1>1 DEF Asked, Placed, Shapes
<1>3. \A q : Shape(q) => /\ Shape(Gone(q)) /\ Gone(q).element = "gone"
                         /\ Gone(q).address = q.address /\ Gone(q).stage = q.stage
                         /\ Gone(q).reads = q.reads /\ Gone(q).lag = q.lag
  <2> SUFFICES ASSUME NEW q, Shape(q)
               PROVE  /\ Shape(Gone(q)) /\ Gone(q).element = "gone"
                      /\ Gone(q).address = q.address /\ Gone(q).stage = q.stage
                      /\ Gone(q).reads = q.reads /\ Gone(q).lag = q.lag
    OBVIOUS
  <2>1. Gone(q) = [element |-> "gone", address |-> q.address, stage |-> q.stage,
                   reads |-> q.reads, lag |-> q.lag]
    BY DEF Shape
  <2> QED
    BY <2>1 DEF Shape
<1> HIDE DEF Gone
<1>4. \A t \in Slots : \/ t = s /\ requests'[t] = Idle
                       \/ t # s /\ requests[t].element \in OnRegion
                            /\ requests'[t] = Gone(requests[t])
                       \/ t # s /\ requests[t].element \notin OnRegion
                            /\ requests'[t] = requests[t]
  BY <1>1
<1>5. LagAfter(r) \in Lags
  BY <1>2 DEF LagAfter, Lags, Shape
<1>6. page' = [address |-> r.address, view |-> View(r.address, r.reads),
               lag |-> LagAfter(r), month |-> page.month, badges |-> page.badges,
               rail |-> page.rail]
  <2>1. page = [address |-> page.address, view |-> page.view, lag |-> page.lag,
                month |-> page.month, badges |-> page.badges, rail |-> page.rail]
    BY DEF Shapes
  <2> DEFINE b == [page EXCEPT !.address = r.address]
             c == [b EXCEPT !.view = View(r.address, r.reads)]
  <2>2. b = [address |-> r.address, view |-> page.view, lag |-> page.lag,
             month |-> page.month, badges |-> page.badges, rail |-> page.rail]
    BY <2>1
  <2>3. page' = [c EXCEPT !.lag = LagAfter(r)]
    BY <1>1
  <2> HIDE DEF b
  <2>4. c = [address |-> r.address, view |-> View(r.address, r.reads), lag |-> page.lag,
             month |-> page.month, badges |-> page.badges, rail |-> page.rail]
    BY <2>2
  <2> HIDE DEF c
  <2> QED
    BY <2>3, <2>4
<1>7. Shapes'
  <2>1. \A t \in Slots : Shape(requests'[t])
    BY <1>3, <1>4, IdleIs DEF Shapes
  <2>2. \A t \in Slots : Shape(requests[t])'
    BY <2>1 DEF Shape
  <2>3. requests' = [t \in Slots |-> requests'[t]]
    BY <1>1
  <2> QED
    BY <1>1, <1>5, <1>6, <2>2, <2>3 DEF Shapes, Quiet
<1>8. Asked'
  <2>1. page'.address = r.address
    BY <1>6
  <2>2. \A a : SameRegion(a) => SameRegion(a)'
    BY <1>2, <2>1 DEF SameRegion
  <2>3. \A a : /\ AddressOK(a) => AddressOK(a)'
               /\ Over(a) => Over(a)'
               /\ NotAhead(a) => NotAhead(a)'
    BY <1>1 DEF AddressOK, Over, NotAhead, Quiet
  <2>4. \A q : Placed(q) => Placed(q)'
    BY <1>1, <2>2, <2>3 DEF Placed
  <2>5. \A q : Shape(q) /\ q.element \in OnRegion /\ Placed(q) => Placed(Gone(q))
    BY <1>3 DEF Placed
  <2>6. \A t \in Slots : Placed(requests[t])'
    BY <1>4, <2>4, <2>5, IdleIs DEF Asked, Shapes
  <2>7. \A t \in Slots : requests'[t].element \notin {"listener", "sync"}
    BY <1>3, <1>4, IdleIs DEF Shapes, OnRegion
  <2> QED
    BY <1>1, <1>2, <2>1, <2>3, <2>6, <2>7 DEF Asked, OneEach
<1>9. ReadsFresh'
  <2>1. ASSUME NEW t \in Slots, editor.stage = "none", requests'[t].lag = "none"
        PROVE  FreshRead(requests[t])'
    <3>1. CASE requests'[t] = Idle
      BY <3>1, IdleIs, UnreadIsFresh
    <3>2. CASE requests'[t] # Idle
      <4>1. /\ requests'[t].lag = requests[t].lag /\ requests'[t].stage = requests[t].stage
            /\ requests'[t].reads = requests[t].reads
            /\ requests'[t].address = requests[t].address
        BY <1>3, <1>4, <3>2 DEF Shapes
      <4>2. FreshRead(requests[t])
        BY <2>1, <4>1 DEF ReadsFresh
      <4>3. FreshRead(requests'[t])
        BY <4>1, <4>2 DEF FreshRead
      <4> QED
        BY <1>1, <4>3, StillFresh
    <3> QED
      BY <3>1, <3>2
  <2> QED
    BY <1>1, <2>1 DEF ReadsFresh
<1>10. OnItsWay'
  <2>1. ASSUME page'.lag = "asked" PROVE \E t \in InFlight' : requests'[t].lag = "none"
    <3>1. page.lag = "asked" /\ r.lag # "none"
      BY <1>6, <2>1 DEF LagAfter
    <3>2. PICK t \in InFlight : requests[t].lag = "none"
      BY <3>1 DEF OnItsWay
    <3>3. t \in Slots /\ t # s /\ requests[t].element # "none"
      BY <3>1, <3>2 DEF InFlight
    <3>4. requests'[t].lag = "none" /\ requests'[t].element # "none"
      BY <1>3, <1>4, <3>2, <3>3 DEF Shapes
    <3> QED
      BY <3>3, <3>4 DEF InFlight
  <2> QED
    BY <2>1 DEF OnItsWay
<1>11. ScreenFresh'
  <2>1. ASSUME page'.lag = "none", editor.stage = "none", NEW a, a = page'.address
        PROVE  page'.view = ViewNow(a)'
    <3>1. r.lag = "none"
      BY <1>6, <2>1 DEF LagAfter
    <3>2. FreshRead(r)
      BY <2>1, <3>1 DEF ReadsFresh
    <3> QED
      BY <1>1, <1>2, <1>6, <2>1, <3>2, FreshAnswer
  <2> QED
    BY <1>1, <1>6, <2>1 DEF ScreenFresh, ViewNow, ReadNow, RowsFor
<1> QED
  BY <1>7, <1>8, <1>9, <1>10, <1>11

\* A request that fails leaves the screen as it was: a listener's is followed by the one
\* that waited, and what a fresh one was to bring is missed.
LEMMA FailRequestPreserves ==
  ASSUME ScreenInv, NEW s \in Slots, FailRequest(s)
  PROVE  ScreenInv'
<1> USE DEF ScreenInv
<1> DEFINE r == requests[s]
           resent == r.element = "listener" /\ queued
           lag == IF resent THEN "asked"
                  ELSE IF page.lag = "asked" /\ r.lag = "none" THEN "missed" ELSE page.lag
<1>1. /\ requests' = [requests EXCEPT ![s] =
                        IF resent THEN Get("listener", page.address) ELSE Idle]
      /\ page' = [page EXCEPT !.lag = lag] /\ queued' = (queued /\ ~resent)
      /\ Quiet /\ UNCHANGED editor /\ s \in InFlight
  BY DEF FailRequest, Quiet
<1>2. requests = [t \in Slots |-> requests[t]] /\ page.lag \in Lags /\ now \in Instants
  BY DEF Shapes
<1>3. OneMoves(s) /\ lag \in Lags
  BY <1>1, <1>2 DEF OneMoves, Lags
<1>4. page'.lag = lag /\ page'.address = page.address
  BY <1>1 DEF Shapes
<1>5. Onward
  BY <1>1, <1>2, StandingIsOnward DEF Quiet
<1>6. CASE resent
  <2> DEFINE g == Get("listener", page.address)
  <2>1. /\ Shape(g) /\ g.element = "listener" /\ g.stage = "rows" /\ g.lag = "none"
    BY GetIs DEF OnRegion
  <2>2. Placed(g)
    <3>1. NotAhead(page.address)
      BY <1>2, PastIsNotAhead DEF Asked
    <3> QED
      BY <3>1, GetPlaced DEF Asked, OnRegion, SameRegion
  <2> HIDE DEF g
  <2>3. requests'[s] = g /\ lag = "asked" /\ queued' = FALSE
    BY <1>1, <1>2, <1>6 DEF g
  <2>4. Placed(requests[s])'
    BY <1>2, <1>4, <1>5, <2>1, <2>2, <2>3, StillPlaced
  <2>5. FreshRead(requests[s])'
    BY <2>1, <2>3, UnreadIsFresh
  <2>6. OneEach'
    <3>1. \A t \in Slots : requests'[t].element = requests[t].element
      BY <1>3, <1>6, <2>1, <2>3 DEF OneMoves
    <3> QED
      BY <3>1 DEF Asked, OneEach
  <2>7. OnItsWay' /\ (queued => Busy("listener"))'
    BY <2>1, <2>3 DEF OnItsWay, InFlight
  <2> QED
    BY <1>1, <1>3, <2>1, <2>3, <2>4, <2>5, <2>6, <2>7, SlotPreserves
<1>7. CASE ~resent
  <2>1. requests'[s] = Idle
    BY <1>1, <1>2, <1>7
  <2>2. Shape(requests'[s]) /\ Placed(requests[s])' /\ FreshRead(requests[s])'
    BY <2>1, IdleIs, UnreadIsFresh
  <2>3. \A t \in Slots \ {s} : requests'[t] = requests[t]
    BY <1>3 DEF OneMoves
  <2>4. OneEach'
    BY <2>1, <2>3, IdleIs DEF Asked, OneEach
  <2>5. (queued => Busy("listener"))'
    <3>1. ASSUME queued' PROVE Busy("listener")'
      <4>1. queued /\ r.element # "listener"
        BY <1>1, <1>7, <3>1
      <4>2. PICK t \in Slots : requests[t].element = "listener"
        BY <4>1 DEF Asked, Busy, InFlight
      <4>3. requests'[t].element = "listener"
        BY <2>3, <4>1, <4>2
      <4> QED
        BY <4>3 DEF Busy, InFlight
    <3> QED
      BY <3>1
  <2>6. OnItsWay'
    <3>1. ASSUME page'.lag = "asked" PROVE \E t \in InFlight' : requests'[t].lag = "none"
      <4>1. page.lag = "asked" /\ r.lag # "none"
        BY <1>4, <1>7, <3>1
      <4>2. PICK t \in InFlight : requests[t].lag = "none"
        BY <4>1 DEF OnItsWay
      <4>3. t \in Slots /\ requests'[t] = requests[t] /\ requests[t].element # "none"
        BY <2>3, <4>1, <4>2 DEF InFlight
      <4> QED
        BY <4>2, <4>3 DEF InFlight
    <3> QED
      BY <3>1 DEF OnItsWay
  <2>7. lag = "none" => page.lag = "none"
    BY <1>7
  <2> QED
    BY <1>1, <1>3, <2>2, <2>4, <2>5, <2>6, <2>7, SlotPreserves
<1> QED
  BY <1>6, <1>7

\* A request that is sent has read nothing yet.
LEMMA SendPreserves ==
  ASSUME ScreenInv, NEW element \in {"page", "sync", "tab"}, NEW address,
         Send(element, address), AddressOK(address), NotAhead(address),
         element = "page" => editor.stage = "none",
         element # "page" => Over(address) /\ SameRegion(address),
         element = "sync" => ~Busy("sync")
  PROVE  ScreenInv'
<1> USE DEF ScreenInv
<1> DEFINE g == Get(element, address)
<1>1. PICK s \in Slots \ InFlight : requests' = [requests EXCEPT ![s] = g]
  BY DEF Send
<1>2. Quiet /\ UNCHANGED <<page, queued, editor>>
  BY DEF Send, Quiet
<1>3. /\ Shape(g) /\ g.element = element /\ g.stage = "rows" /\ g.lag = "none"
      /\ Placed(g)
  BY GetIs, GetPlaced DEF OnRegion
<1> HIDE DEF g
<1>4. requests = [t \in Slots |-> requests[t]] /\ now \in Instants
  BY DEF Shapes
<1>5. OneMoves(s) /\ requests'[s] = g /\ requests[s].element = "none"
  BY <1>1, <1>4 DEF OneMoves, InFlight
<1>6. Onward
  BY <1>2, <1>4, StandingIsOnward DEF Quiet
<1>7. Placed(requests[s])'
  BY <1>2, <1>3, <1>4, <1>5, <1>6, StillPlaced
<1>8. FreshRead(requests[s])'
  BY <1>3, <1>5, UnreadIsFresh
<1>9. \A t \in Slots \ {s} : requests'[t] = requests[t]
  BY <1>5 DEF OneMoves
<1>10. OneEach'
  BY <1>3, <1>5, <1>9 DEF Asked, OneEach, Busy, InFlight
<1>11. \A t \in InFlight : t \in InFlight' /\ requests'[t] = requests[t]
  BY <1>5, <1>9 DEF InFlight
<1>12. OnItsWay' /\ (queued => Busy("listener"))'
  BY <1>2, <1>11 DEF OnItsWay, Asked, Busy
<1>13. page' = [page EXCEPT !.lag = page.lag] /\ page.lag \in Lags
  BY <1>2 DEF Shapes
<1> QED
  BY <1>1, <1>2, <1>3, <1>5, <1>7, <1>8, <1>10, <1>12, <1>13, SlotPreserves

\* What the tab does preserves the invariant.
LEMMA HomePreserves ==
  ASSUME ScreenInv, Home
  PROVE  ScreenInv'
<1>1. \A a \in Linked : AddressOK(a) /\ NotAhead(a)
  BY DashboardAssumption DEF Linked, AddressOK, NotAhead
<1>2. ASSUME NEW address \in Linked, Navigate(address)
      PROVE  ScreenInv'
  BY <1>1, <1>2, SendPreserves DEF Navigate
<1>3. ASSUME NEW address \in Linked, SwitchView(address)
      PROVE  ScreenInv'
  <2>1. Over(address) /\ SameRegion(address)
    BY <1>3 DEF SwitchView, Over, SameRegion
  <2> QED
    BY <1>1, <1>3, <2>1, SendPreserves DEF SwitchView
<1>4. CASE PostSync
  <2>1. AddressOK(page.address) /\ Over(page.address) /\ SameRegion(page.address)
    BY DEF ScreenInv, Asked, SameRegion
  <2>2. NotAhead(page.address)
    BY <2>1, PastIsNotAhead DEF ScreenInv, Shapes
  <2> QED
    BY <1>4, <2>1, <2>2, SendPreserves DEF PostSync
<1> QED
  BY <1>2, <1>3, <1>4, RedirectPreserves, ReadRowsPreserves, LaterReadPreserves,
     SwapPagePreserves, SwapRegionPreserves, FailRequestPreserves DEF Home

-----------------------------------------------------------------------------
(* The editor's steps. *)

\* While a save is in progress nothing on screen need be fresh.
LEMMA SavingPreserves ==
  ASSUME ScreenInv, UNCHANGED <<tab, now>>, editor'.stage # "none",
         editor' = [stage |-> editor'.stage, txn |-> editor'.txn, class |-> editor'.class],
         editor.stage = "none" => ~Busy("page")
  PROVE  ScreenInv'
<1> USE DEF ScreenInv
<1>1. UNCHANGED <<page, requests, queued, now>>
  BY DEF tab
<1>2. Shapes'
  BY <1>1 DEF Shapes, Shape
<1>3. Asked'
  <2>1. Onward
    BY <1>1, StandingIsOnward DEF Shapes
  <2>2. \A s \in Slots : requests[s].element # "page"
    BY DEF Asked, Placed, Busy, InFlight
  <2>3. \A s \in Slots : Placed(requests[s])'
    BY <1>1, <2>1, <2>2, StillPlaced DEF Shapes, Asked
  <2>4. AddressOK(page.address)' /\ Over(page.address)'
    BY <1>1 DEF Asked, AddressOK, Over
  <2>5. OneEach' /\ (queued => Busy("listener"))'
    BY <1>1 DEF Asked, OneEach, Busy, InFlight
  <2> QED
    BY <2>3, <2>4, <2>5 DEF Asked
<1>4. OnItsWay'
  BY <1>1 DEF OnItsWay, InFlight
<1>5. ReadsFresh' /\ ScreenFresh'
  BY DEF ReadsFresh, ScreenFresh
<1> QED
  BY <1>2, <1>3, <1>4, <1>5

\* An announcement is read for, unless a listener waiting for its answer has to put it off.
LEMMA AnnouncePreserves ==
  ASSUME ScreenInv, Announce
  PROVE  ScreenInv'
<1> USE DEF ScreenInv
<1>1. /\ editor.stage = "announce" /\ editor' = NoSave /\ Quiet
      /\ NoSave.stage = "none"
      /\ editor' = [stage |-> editor'.stage, txn |-> editor'.txn, class |-> editor'.class]
  BY DEF Announce, NoSave, Quiet
<1>2. now \in Instants /\ Onward
  BY <1>1, StandingIsOnward DEF Shapes, Quiet
<1>3. CASE Busy("listener") /\ Changed("missed") /\ queued' = TRUE
  BY <1>1, <1>2, <1>3, ChangePreserves
<1>4. ASSUME ~Busy("listener"), NEW s \in Slots \ InFlight,
             requests' = [t \in Slots |-> IF t = s THEN Get("listener", page.address)
                                                   ELSE Behind(requests[t], "asked")],
             page' = [page EXCEPT !.lag = "asked"], UNCHANGED queued
      PROVE  ScreenInv'
  <2> DEFINE g == Get("listener", page.address)
  <2>1. /\ Shape(g) /\ g.element = "listener" /\ g.stage = "rows" /\ g.lag = "none"
    BY GetIs DEF OnRegion
  <2>2. Placed(g)
    <3>1. NotAhead(page.address)
      BY <1>2, PastIsNotAhead DEF Asked
    <3> QED
      BY <3>1, GetPlaced DEF Asked, OnRegion, SameRegion
  <2> HIDE DEF g
  <2>3. requests'[s] = g
    BY <1>4 DEF g
  <2>4. \A t \in Slots \ {s} : requests'[t] = Behind(requests[t], "asked")
    BY <1>4
  <2>5. ASSUME NEW t \in Slots
        PROVE  /\ Shape(requests'[t]) /\ Placed(requests'[t])
               /\ requests'[t].element # "page"
               /\ requests'[t].lag = "none" => requests'[t].stage = "rows"
               /\ t # s => requests'[t].element = requests[t].element
    <3>1. CASE t = s
      BY <2>1, <2>2, <2>3, <3>1
    <3>2. CASE t # s
      <4>1. Shape(requests[t]) /\ Placed(requests[t]) /\ requests[t].element # "page"
        BY <1>1 DEF Shapes, Asked, Placed
      <4> QED
        BY <2>4, <3>2, <4>1, BehindIs DEF Lags
    <3> QED
      BY <3>1, <3>2
  <2>6. page' = [address |-> page.address, view |-> page.view, lag |-> "asked",
                 month |-> page.month, badges |-> page.badges, rail |-> page.rail]
    BY <1>4 DEF Shapes
  <2>7. Shapes'
    <3>1. \A t \in Slots : Shape(requests[t])'
      BY <2>5 DEF Shape
    <3> QED
      BY <1>1, <1>2, <1>4, <2>6, <3>1 DEF Shapes, Lags, Onward
  <2>8. Asked'
    <3>1. \A t \in Slots : Placed(requests[t])'
      BY <1>2, <2>5, <2>6, StillPlaced
    <3>2. AddressOK(page.address)' /\ Over(page.address)'
      BY <1>1, <2>6 DEF Asked, AddressOK, Over, Quiet
    <3>3. OneEach'
      BY <1>4, <2>1, <2>3, <2>5 DEF Asked, OneEach, Busy, InFlight
    <3>4. ~queued'
      BY <1>4 DEF Asked
    <3> QED
      BY <3>1, <3>2, <3>3, <3>4 DEF Asked
  <2>9. ReadsFresh'
    BY <2>5, UnreadIsFresh DEF ReadsFresh
  <2>10. OnItsWay' /\ ScreenFresh'
    BY <2>1, <2>3, <2>6 DEF OnItsWay, InFlight, ScreenFresh
  <2> QED
    BY <2>7, <2>8, <2>9, <2>10
<1> QED
  BY <1>3, <1>4 DEF Announce

\* What the transaction editor does preserves the invariant.
LEMMA EditorPreserves ==
  ASSUME ScreenInv, Editor
  PROVE  ScreenInv'
<1> USE DEF ScreenInv
<1>1. ASSUME NEW t \in Txns, NEW choice \in UserChoices, PostEdit(t, choice)
      PROVE  ScreenInv'
  BY <1>1, SavingPreserves DEF PostEdit
<1>2. CASE CheckOutflow
  <2>1. PICK stage \in {"mark", "announce"} : editor' = [editor EXCEPT !.stage = stage]
    BY <1>2 DEF CheckOutflow
  <2>2. editor' = [stage |-> stage, txn |-> editor.txn, class |-> editor.class]
    BY <2>1 DEF Shapes
  <2> QED
    BY <1>2, <2>1, <2>2, SavingPreserves DEF CheckOutflow
<1>3. ASSUME NEW destined, NEW subtype, MarkTransferDestination(destined, subtype)
      PROVE  ScreenInv'
  <2>1. editor' = [stage |-> "announce", txn |-> editor.txn, class |-> editor.class]
    BY <1>3 DEF MarkTransferDestination, Shapes
  <2> QED
    BY <1>3, <2>1, SavingPreserves DEF MarkTransferDestination
<1>4. CASE FailEdit
  <2>1. Changed("missed") /\ UNCHANGED <<now, queued>> /\ editor' = NoSave
    BY <1>4 DEF FailEdit
  <2>2. Onward
    BY <2>1, StandingIsOnward DEF Shapes
  <2> QED
    BY <2>1, <2>2, ChangePreserves DEF NoSave
<1> QED
  BY <1>1, <1>2, <1>3, <1>4, AnnouncePreserves DEF Editor

-----------------------------------------------------------------------------
(* The screen. *)

\* What a page shows at first is what the tables say.
LEMMA ScreenInvInit ==
  ASSUME Init
  PROVE  ScreenInv
<1>1. PICK a \in Linked : ~OfCurrentMonth(a) /\ page = PageOf(a, ReadNow(a), "none")
  BY DEF Init
<1>2. now \in Instants /\ requests = [s \in Slots |-> Idle] /\ queued = FALSE
      /\ editor = NoSave
  BY DEF Init
<1>3. AddressOK(a) /\ Over(a)
  <2>1. AddressOK(a) /\ NotAhead(a)
    BY DashboardAssumption DEF Linked, AddressOK, NotAhead
  <2>2. CurrentMonth(now) \in Int
    BY <1>2, MonthsRun, MonthsAreNumbers
  <2>3. ASSUME a.page = "wrap" PROVE a.month < CurrentMonth(now)
    <3>1. a.month \in Int /\ a.month <= CurrentMonth(now) /\ a.month # CurrentMonth(now)
      BY <1>1, <2>1, <2>3, MonthsAreNumbers DEF AddressOK, NotAhead, OfCurrentMonth
    <3> QED
      BY <2>2, <3>1
  <2> QED
    BY <2>1, <2>3 DEF Over
<1>4. /\ page.address = a /\ page.view = ViewNow(a) /\ page.lag = "none"
      /\ page = [address |-> page.address, view |-> page.view, lag |-> page.lag,
                 month |-> page.month, badges |-> page.badges, rail |-> page.rail]
  BY <1>1 DEF PageOf, ViewNow
<1>5. \A s \in Slots : requests[s] = Idle
  BY <1>2
<1>6. Shapes
  BY <1>2, <1>4, <1>5, IdleIs DEF Shapes, NoSave, Lags
<1>7. Asked
  BY <1>2, <1>3, <1>4, <1>5, IdleIs DEF Asked, OneEach
<1>8. ReadsFresh
  BY <1>5, IdleIs, UnreadIsFresh DEF ReadsFresh
<1>9. OnItsWay /\ ScreenFresh
  BY <1>4 DEF OnItsWay, ScreenFresh
<1> QED
  BY <1>6, <1>7, <1>8, <1>9 DEF ScreenInv

\* Every step preserves the invariant.
LEMMA ScreenInvNext ==
  ASSUME ScreenInv, [Next]_vars
  PROVE  ScreenInv'
<1>1. CASE UNCHANGED vars
  BY <1>1, ElsewherePreserves DEF vars
<1>2. CASE Next
  BY <1>2, HomePreserves, EditorPreserves, BudgetEditorPreserves, OthersPreserve DEF Next
<1> QED
  BY <1>1, <1>2

\* At rest, a page shows what the tables say, whatever was edited and read in any order,
\* unless it missed something (announceChange, the pages' refresh listeners).
THEOREM StaleIsMissed == Spec => []StaleOnlyIfMissed
<1>1. Init => ScreenInv
  BY ScreenInvInit
<1>2. ScreenInv /\ [Next]_vars => ScreenInv'
  BY ScreenInvNext
<1>3. ScreenInv => StaleOnlyIfMissed
  BY DEF ScreenInv, Shapes, Lags, OnItsWay, ScreenFresh, StaleOnlyIfMissed, AtRest
<1> QED
  BY <1>1, <1>2, <1>3, PTL DEF Spec
-----------------------------------------------------------------------------
(* The rows, the budget and its editor.                                     *)

\* The row with these facets, otherwise as r.
Rewritten(r, pending, class, category, subtype, destined, overridden, marked) ==
  [txn |-> r.txn, account |-> r.account, day |-> r.day, amount |-> r.amount,
   pending |-> pending, class |-> class, category |-> category, subtype |-> subtype,
   destined |-> destined, overridden |-> overridden, marked |-> marked]

Columns == {"txn", "account", "day", "amount", "pending", "class", "category", "subtype",
            "destined", "overridden", "marked"}

\* What a column is written over with.
Column(r, change, column) == IF column \in DOMAIN change THEN change[column] ELSE r[column]

\* A row written over column by column.
LEMMA UpdatedColumns ==
  ASSUME NEW r \in Rows, NEW change,
         DOMAIN change \cap {"txn", "account", "day", "amount"} = {}
  PROVE  Updated(r, change)
           = Rewritten(r, Column(r, change, "pending"), Column(r, change, "class"),
                       Column(r, change, "category"), Column(r, change, "subtype"),
                       Column(r, change, "destined"), Column(r, change, "overridden"),
                       Column(r, change, "marked"))
<1> DEFINE q == Updated(r, change)
           w == Rewritten(r, Column(r, change, "pending"), Column(r, change, "class"),
                          Column(r, change, "category"), Column(r, change, "subtype"),
                          Column(r, change, "destined"), Column(r, change, "overridden"),
                          Column(r, change, "marked"))
<1>1. DOMAIN r = Columns
  BY DEF Rows, Columns
<1>2. /\ q = [column \in Columns |-> q[column]]
      /\ \A column \in Columns :
           q[column] = Column(r, change, column)
  BY <1>1 DEF Updated, Column
<1>3. w = [column \in Columns |-> w[column]]
  BY DEF Rewritten, Columns
<1>4. \A column \in Columns : w[column] = Column(r, change, column)
  BY DEF Rewritten, Columns, Column
<1> HIDE DEF q, w
<1> QED
  BY <1>2, <1>3, <1>4 DEF q, w

\* The facets some writer may leave to a row of this amount.
FacetsOK(amount, pending, class, category, subtype, destined, overridden, marked) ==
  /\ pending \in BOOLEAN /\ class \in {"", "spending", "income", "transfer", "needs_review"}
  /\ category \in Categories \cup {NoCategory} /\ subtype \in Subtypes
  /\ destined \in BOOLEAN /\ overridden \in BOOLEAN /\ marked \in BOOLEAN
  /\ category # NoCategory => class = "spending"
  /\ marked => subtype # "" /\ amount > 0
  /\ marked /\ overridden => class = "transfer"

\* They make a row of the one rewritten.
LEMMA RewrittenOK ==
  ASSUME NEW t, NEW r, RowOK(r, t), NEW pending, NEW class, NEW category, NEW subtype,
         NEW destined, NEW overridden, NEW marked,
         FacetsOK(r.amount, pending, class, category, subtype, destined, overridden, marked)
  PROVE  RowOK(Rewritten(r, pending, class, category, subtype, destined, overridden, marked), t)
<1> USE DEF FacetsOK
<1>1. /\ r.txn \in Txns /\ r.account \in Accounts /\ r.day \in Days /\ r.amount \in Int
      /\ r.txn = t
  BY DEF RowOK, Rows
<1> DEFINE w == Rewritten(r, pending, class, category, subtype, destined, overridden, marked)
<1>2. w \in Rows
  BY <1>1 DEF Rewritten, Rows
<1>3. /\ w.txn = r.txn /\ w.amount = r.amount /\ w.class = class /\ w.category = category
      /\ w.subtype = subtype /\ w.overridden = overridden /\ w.marked = marked
  BY DEF Rewritten
<1> HIDE DEF w
<1>4. RowOK(w, t)
  BY <1>1, <1>2, <1>3 DEF RowOK
<1> QED
  BY <1>4 DEF w

\* What every writer makes of a row is a row.
LEMMA WritersKeepRows ==
  ASSUME NEW t, NEW r, RowOK(r, t)
  PROVE  /\ RowOK(Updated(r, [pending |-> FALSE]), t)
         /\ \A choice \in UserChoices : RowOK(Updated(r, Overridden(choice)), t)
         /\ ~r.overridden => \A d \in Decisions : RowOK(Updated(r, d), t)
         /\ ~r.marked =>
              \A destined \in BOOLEAN, subtype \in {"plain", "savings_contribution"} :
                RowOK(Updated(r, [destined |-> destined, subtype |-> subtype]), t)
         /\ r.class = "transfer" /\ r.amount > 0 =>
              \A destined \in BOOLEAN, subtype \in {"plain", "savings_contribution"} :
                RowOK(Updated(r, [destined |-> destined, subtype |-> subtype,
                                  marked |-> TRUE]), t)
<1>1. /\ r \in Rows /\ r.pending \in BOOLEAN /\ r.category \in Categories \cup {NoCategory}
      /\ r.class \in {"", "spending", "income", "transfer", "needs_review"}
      /\ r.subtype \in Subtypes /\ r.destined \in BOOLEAN /\ r.overridden \in BOOLEAN
      /\ r.marked \in BOOLEAN /\ (r.category # NoCategory => r.class = "spending")
      /\ (r.marked => r.subtype # "" /\ r.amount > 0)
      /\ (r.marked /\ r.overridden => r.class = "transfer")
  BY DEF RowOK, Rows
<1>2. RowOK(Updated(r, [pending |-> FALSE]), t)
  <2> DEFINE c == [pending |-> FALSE]
  <2>1. DOMAIN c = {"pending"}
    OBVIOUS
  <2>2. c["pending"] = FALSE
    OBVIOUS
  <2> HIDE DEF c
  <2>3. Updated(r, c)
          = Rewritten(r, FALSE, r.class, r.category, r.subtype, r.destined, r.overridden,
                      r.marked)
    BY <1>1, <2>1, <2>2, UpdatedColumns DEF Column
  <2>4. FacetsOK(r.amount, FALSE, r.class, r.category, r.subtype, r.destined, r.overridden,
                 r.marked)
    BY <1>1 DEF FacetsOK, Subtypes
  <2>5. RowOK(Rewritten(r, FALSE, r.class, r.category, r.subtype, r.destined,
                        r.overridden, r.marked), t)
    BY <2>4, RewrittenOK
  <2> QED
    BY <2>3, <2>5 DEF c
<1>3. ASSUME NEW choice \in UserChoices PROVE RowOK(Updated(r, Overridden(choice)), t)
  <2>1. /\ choice.class \in {"spending", "income", "transfer", "needs_review"}
        /\ choice.category \in Categories \cup {NoCategory}
        /\ choice.category # NoCategory => choice.class = "spending"
    BY DEF UserChoices, Decisions
  <2>2. CASE choice.class = "transfer"
    <3> DEFINE c == Overridden(choice)
    <3>1. DOMAIN c = {"class", "category", "overridden"}
      BY <2>2 DEF Overridden
    <3>2. c["class"] = choice.class /\ c["category"] = choice.category /\ c["overridden"] = TRUE
      BY <2>2 DEF Overridden
    <3> HIDE DEF c
    <3>3. Updated(r, c)
            = Rewritten(r, r.pending, choice.class, choice.category, r.subtype,
                        r.destined, TRUE, r.marked)
      BY <1>1, <3>1, <3>2, UpdatedColumns DEF Column
    <3>4. FacetsOK(r.amount, r.pending, choice.class, choice.category, r.subtype,
                   r.destined, TRUE, r.marked)
      BY <1>1, <2>1, <2>2 DEF FacetsOK, Subtypes
    <3>5. RowOK(Rewritten(r, r.pending, choice.class, choice.category, r.subtype,
                          r.destined, TRUE, r.marked), t)
      BY <3>4, RewrittenOK
    <3> QED
      BY <3>3, <3>5 DEF c
  <2>3. CASE choice.class # "transfer"
    <3> DEFINE c == Overridden(choice)
    <3>1. DOMAIN c = {"class", "category", "overridden", "subtype", "destined", "marked"}
      BY <2>3 DEF Overridden
    <3>2. /\ c["class"] = choice.class /\ c["category"] = choice.category
          /\ c["overridden"] = TRUE /\ c["subtype"] = "" /\ c["destined"] = FALSE
          /\ c["marked"] = FALSE
      BY <2>3 DEF Overridden
    <3> HIDE DEF c
    <3>3. Updated(r, c)
            = Rewritten(r, r.pending, choice.class, choice.category, "", FALSE, TRUE,
                        FALSE)
      BY <1>1, <3>1, <3>2, UpdatedColumns DEF Column
    <3>4. FacetsOK(r.amount, r.pending, choice.class, choice.category, "", FALSE, TRUE,
                   FALSE)
      BY <1>1, <2>1, <2>3 DEF FacetsOK, Subtypes
    <3>5. RowOK(Rewritten(r, r.pending, choice.class, choice.category, "", FALSE, TRUE,
                          FALSE), t)
      BY <3>4, RewrittenOK
    <3> QED
      BY <3>3, <3>5 DEF c
  <2> QED
    BY <2>2, <2>3
<1>4. ASSUME ~r.overridden, NEW d \in Decisions PROVE RowOK(Updated(r, d), t)
  <2>1. /\ d.class \in {"spending", "income", "transfer", "needs_review"}
        /\ d.category \in Categories \cup {NoCategory}
        /\ d.category # NoCategory => d.class = "spending"
    BY DEF Decisions
  <2>2. DOMAIN d = {"class", "category"}
    BY DEF Decisions
  <2>3. Updated(r, d)
          = Rewritten(r, r.pending, d.class, d.category, r.subtype, r.destined,
                      r.overridden, r.marked)
    BY <1>1, <2>2, UpdatedColumns DEF Column
  <2>4. FacetsOK(r.amount, r.pending, d.class, d.category, r.subtype, r.destined,
                 r.overridden, r.marked)
    BY <1>1, <1>4, <2>1 DEF FacetsOK, Subtypes
  <2>5. RowOK(Rewritten(r, r.pending, d.class, d.category, r.subtype, r.destined,
                        r.overridden, r.marked), t)
    BY <2>4, RewrittenOK
  <2> QED
    BY <2>3, <2>5
<1>5. ASSUME ~r.marked, NEW destined \in BOOLEAN,
             NEW subtype \in {"plain", "savings_contribution"}
      PROVE  RowOK(Updated(r, [destined |-> destined, subtype |-> subtype]), t)
  <2> DEFINE c == [destined |-> destined, subtype |-> subtype]
  <2>1. DOMAIN c = {"destined", "subtype"}
    OBVIOUS
  <2>2. c["destined"] = destined /\ c["subtype"] = subtype
    OBVIOUS
  <2> HIDE DEF c
  <2>3. Updated(r, c)
          = Rewritten(r, r.pending, r.class, r.category, subtype, destined, r.overridden,
                      r.marked)
    BY <1>1, <2>1, <2>2, UpdatedColumns DEF Column
  <2>4. FacetsOK(r.amount, r.pending, r.class, r.category, subtype, destined, r.overridden,
                 r.marked)
    BY <1>1, <1>5 DEF FacetsOK, Subtypes
  <2>5. RowOK(Rewritten(r, r.pending, r.class, r.category, subtype, destined,
                        r.overridden, r.marked), t)
    BY <2>4, RewrittenOK
  <2> QED
    BY <2>3, <2>5 DEF c
<1>6. ASSUME r.class = "transfer", r.amount > 0, NEW destined \in BOOLEAN,
             NEW subtype \in {"plain", "savings_contribution"}
      PROVE  RowOK(Updated(r, [destined |-> destined, subtype |-> subtype,
                               marked |-> TRUE]), t)
  <2> DEFINE c == [destined |-> destined, subtype |-> subtype, marked |-> TRUE]
  <2>1. DOMAIN c = {"destined", "subtype", "marked"}
    OBVIOUS
  <2>2. c["destined"] = destined /\ c["subtype"] = subtype /\ c["marked"] = TRUE
    OBVIOUS
  <2> HIDE DEF c
  <2>3. Updated(r, c)
          = Rewritten(r, r.pending, r.class, r.category, subtype, destined, r.overridden,
                      TRUE)
    BY <1>1, <2>1, <2>2, UpdatedColumns DEF Column
  <2>4. FacetsOK(r.amount, r.pending, r.class, r.category, subtype, destined, r.overridden,
                 TRUE)
    BY <1>1, <1>6 DEF FacetsOK, Subtypes
  <2>5. RowOK(Rewritten(r, r.pending, r.class, r.category, subtype, destined,
                        r.overridden, TRUE), t)
    BY <2>4, RewrittenOK
  <2> QED
    BY <2>3, <2>5 DEF c
<1> QED
  BY <1>2, <1>3, <1>4, <1>5, <1>6

\* So is what the bank posts.
LEMMA PostedRow ==
  ASSUME NEW t \in Txns
  PROVE  RowOK(Row(t, NoFacets), t)
<1>1. Reports[t] \in [account : Accounts, day : Days, amount : Int, pending : BOOLEAN]
  BY DashboardAssumption
<1>2. /\ NoFacets.class = "" /\ NoFacets.category = NoCategory /\ NoFacets.subtype = ""
      /\ NoFacets.destined = FALSE /\ NoFacets.overridden = FALSE /\ NoFacets.marked = FALSE
  BY DEF NoFacets, Facets
<1> QED
  BY <1>1, <1>2 DEF RowOK, Row, Rows, Subtypes
-----------------------------------------------------------------------------
(* What the tables, the budget editor and the counters hold. *)

LedgerOK(l) == DOMAIN l = Txns /\ \A t \in Txns : l[t] # Absent => RowOK(l[t], t)

BudgetOK == targets \in Targets \cup {NoTargets} /\ limits \in Budgets

\* A save is of targets and amounts the form can submit; from its second statement on it
\* holds limits.
PostOK ==
  /\ post = [stage |-> post.stage, targets |-> post.targets, amounts |-> post.amounts,
             limits |-> post.limits]
  /\ post.stage \in {"none", "active", "save", "render"}
  /\ post.stage \in {"active", "save"} => post.targets \in Targets
  /\ post.stage = "active" => post.amounts \in [Categories -> Amounts]
  /\ post.stage = "save" => post.limits \in Budgets

TablesInv ==
  /\ LedgerOK(ledger)
  /\ accounts \subseteq Accounts /\ archived \subseteq Categories
  /\ BudgetOK
  /\ editor.stage \in {"none", "check", "mark", "announce"}
  /\ form \in (SUBSET Categories) \cup {Nothing}
  /\ PostOK
  /\ moves \in 0..MaxMoves

\* Limits are a budget when they are positive amounts on some categories.
LEMMA IsBudget ==
  ASSUME NEW K \in SUBSET Categories, NEW f, f = [k \in K |-> f[k]],
         \A k \in K : f[k] \in Amounts \ {0}
  PROVE  f \in Budgets
<1>1. f \in [K -> Amounts \ {0}]
  OBVIOUS
<1> QED
  BY <1>1 DEF Budgets

\* and a budget is made of such.
LEMMA BudgetIs ==
  ASSUME NEW f \in Budgets
  PROVE  /\ DOMAIN f \in SUBSET Categories /\ f = [k \in DOMAIN f |-> f[k]]
         /\ \A k \in DOMAIN f : f[k] \in Amounts \ {0} /\ f[k] \in Nat
<1>1. PICK K \in SUBSET Categories : f \in [K -> Amounts \ {0}]
  BY DEF Budgets
<1> QED
  BY <1>1, DashboardAssumption

\* The active limits of a budget are a budget.
LEMMA ActiveIsBudget ==
  ASSUME NEW f \in Budgets, NEW active
  PROVE  ActiveLimits(f, active) \in Budgets
<1> DEFINE K == DOMAIN f \cap active
           g == [k \in K |-> f[k]]
<1>1. K \in SUBSET Categories /\ \A k \in K : f[k] \in Amounts \ {0}
  BY BudgetIs
<1>2. g = [k \in K |-> g[k]] /\ \A k \in K : g[k] \in Amounts \ {0}
  BY <1>1
<1>3. ActiveLimits(f, active) = g
  BY DEF ActiveLimits
<1> HIDE DEF K, g
<1> QED
  BY <1>1, <1>2, <1>3, IsBudget

\* A write to a row leaves the ledger in order when it leaves the row in order.
LEMMA WriteKeepsLedger ==
  ASSUME NEW l, LedgerOK(l), NEW t \in Txns, NEW r, r # Absent => RowOK(r, t)
  PROVE  LedgerOK([l EXCEPT ![t] = r])
<1> DEFINE m == [l EXCEPT ![t] = r]
<1>1. DOMAIN m = Txns /\ m[t] = r /\ \A s \in Txns : s # t => m[s] = l[s]
  BY DEF LedgerOK
<1> HIDE DEF m
<1>2. LedgerOK(m)
  BY <1>1 DEF LedgerOK
<1> QED
  BY <1>2 DEF m

LEMMA WriteIsOK ==
  ASSUME LedgerOK(ledger), NEW t \in Txns, NEW change, Write(t, change),
         t \in Stored => RowOK(Updated(ledger[t], change), t)
  PROVE  LedgerOK(ledger')
<1>1. CASE t \in Stored
  BY <1>1, WriteKeepsLedger DEF Write
<1>2. CASE t \notin Stored
  BY <1>2 DEF Write
<1> QED
  BY <1>1, <1>2

\* A stored row is in order.
LEMMA StoredRow ==
  ASSUME LedgerOK(ledger), NEW t \in Stored
  PROVE  t \in Txns /\ RowOK(ledger[t], t)
  BY DEF LedgerOK, Stored

\* The bank, the rules and the editors leave the ledger in order.
LEMMA LedgerPreserved ==
  ASSUME LedgerOK(ledger), [Next]_vars
  PROVE  LedgerOK(ledger')
<1>1. ASSUME NEW t \in Txns, NEW choice \in UserChoices, PostEdit(t, choice)
      PROVE  LedgerOK(ledger')
  <2>1. Write(t, Overridden(choice))
    BY <1>1 DEF PostEdit
  <2>2. t \in Stored => RowOK(Updated(ledger[t], Overridden(choice)), t)
    BY StoredRow, WritersKeepRows
  <2> QED
    BY <2>1, <2>2, WriteIsOK
<1>2. ASSUME NEW destined \in BOOLEAN, NEW subtype \in {"plain", "savings_contribution"},
             MarkTransferDestination(destined, subtype)
      PROVE  LedgerOK(ledger')
  <2> DEFINE c == [destined |-> destined, subtype |-> subtype, marked |-> TRUE]
  <2>1. editor.txn \in Stored /\ Write(editor.txn, c)
        /\ ledger[editor.txn].class = "transfer" /\ ledger[editor.txn].amount > 0
    BY <1>2 DEF MarkTransferDestination, Markable
  <2>2. editor.txn \in Txns /\ RowOK(ledger[editor.txn], editor.txn)
    BY <2>1, StoredRow
  <2>3. RowOK(Updated(ledger[editor.txn], c), editor.txn)
    BY <2>1, <2>2, WritersKeepRows
  <2> HIDE DEF c
  <2> QED
    BY <2>1, <2>2, <2>3, WriteIsOK
<1>3. ASSUME NEW t \in Txns, BankPosts(t) PROVE LedgerOK(ledger')
  BY <1>3, PostedRow, WriteKeepsLedger DEF BankPosts
<1>4. ASSUME NEW t \in Txns, BankSettles(t) PROVE LedgerOK(ledger')
  <2>1. Write(t, [pending |-> FALSE]) /\ t \in Stored
    BY <1>4 DEF BankSettles
  <2>2. RowOK(Updated(ledger[t], [pending |-> FALSE]), t)
    BY <2>1, StoredRow, WritersKeepRows
  <2> QED
    BY <2>1, <2>2, WriteIsOK
<1>5. ASSUME NEW t \in Txns, BankRemoves(t) PROVE LedgerOK(ledger')
  BY <1>5, WriteKeepsLedger DEF BankRemoves
<1>6. ASSUME NEW t \in Txns, NEW decision \in Decisions, Recategorize(t, decision)
      PROVE  LedgerOK(ledger')
  <2>1. Write(t, decision) /\ t \in Stored /\ ~ledger[t].overridden
    BY <1>6 DEF Recategorize
  <2>2. RowOK(Updated(ledger[t], decision), t)
    BY <2>1, StoredRow, WritersKeepRows
  <2> QED
    BY <2>1, <2>2, WriteIsOK
<1>7. ASSUME NEW t \in Txns, NEW destined \in BOOLEAN,
             NEW subtype \in {"plain", "savings_contribution"}, Pair(t, destined, subtype)
      PROVE  LedgerOK(ledger')
  <2> DEFINE c == [destined |-> destined, subtype |-> subtype]
  <2>1. Write(t, c) /\ t \in Stored /\ ~ledger[t].marked
    BY <1>7 DEF Pair, Markable
  <2>2. RowOK(Updated(ledger[t], c), t)
    BY <2>1, StoredRow, WritersKeepRows
  <2> HIDE DEF c
  <2> QED
    BY <2>1, <2>2, WriteIsOK
<1>8. CASE UNCHANGED ledger
  BY <1>8
<1>9. CASE Home
  BY <1>8, <1>9 DEF Home, Redirect, ReadRows, ReadTargets, ReadLimits, ReadActive, ReadEdge,
                    Reading, SwapPage, SwapRegion, FailRequest, Send, Navigate, PostSync,
                    SwitchView, tables
<1>10. CASE Editor
  BY <1>1, <1>2, <1>8, <1>10 DEF Editor, CheckOutflow, Announce, FailEdit, tables
<1>11. CASE BudgetEditor
  BY <1>8, <1>11 DEF BudgetEditor, GetBudgetPage, SubmittedLimits, SetBudget, RenderBudget,
                     FailBudget, PostBudget, tables
<1>12. CASE Others
  BY <1>3, <1>4, <1>5, <1>6, <1>7, <1>8, <1>12
     DEF Others, Disconnect, ArchiveCategory, UnarchiveCategory, TimePasses, tables
<1>13. CASE UNCHANGED vars
  BY <1>8, <1>13 DEF vars, tables
<1> QED
  BY <1>9, <1>10, <1>11, <1>12, <1>13 DEF Next

\* A budget is saved by its transaction alone, out of what was submitted.
LEMMA PostPreserved ==
  ASSUME TablesInv, [Next]_vars
  PROVE  BudgetOK' /\ PostOK'
<1> USE DEF TablesInv
<1>1. ASSUME NEW plan \in Targets, NEW amounts \in [Categories -> Amounts],
             PostBudget(plan, amounts)
      PROVE  BudgetOK' /\ PostOK'
  <2>1. /\ post' = [stage |-> "active", targets |-> plan, amounts |-> amounts,
                    limits |-> Nothing]
        /\ UNCHANGED <<targets, limits>>
    BY <1>1 DEF PostBudget, tables
  <2> QED
    BY <2>1 DEF BudgetOK, PostOK
<1>2. ASSUME SubmittedLimits PROVE BudgetOK' /\ PostOK'
  <2> DEFINE K == {c \in Active : post.amounts[c] > 0}
             kept == [k \in K |-> post.amounts[k]]
  <2>1. /\ post.stage = "active"
        /\ post' = [post EXCEPT !.stage = "save", !.limits = kept]
        /\ UNCHANGED <<targets, limits>>
    BY <1>2 DEF SubmittedLimits, tables
  <2>2. K \in SUBSET Categories /\ kept = [k \in K |-> kept[k]]
    BY DEF Active
  <2>3. \A k \in K : kept[k] \in Amounts \ {0}
    BY <2>1, <2>2, DashboardAssumption DEF PostOK
  <2> HIDE DEF K, kept
  <2>4. kept \in Budgets
    BY <2>2, <2>3, IsBudget
  <2>5. post' = [stage |-> "save", targets |-> post.targets, amounts |-> post.amounts,
                 limits |-> kept]
    BY <2>1 DEF PostOK
  <2> QED
    BY <2>1, <2>4, <2>5 DEF BudgetOK, PostOK
<1>3. ASSUME SetBudget PROVE BudgetOK' /\ PostOK'
  <2>1. post' = [stage |-> "render", targets |-> post.targets, amounts |-> post.amounts,
                 limits |-> post.limits]
    BY <1>3 DEF SetBudget, PostOK
  <2> QED
    BY <1>3, <2>1 DEF SetBudget, BudgetOK, PostOK
<1>4. ASSUME RenderBudget \/ FailBudget PROVE BudgetOK' /\ PostOK'
  BY <1>4 DEF RenderBudget, FailBudget, NoPost, BudgetOK, PostOK, tables
<1>5. CASE UNCHANGED <<targets, limits, post>>
  BY <1>5 DEF BudgetOK, PostOK
<1>6. CASE Home
  BY <1>5, <1>6 DEF Home, Redirect, ReadRows, ReadTargets, ReadLimits, ReadActive, ReadEdge,
                    Reading, SwapPage, SwapRegion, FailRequest, Send, Navigate, PostSync,
                    SwitchView, tables
<1>7. CASE Editor
  BY <1>5, <1>7 DEF Editor, PostEdit, CheckOutflow, MarkTransferDestination, Announce, FailEdit,
                    tables
<1>8. CASE BudgetEditor
  BY <1>1, <1>2, <1>3, <1>4, <1>5, <1>8 DEF BudgetEditor, GetBudgetPage, tables
<1>9. CASE Others
  BY <1>5, <1>9 DEF Others, BankPosts, BankSettles, BankRemoves, Recategorize, Pair, Silently,
                    OnlyLedger, Disconnect, ArchiveCategory, UnarchiveCategory, TimePasses,
                    tables
<1>10. CASE UNCHANGED vars
  BY <1>5, <1>10 DEF vars, tables
<1> QED
  BY <1>6, <1>7, <1>8, <1>9, <1>10 DEF Next

\* The editor goes through its stages.
LEMMA EditorStage ==
  ASSUME TablesInv, Shapes, [Next]_vars
  PROVE  editor'.stage \in {"none", "check", "mark", "announce"}
<1>1. \A stage : [editor EXCEPT !.stage = stage].stage = stage
  BY DEF Shapes
<1>2. CASE Home
  BY <1>2 DEF TablesInv, Home, Redirect, ReadRows, ReadTargets, ReadLimits, ReadActive,
              ReadEdge, Reading, SwapPage, SwapRegion, FailRequest, Send, Navigate, PostSync,
              SwitchView
<1>3. CASE Editor
  <2>1. ASSUME CheckOutflow PROVE editor'.stage \in {"mark", "announce"}
    <3>1. PICK stage \in {"mark", "announce"} : editor' = [editor EXCEPT !.stage = stage]
      BY <2>1 DEF CheckOutflow
    <3> QED
      BY <1>1, <3>1
  <2>2. ASSUME NEW destined, NEW subtype, MarkTransferDestination(destined, subtype)
        PROVE  editor'.stage = "announce"
    BY <1>1, <2>2 DEF MarkTransferDestination
  <2>3. ASSUME NEW t, NEW choice, PostEdit(t, choice) PROVE editor'.stage = "check"
    BY <2>3 DEF PostEdit
  <2>4. Announce \/ FailEdit => editor'.stage = "none"
    BY DEF Announce, FailEdit, NoSave
  <2> QED
    BY <1>3, <2>1, <2>2, <2>3, <2>4 DEF Editor
<1>4. CASE BudgetEditor
  BY <1>4 DEF TablesInv, BudgetEditor, GetBudgetPage, SubmittedLimits, SetBudget, RenderBudget,
              FailBudget, PostBudget
<1>5. CASE Others
  BY <1>5 DEF TablesInv, Others, BankPosts, BankSettles, BankRemoves, Recategorize, Pair,
              Silently, Disconnect, ArchiveCategory, UnarchiveCategory, TimePasses
<1>6. CASE UNCHANGED vars
  BY <1>6 DEF TablesInv, vars
<1> QED
  BY <1>2, <1>3, <1>4, <1>5, <1>6 DEF Next

\* Accounts only go; categories are archived and come back.
LEMMA ListsStand ==
  ASSUME TablesInv, [Next]_vars
  PROVE  /\ accounts' \subseteq Accounts /\ archived' \subseteq Categories
         /\ form' \in (SUBSET Categories) \cup {Nothing}
<1> USE DEF TablesInv
<1>1. CASE Home
  BY <1>1 DEF Home, Redirect, ReadRows, ReadTargets, ReadLimits, ReadActive, ReadEdge, Reading,
              SwapPage, SwapRegion, FailRequest, Send, Navigate, PostSync, SwitchView, tables
<1>2. CASE Editor
  BY <1>2 DEF Editor, PostEdit, CheckOutflow, MarkTransferDestination, Announce, FailEdit,
              tables
<1>3. CASE BudgetEditor
  BY <1>3 DEF BudgetEditor, GetBudgetPage, SubmittedLimits, SetBudget, RenderBudget, FailBudget,
              PostBudget, tables, Active
<1>4. CASE Others
  BY <1>4 DEF Others, BankPosts, BankSettles, BankRemoves, Recategorize, Pair, Silently,
              OnlyLedger, Disconnect, ArchiveCategory, UnarchiveCategory, TimePasses, tables
<1>5. CASE UNCHANGED vars
  BY <1>5 DEF vars, tables
<1> QED
  BY <1>1, <1>2, <1>3, <1>4, <1>5 DEF Next

\* The count of moves stays within its bound.
LEMMA CountsStand ==
  ASSUME TablesInv, [Next]_vars
  PROVE  moves' \in 0..MaxMoves
<1> USE DEF TablesInv
<1>1. ASSUME Move PROVE moves' \in 0..MaxMoves
  BY <1>1, DashboardAssumption DEF Move
<1>2. CASE Home
  BY <1>1, <1>2 DEF Home, Redirect, ReadRows, ReadTargets, ReadLimits, ReadActive, ReadEdge,
                    Reading, SwapPage, SwapRegion, FailRequest, Send, Navigate, PostSync,
                    SwitchView
<1>3. CASE Editor
  BY <1>1, <1>3 DEF Editor, PostEdit, CheckOutflow, MarkTransferDestination, Announce, FailEdit
<1>4. CASE BudgetEditor
  BY <1>1, <1>4 DEF BudgetEditor, GetBudgetPage, SubmittedLimits, SetBudget, RenderBudget,
                    FailBudget, PostBudget
<1>5. CASE Others
  BY <1>1, <1>5 DEF Others, BankPosts, BankSettles, BankRemoves, Recategorize, Pair, Silently,
                    Disconnect, ArchiveCategory, UnarchiveCategory, TimePasses
<1>6. CASE UNCHANGED vars
  BY <1>6 DEF vars
<1> QED
  BY <1>2, <1>3, <1>4, <1>5, <1>6 DEF Next

\* What there is to start from is in order,
LEMMA TablesInit ==
  ASSUME Init
  PROVE  TablesInv
<1>1. LedgerOK(ledger) /\ BudgetOK
  BY StartAssumption DEF Init, LedgerOK, BudgetOK
<1>2. PostOK
  BY DEF Init, PostOK, NoPost
<1>3. editor.stage = "none"
  BY DEF Init, NoSave
<1>4. accounts \subseteq Accounts /\ archived \subseteq Categories
  BY DEF Init
<1>5. moves \in 0..MaxMoves
  BY DashboardAssumption DEF Init
<1>6. form \in (SUBSET Categories) \cup {Nothing}
  BY DEF Init
<1> QED
  BY <1>1, <1>2, <1>3, <1>4, <1>5, <1>6 DEF TablesInv

\* and stays so.
LEMMA TablesNext ==
  ASSUME TablesInv, Shapes, [Next]_vars
  PROVE  TablesInv'
<1>1. LedgerOK(ledger)
  BY DEF TablesInv
<1>2. LedgerOK(ledger') /\ BudgetOK' /\ PostOK'
  BY <1>1, LedgerPreserved, PostPreserved
<1> QED
  BY <1>2, EditorStage, ListsStand, CountsStand DEF TablesInv
-----------------------------------------------------------------------------
(* The figures add up. *)

\* What a row adds to a net, by the row.
Cents == [r \in Rows |-> r.amount]

RowsTyped(rows) == rows \in SUBSET Rows /\ IsFiniteSet(rows)

\* Any part of some rows, too.
LEMMA PartTyped ==
  ASSUME NEW rows, RowsTyped(rows), NEW part \in SUBSET rows
  PROVE  RowsTyped(part)
  BY FS_Subset DEF RowsTyped

\* A net is a sum over the rows.
LEMMA NetIsSum ==
  ASSUME NEW rows, RowsTyped(rows)
  PROVE  /\ Net(rows) = SumFunctionOnSet(Cents, rows)
         /\ Summands(Cents, rows) /\ Net(rows) \in Int
<1> DEFINE f == [r \in rows |-> r.amount]
<1>1. Net(rows) = SumFunctionOnSet(f, rows)
  BY DEF Net, SumFunction
<1>2. \A r \in rows : f[r] = Cents[r] /\ Cents[r] \in Int
  BY DEF RowsTyped, Cents, Rows
<1>3. Summands(Cents, rows)
  BY <1>2 DEF Summands, RowsTyped
<1> HIDE DEF f
<1>4. SumFunctionOnSet(f, rows) = SumFunctionOnSet(Cents, rows)
  BY <1>2, SumSame DEF RowsTyped
<1>5. SumFunctionOnSet(Cents, rows) \in Int
  BY <1>3, SumIsInt
<1> QED
  BY <1>1, <1>3, <1>4, <1>5

\* The nets of two parts.
LEMMA NetJoined ==
  ASSUME NEW R, NEW S, RowsTyped(R \cup S), R \cap S = {}
  PROVE  Net(R \cup S) = Net(R) + Net(S)
<1>1. RowsTyped(R) /\ RowsTyped(S)
  BY PartTyped
<1>2. SumFunctionOnSet(Cents, R \cup S)
        = SumFunctionOnSet(Cents, R) + SumFunctionOnSet(Cents, S)
  BY <1>1, NetIsSum, SumJoined
<1> QED
  BY <1>1, <1>2, NetIsSum

\* The nets of some categories.
LEMMA NetOfCategories ==
  ASSUME NEW K, IsFiniteSet(K), NEW rows, RowsTyped(rows), NEW g,
         \A k \in K : g[k] = Net(InCategory(rows, k))
  PROVE  /\ SumFunctionOnSet(g, K) = Net({r \in rows : r.category \in K})
         /\ Summands(g, K)
<1> DEFINE part == [k \in K |-> InCategory(rows, k)]
           all == {r \in rows : r.category \in K}
<1>1. all = UNION {part[k] : k \in K}
  BY DEF InCategory
<1>2. \A k, l \in K : k # l => part[k] \cap part[l] = {}
  BY DEF InCategory
<1>3. \A k \in K : part[k] \in SUBSET rows
  BY DEF InCategory
<1>4. RowsTyped(all)
  BY PartTyped
<1>5. \A k \in K : g[k] = SumFunctionOnSet(Cents, part[k]) /\ g[k] \in Int
  <2> SUFFICES ASSUME NEW k \in K
               PROVE  g[k] = SumFunctionOnSet(Cents, part[k]) /\ g[k] \in Int
    OBVIOUS
  <2>1. g[k] = Net(part[k]) /\ part[k] \in SUBSET rows
    BY <1>3
  <2> HIDE DEF part
  <2>2. RowsTyped(part[k])
    BY <2>1, PartTyped
  <2> QED
    BY <2>1, <2>2, NetIsSum
<1> HIDE DEF part, all
<1>6. Summands(Cents, UNION {part[k] : k \in K}) /\ Net(all) = SumFunctionOnSet(Cents, all)
  BY <1>1, <1>4, NetIsSum
<1>7. SumFunctionOnSet(g, K) = SumFunctionOnSet(Cents, UNION {part[k] : k \in K})
  BY <1>2, <1>5, <1>6, SumOfParts
<1>8. Summands(g, K)
  BY <1>5 DEF Summands
<1>9. SumFunctionOnSet(g, K) = Net(all)
  BY <1>1, <1>6, <1>7
<1> QED
  BY <1>8, <1>9 DEF all

\* A tracker's lines and the rest share plan and spending; what remains is the
\* difference.
TrackerAddsUp(f, spent) ==
  LET OverAll(field) ==
        SumFunction([k \in DOMAIN f.lines |-> f.lines[k][field]]) + f.rest[field]
  IN /\ OverAll("limit") = f.total.limit
     /\ OverAll("spent") = spent
     /\ f.total.remaining = f.total.limit - spent

LEMMA TrackerFigures ==
  ASSUME NEW rows, RowsTyped(rows), NEW plan, plan.income \in Int, plan.savings \in Int,
         NEW budget \in Budgets, NEW days,
         ~BuildTracker(rows, plan, budget, days).needsBudget
  PROVE  TrackerAddsUp(BuildTracker(rows, plan, budget, days), Net(Spending(rows)))
<1> DEFINE K == DOMAIN budget
           spending == Spending(rows)
           lines == [k \in K |-> Standing(budget[k], Net(InCategory(spending, k)), days)]
           covered == {r \in spending : r.category \in K}
           rest == Standing(ComputeResidual(plan, budget), Net(Residual(rows, budget)), days)
           limit == [k \in K |-> lines[k]["limit"]]
           spent == [k \in K |-> lines[k]["spent"]]
           remaining == [k \in K |-> lines[k].remaining]
           f == BuildTracker(rows, plan, budget, days)
<1>1. /\ f.lines = lines /\ f.rest = rest /\ f.total.limit = plan.income - plan.savings
      /\ f.total.remaining = SumFunction(remaining) + rest.remaining
  BY DEF BuildTracker
<1>2. IsFiniteSet(K) /\ \A k \in K : budget[k] \in Int
  BY BudgetIs, FS_Subset, DashboardAssumption
<1>3. RowsTyped(spending)
  BY PartTyped DEF Spending, OfClass
<1>4. \A k \in K : /\ limit[k] = budget[k]
                   /\ spent[k] = Net(InCategory(spending, k))
                   /\ remaining[k] = limit[k] - spent[k]
  BY DEF Standing
<1>5. /\ rest.limit = plan.income - TotalLimits(budget) - plan.savings
      /\ rest.spent = Net(Residual(rows, budget)) /\ rest.remaining = rest.limit - rest.spent
      /\ rest["limit"] = rest.limit /\ rest["spent"] = rest.spent
  BY DEF Standing, ComputeResidual
<1>6. /\ Residual(rows, budget) \cup covered = spending
      /\ Residual(rows, budget) \cap covered = {}
  BY DEF Residual
<1>7. covered \in SUBSET spending
  OBVIOUS
<1>8. DOMAIN lines = K /\ limit = [k \in DOMAIN lines |-> lines[k]["limit"]]
      /\ spent = [k \in DOMAIN lines |-> lines[k]["spent"]]
      /\ DOMAIN limit = K /\ DOMAIN spent = K /\ DOMAIN remaining = K
  OBVIOUS
<1> HIDE DEF lines, limit, spent, remaining, rest, f, spending, K
<1>9. SumFunctionOnSet(spent, K) = Net(covered) /\ Summands(spent, K)
  BY <1>2, <1>3, <1>4, NetOfCategories
<1> HIDE DEF covered
<1>10. Net(spending) = Net(Residual(rows, budget)) + Net(covered)
  BY <1>3, <1>6, NetJoined
<1>11. /\ SumFunctionOnSet(limit, K) = SumFunctionOnSet(budget, K)
       /\ Summands(limit, K) /\ TotalLimits(budget) = SumFunctionOnSet(budget, K)
  BY <1>2, <1>4, SumSame DEF TotalLimits, SumFunction, Summands, K
<1>12. SumFunctionOnSet(remaining, K) = SumFunctionOnSet(limit, K) - SumFunctionOnSet(spent, K)
  BY <1>4, <1>9, <1>11, SumOfDifferences
<1>13. /\ SumFunctionOnSet(limit, K) \in Int /\ SumFunctionOnSet(spent, K) \in Int
       /\ Net(Residual(rows, budget)) \in Int
  <2>1. RowsTyped(Residual(rows, budget))
    BY <1>3, <1>6, PartTyped
  <2> QED
    BY <1>9, <1>11, <2>1, SumIsInt, NetIsSum
<1>14. SumFunction(limit) + rest["limit"] = plan.income - plan.savings
  BY <1>5, <1>8, <1>11, <1>13 DEF SumFunction
<1>15. SumFunction(spent) + rest["spent"] = Net(spending)
  BY <1>5, <1>8, <1>9, <1>10, <1>13 DEF SumFunction
<1>16. SumFunction(remaining) + rest.remaining = plan.income - plan.savings - Net(spending)
  BY <1>5, <1>8, <1>9, <1>10, <1>11, <1>12, <1>13 DEF SumFunction
<1>17. TrackerAddsUp(f, Net(spending))
  BY <1>1, <1>8, <1>14, <1>15, <1>16 DEF TrackerAddsUp
<1> QED
  BY <1>17 DEF f, spending

\* A wrap's categories share the spending.
LEMMA WrapFigures ==
  ASSUME NEW rows, RowsTyped(rows)
  PROVE  LET f == BuildWrap(rows)
         IN /\ SumFunction(f.byCategory) = Net(Spending(rows))
            /\ f.surplus = f.gross - Net(Spending(rows)) - f.saved
<1> DEFINE spending == Spending(rows)
           K == {r.category : r \in spending}
           g == [k \in K |-> Net(InCategory(spending, k))]
<1>1. RowsTyped(spending)
  BY PartTyped DEF Spending, OfClass
<1>2. IsFiniteSet(K)
  <2> DEFINE c == [r \in spending |-> r.category]
             J == {c[r] : r \in spending}
  <2>1. J = K
    OBVIOUS
  <2>2. IsFiniteSet(spending)
    BY <1>1 DEF RowsTyped
  <2> HIDE DEF c, K, spending
  <2>3. IsFiniteSet(J)
    BY <2>2, FiniteImage
  <2> QED
    BY <2>1, <2>3
<1>3. {r \in spending : r.category \in K} = spending
  OBVIOUS
<1>4. DOMAIN g = K /\ \A k \in K : g[k] = Net(InCategory(spending, k))
  OBVIOUS
<1>5. /\ BuildWrap(rows).byCategory = g
      /\ LET f == BuildWrap(rows)
         IN  f.surplus = f.gross - Net(Spending(rows)) - f.saved
  BY DEF BuildWrap
<1> HIDE DEF spending, K, g
<1>6. SumFunctionOnSet(g, K) = Net(spending)
  BY <1>1, <1>2, <1>3, <1>4, NetOfCategories
<1>7. SumFunction(g) = Net(spending)
  BY <1>4, <1>6 DEF SumFunction
<1> QED
  BY <1>5, <1>7 DEF spending
-----------------------------------------------------------------------------
(* What a page has read, and what it shows of it. *)

\* The plan and the limits a read holds once their statements have returned.
PlanTyped(reads) == reads.targets \in Targets \cup {NoTargets}
LimitsTyped(reads) == reads.limits \in Budgets

\* What the statements of a request have returned is what its tables can hold.
ReadTyped(r) ==
  LET planned == r.stage = "respond" /\ "targets" \in Stages(r.address)
  IN /\ r.stage # "rows" => RowsTyped(r.reads.rows)
     /\ r.stage \in {"limits", "active"} \/ planned => PlanTyped(r.reads)
     /\ r.stage = "active" \/ planned => LimitsTyped(r.reads)

ReadsTyped == \A s \in Slots : ReadTyped(requests[s])

\* PartsSumToTotal, of one page.
ViewAddsUp(address, view) ==
  LET f == view.figures
      spent == Net({r \in view.rows : r.class = "spending"})
  IN /\ address.page = "tracker" /\ ~f.needsBudget => TrackerAddsUp(f, spent)
     /\ address.page = "wrap" => /\ SumFunction(f.byCategory) = spent
                                 /\ f.surplus = f.gross - spent - f.saved

LEMMA PartsAreOfPage == PartsSumToTotal <=> ViewAddsUp(page.address, page.view)
  BY DEF PartsSumToTotal, ViewAddsUp, TrackerAddsUp

\* The rows of every page are rows the ledger holds.
LEMMA RowsForTyped ==
  ASSUME LedgerOK(ledger), NEW a
  PROVE  RowsTyped(RowsFor(a))
<1>1. RowsTyped(Listed)
  <2> DEFINE S == {s \in Stored : ledger[s].account \in accounts}
             J == {ledger[t] : t \in S}
  <2>1. S \in SUBSET Txns /\ \A t \in S : ledger[t] \in Rows
    BY StoredRow DEF RowOK
  <2>2. J \in SUBSET Rows /\ Listed = J
    BY <2>1 DEF Listed
  <2> HIDE DEF S
  <2>3. IsFiniteSet(S)
    BY <2>1, FS_Subset, DashboardAssumption
  <2>4. IsFiniteSet(J)
    BY <2>3, FiniteImage
  <2> QED
    BY <2>2, <2>4 DEF RowsTyped
<1>2. \A m : RowsOfMonth(m) \in SUBSET Listed
  BY DEF RowsOfMonth
<1>3. RowsFor(a) \in SUBSET Listed
  BY <1>2 DEF RowsFor, MostRecent
<1> QED
  BY <1>1, <1>3, PartTyped

\* A page that read what its tables can hold adds up.
LEMMA ViewsAddUp ==
  ASSUME NEW a, AddressOK(a), NEW reads, RowsTyped(reads.rows),
         a.page = "tracker" => PlanTyped(reads) /\ LimitsTyped(reads)
  PROVE  ViewAddsUp(a, View(a, reads))
<1> DEFINE view == View(a, reads)
<1>1. CASE a.page = "tracker"
  <2> DEFINE days == DaysLeftInclusive(reads.now)
             f == BuildTracker(reads.rows, reads.targets, reads.limits, days)
  <2>1. view.rows = reads.rows /\ view.figures = f
    BY <1>1 DEF View
  <2>2. reads.targets.income \in Int /\ reads.targets.savings \in Int
    BY <1>1, DashboardAssumption DEF PlanTyped, NoTargets
  <2>3. {r \in view.rows : r.class = "spending"} = Spending(reads.rows)
    BY <2>1 DEF Spending, OfClass
  <2> HIDE DEF view, days
  <2>4. ~f.needsBudget => TrackerAddsUp(f, Net(Spending(reads.rows)))
    BY <1>1, <2>2, TrackerFigures DEF LimitsTyped
  <2> HIDE DEF f
  <2>5. ViewAddsUp(a, view)
    BY <1>1, <2>1, <2>3, <2>4 DEF ViewAddsUp
  <2> QED
    BY <2>5 DEF view
<1>2. CASE a.page = "wrap"
  <2> DEFINE f == BuildWrap(reads.rows)
  <2>1. view.rows = reads.rows /\ view.figures = f
    BY <1>2 DEF View
  <2>2. {r \in view.rows : r.class = "spending"} = Spending(reads.rows)
    BY <2>1 DEF Spending, OfClass
  <2>3. /\ SumFunction(f.byCategory) = Net(Spending(reads.rows))
        /\ f.surplus = f.gross - Net(Spending(reads.rows)) - f.saved
    BY WrapFigures
  <2> HIDE DEF view, f
  <2>4. ViewAddsUp(a, view)
    BY <1>2, <2>1, <2>2, <2>3 DEF ViewAddsUp
  <2> QED
    BY <2>4 DEF view
<1> QED
  BY <1>1, <1>2 DEF ViewAddsUp

\* What is read at this moment is typed.
LEMMA ReadNowTyped ==
  ASSUME TablesInv, NEW a
  PROVE  RowsTyped(ReadNow(a).rows) /\ PlanTyped(ReadNow(a)) /\ LimitsTyped(ReadNow(a))
<1>1. /\ ReadNow(a).rows = RowsFor(a) /\ ReadNow(a).targets = targets
      /\ ReadNow(a).limits = ActiveLimits(limits, Active)
  BY DEF ReadNow
<1>2. LedgerOK(ledger) /\ limits \in Budgets /\ targets \in Targets \cup {NoTargets}
  BY DEF TablesInv, BudgetOK
<1>3. ActiveLimits(limits, Active) \in Budgets
  BY <1>2, ActiveIsBudget
<1> QED
  BY <1>1, <1>2, <1>3, RowsForTyped DEF PlanTyped, LimitsTyped

\* Each statement adds what its table holds to what the request held.
LEMMA ReadStaysTyped ==
  ASSUME TablesInv, Shapes, NEW s \in Slots, ReadTyped(requests[s]),
         ReadRows(s) \/ ReadTargets(s) \/ ReadLimits(s) \/ ReadActive(s) \/ ReadEdge(s)
  PROVE  ReadTyped(requests'[s]) /\ OneMoves(s) /\ page' = page
<1> DEFINE r == requests[s]
           a == r.address
           old == r.reads
<1>1. /\ old = [now |-> old.now, rows |-> old.rows, targets |-> old.targets,
                limits |-> old.limits, edge |-> old.edge]
      /\ r.stage \in Stages(a)
  <2>1. Shape(r)
    BY DEF Shapes
  <2> QED
    BY <2>1 DEF Shape
<1>2. LedgerOK(ledger) /\ limits \in Budgets /\ targets \in Targets \cup {NoTargets}
  BY DEF TablesInv, BudgetOK
<1>3. OneMoves(s) /\ page' = page
  BY ReadingMoves DEF ReadRows, ReadTargets, ReadLimits, ReadActive, ReadEdge
<1>4. CASE ReadRows(s)
  <2> DEFINE reads == [old EXCEPT !.now = now, !.rows = RowsFor(a)]
  <2>1. Reading(s, "rows", reads)
    BY <1>4 DEF ReadRows
  <2>2. reads.rows = RowsFor(a)
    BY <1>1
  <2> HIDE DEF reads
  <2>3. /\ requests'[s].address = a /\ requests'[s].reads = reads
        /\ requests'[s].stage = NextStage(a, "rows")
    BY <2>1, OneRead
  <2>4. RowsTyped(reads.rows)
    BY <1>2, <2>2, RowsForTyped
  <2>5. /\ NextStage(a, "rows") \in {"targets", "edge", "respond"}
        /\ NextStage(a, "rows") = "respond" => "targets" \notin Stages(a)
    BY DEF NextStage
  <2>6. Stages(requests'[s].address) = Stages(a)
    BY <2>3
  <2> QED
    BY <1>3, <2>3, <2>4, <2>5, <2>6 DEF ReadTyped
<1>5. CASE ReadTargets(s)
  <2> DEFINE reads == [old EXCEPT !.targets = targets]
  <2>1. Reading(s, "targets", reads)
    BY <1>5 DEF ReadTargets
  <2>2. reads.rows = old.rows /\ reads.targets = targets
    BY <1>1
  <2> HIDE DEF reads
  <2>3. /\ requests'[s].reads = reads /\ r.stage = "targets"
        /\ requests'[s].stage = "limits"
    BY <2>1, OneRead DEF NextStage
  <2> QED
    BY <1>2, <1>3, <2>2, <2>3 DEF ReadTyped, PlanTyped
<1>6. CASE ReadLimits(s)
  <2> DEFINE reads == [old EXCEPT !.limits = limits]
  <2>1. Reading(s, "limits", reads)
    BY <1>6 DEF ReadLimits
  <2>2. reads.rows = old.rows /\ reads.targets = old.targets /\ reads.limits = limits
    BY <1>1
  <2> HIDE DEF reads
  <2>3. /\ requests'[s].reads = reads /\ r.stage = "limits"
        /\ requests'[s].stage = "active"
    BY <2>1, OneRead DEF NextStage
  <2> QED
    BY <1>2, <1>3, <2>2, <2>3 DEF ReadTyped, PlanTyped, LimitsTyped
<1>7. CASE ReadActive(s)
  <2> DEFINE reads == [old EXCEPT !.limits = ActiveLimits(old.limits, Active)]
  <2>1. Reading(s, "active", reads)
    BY <1>7 DEF ReadActive
  <2>2. /\ reads.rows = old.rows /\ reads.targets = old.targets
        /\ reads.limits = ActiveLimits(old.limits, Active)
    BY <1>1
  <2> HIDE DEF reads
  <2>3. /\ requests'[s].reads = reads /\ r.stage = "active"
        /\ requests'[s].stage = "respond"
    BY <2>1, OneRead DEF NextStage
  <2>4. RowsTyped(old.rows) /\ PlanTyped(old) /\ old.limits \in Budgets
    BY <2>3 DEF ReadTyped, LimitsTyped
  <2>5. reads.limits \in Budgets
    BY <2>2, <2>4, ActiveIsBudget
  <2> QED
    BY <1>3, <2>2, <2>3, <2>4, <2>5 DEF ReadTyped, PlanTyped, LimitsTyped
<1>8. CASE ReadEdge(s)
  <2> DEFINE reads == [old EXCEPT !.edge = Earliest]
  <2>1. Reading(s, "edge", reads)
    BY <1>8 DEF ReadEdge
  <2>2. reads.rows = old.rows
    BY <1>1
  <2> HIDE DEF reads
  <2>3. /\ requests'[s].address = a /\ requests'[s].reads = reads /\ r.stage = "edge"
        /\ requests'[s].stage = "respond"
    BY <2>1, OneRead DEF NextStage
  <2>4. "targets" \notin Stages(a)
    BY <1>1, <2>3 DEF Stages
  <2>5. Stages(requests'[s].address) = Stages(a)
    BY <2>3
  <2> QED
    BY <1>3, <2>2, <2>3, <2>4, <2>5 DEF ReadTyped
<1> QED
  BY <1>4, <1>5, <1>6, <1>7, <1>8

\* The inductive invariant of the figures.
FiguresInv == ReadsTyped /\ PartsSumToTotal

\* A slot's request has read nothing yet, or what it had read before.
NoMoreRead(s) ==
  \/ requests'[s].stage = "rows"
  \/ /\ requests'[s].stage = requests[s].stage /\ requests'[s].address = requests[s].address
     /\ requests'[s].reads = requests[s].reads

LEMMA StillTyped ==
  ASSUME ReadsTyped, \A s \in Slots : NoMoreRead(s)
  PROVE  ReadsTyped'
<1> SUFFICES ASSUME NEW s \in Slots PROVE ReadTyped(requests'[s])
  BY DEF ReadsTyped, ReadTyped, RowsTyped, PlanTyped, LimitsTyped, Stages
<1>1. ReadTyped(requests[s]) /\ NoMoreRead(s)
  BY DEF ReadsTyped
<1> QED
  BY <1>1 DEF ReadTyped, NoMoreRead

\* The same page adds up as before.
LEMMA PartsStand ==
  ASSUME PartsSumToTotal, page'.view = page.view, page'.address = page.address
  PROVE  PartsSumToTotal'
  BY DEF PartsSumToTotal

\* A change is no answer, nor does it read.
LEMMA ChangeKeepsFigures ==
  ASSUME FiguresInv, Shapes, NEW lag \in Lags, Changed(lag)
  PROVE  FiguresInv'
<1>1. /\ page' = [page EXCEPT !.lag = lag]
      /\ \A s \in Slots : requests'[s] = Behind(requests[s], lag)
  BY DEF Changed
<1>2. page'.view = page.view /\ page'.address = page.address
  BY <1>1 DEF Shapes
<1>3. \A s \in Slots : NoMoreRead(s)
  BY <1>1, BehindIs DEF NoMoreRead, Shapes
<1> QED
  BY <1>2, <1>3, StillTyped, PartsStand DEF FiguresInv

\* An answer adds up when what it was read with is typed.
LEMMA AnswerAddsUp ==
  ASSUME Asked, ReadsTyped, NEW s \in Slots, requests[s].stage = "respond",
         page'.address = requests[s].address,
         page'.view = View(requests[s].address, requests[s].reads)
  PROVE  PartsSumToTotal'
<1> DEFINE r == requests[s]
<1>1. AddressOK(r.address) /\ ReadTyped(r)
  BY DEF Asked, Placed, ReadsTyped
<1>2. RowsTyped(r.reads.rows)
  BY <1>1 DEF ReadTyped
<1>3. r.address.page = "tracker" => PlanTyped(r.reads) /\ LimitsTyped(r.reads)
  BY <1>1 DEF ReadTyped, Stages
<1>4. ViewAddsUp(r.address, View(r.address, r.reads))
  BY <1>1, <1>2, <1>3, ViewsAddUp
<1> QED
  BY <1>4 DEF PartsSumToTotal, ViewAddsUp, TrackerAddsUp

\* Each page adds up when it is loaded,
LEMMA FiguresInit ==
  ASSUME Init
  PROVE  FiguresInv
<1>1. TablesInv /\ ScreenInv
  BY TablesInit, ScreenInvInit
<1>2. \A s \in Slots : requests[s].stage = "rows"
  BY IdleIs DEF Init
<1>3. PICK a : page = PageOf(a, ReadNow(a), "none")
  BY DEF Init
<1>4. page.address = a /\ page.view = View(a, ReadNow(a))
  BY <1>3 DEF PageOf
<1>5. AddressOK(a)
  BY <1>1, <1>4 DEF ScreenInv, Asked
<1>6. ViewAddsUp(a, View(a, ReadNow(a)))
  BY <1>1, <1>5, ReadNowTyped, ViewsAddUp
<1> QED
  BY <1>2, <1>4, <1>6, PartsAreOfPage DEF FiguresInv, ReadsTyped, ReadTyped

\* when it moves on,
LEMMA FiguresHome ==
  ASSUME TablesInv, ScreenInv, FiguresInv, Home
  PROVE  FiguresInv'
<1> USE DEF FiguresInv
<1>1. Shapes /\ Asked /\ ReadsTyped /\ PartsSumToTotal
  BY DEF ScreenInv
<1>2. ASSUME NEW s \in Slots,
             ReadRows(s) \/ ReadTargets(s) \/ ReadLimits(s) \/ ReadActive(s) \/ ReadEdge(s)
      PROVE  FiguresInv'
  <2>1. ReadTyped(requests'[s]) /\ OneMoves(s) /\ page' = page
    BY <1>1, <1>2, ReadStaysTyped DEF ReadsTyped
  <2>2. \A t \in Slots : ReadTyped(requests'[t])
    BY <1>1, <2>1 DEF OneMoves, ReadsTyped
  <2>3. ReadsTyped'
    BY <2>2 DEF ReadsTyped, ReadTyped, RowsTyped, PlanTyped, LimitsTyped, Stages
  <2> QED
    BY <2>1, <2>3, PartsStand
<1>3. ASSUME NEW s \in Slots, SwapPage(s)
      PROVE  FiguresInv'
  <2>1. /\ requests[s].stage = "respond" /\ page'.address = requests[s].address
        /\ page'.view = View(requests[s].address, requests[s].reads)
    BY <1>3 DEF SwapPage, PageOf
  <2>2. \A t \in Slots : requests'[t] = requests[t] \/ requests'[t] = Idle
    BY <1>3 DEF SwapPage
  <2>3. \A t \in Slots : NoMoreRead(t)
    BY <2>2, IdleIs DEF NoMoreRead
  <2> QED
    BY <1>1, <2>1, <2>3, StillTyped, AnswerAddsUp
<1>4. ASSUME NEW s \in Slots, SwapRegion(s)
      PROVE  FiguresInv'
  <2>1. /\ requests[s].stage = "respond" /\ page'.address = requests[s].address
        /\ page'.view = View(requests[s].address, requests[s].reads)
    BY <1>1, <1>4 DEF SwapRegion, Shapes
  <2>2. \A t \in Slots : \/ requests'[t] = requests[t] \/ requests'[t] = Idle
                         \/ requests'[t] = [requests[t] EXCEPT !.element = "gone"]
    BY <1>4 DEF SwapRegion
  <2>3. \A q : Shape(q) => LET g == [q EXCEPT !.element = "gone"]
                           IN g.stage = q.stage /\ g.address = q.address /\ g.reads = q.reads
    BY DEF Shape
  <2>4. \A t \in Slots : NoMoreRead(t)
    BY <1>1, <2>2, <2>3, IdleIs DEF NoMoreRead, Shapes
  <2> QED
    BY <1>1, <2>1, <2>4, StillTyped, AnswerAddsUp
<1>5. ASSUME NEW s \in Slots, NEW element, NEW a,
             requests' = [requests EXCEPT ![s] = Get(element, a)],
             page'.view = page.view, page'.address = page.address
      PROVE  FiguresInv'
  <2>1. Get(element, a).stage = "rows"
    BY DEF Get
  <2>2. \A t \in Slots : NoMoreRead(t)
    BY <1>1, <1>5, <2>1 DEF NoMoreRead, Shapes
  <2> QED
    BY <1>1, <1>5, <2>2, StillTyped, PartsStand
<1>6. ASSUME NEW s \in Slots, Redirect(s)
      PROVE  FiguresInv'
  BY <1>5, <1>6 DEF Redirect
<1>7. ASSUME NEW s \in Slots, FailRequest(s)
      PROVE  FiguresInv'
  <2>1. page'.view = page.view /\ page'.address = page.address
    BY <1>1, <1>7 DEF FailRequest, Shapes
  <2>2. \E element, a : requests' = [requests EXCEPT ![s] = Get(element, a)]
    BY <1>7 DEF FailRequest, Idle
  <2> QED
    BY <1>5, <2>1, <2>2
<1>8. ASSUME NEW element, NEW a, Send(element, a)
      PROVE  FiguresInv'
  BY <1>5, <1>8 DEF Send
<1> QED
  BY <1>2, <1>3, <1>4, <1>6, <1>7, <1>8 DEF Home, Navigate, PostSync, SwitchView

\* and whatever else happens.
LEMMA FiguresNext ==
  ASSUME TablesInv, ScreenInv, FiguresInv, [Next]_vars
  PROVE  FiguresInv'
<1>1. Shapes /\ ReadsTyped /\ PartsSumToTotal /\ "missed" \in Lags
  BY DEF ScreenInv, FiguresInv, Lags
<1>2. ASSUME UNCHANGED tab
      PROVE  FiguresInv'
  <2>1. page' = page /\ requests' = requests
    BY <1>2 DEF tab
  <2>2. \A s \in Slots : NoMoreRead(s)
    BY <2>1 DEF NoMoreRead
  <2> QED
    BY <1>1, <2>1, <2>2, StillTyped, PartsStand DEF FiguresInv
<1>3. ASSUME Changed("missed")
      PROVE  FiguresInv'
  BY <1>1, <1>3, ChangeKeepsFigures
<1>4. CASE Editor
  <2>1. ASSUME Announce
        PROVE  FiguresInv'
    <3>1. page'.view = page.view /\ page'.address = page.address
      BY <1>1, <2>1 DEF Announce, Changed, Shapes
    <3>2. \A s \in Slots : \/ requests'[s] = Get("listener", page.address)
                           \/ \E lag \in Lags : requests'[s] = Behind(requests[s], lag)
      BY <2>1 DEF Announce, Changed, Lags
    <3>3. \A s \in Slots : NoMoreRead(s)
      BY <1>1, <3>2, GetIs, BehindIs DEF NoMoreRead, Shapes, OnRegion
    <3> QED
      BY <1>1, <3>1, <3>3, StillTyped, PartsStand DEF FiguresInv
  <2> QED
    BY <1>2, <1>3, <1>4, <2>1 DEF Editor, PostEdit, CheckOutflow, MarkTransferDestination,
                                  FailEdit
<1>5. CASE BudgetEditor
  BY <1>2, <1>3, <1>5 DEF BudgetEditor, GetBudgetPage, SubmittedLimits, SetBudget, RenderBudget,
                          FailBudget, PostBudget
<1>6. CASE Others
  BY <1>3, <1>6 DEF Others, BankPosts, BankSettles, BankRemoves, Recategorize, Pair,
                    Silently, Disconnect, ArchiveCategory, UnarchiveCategory, TimePasses
<1>7. CASE UNCHANGED vars
  BY <1>2, <1>7 DEF vars
<1> QED
  BY <1>4, <1>5, <1>6, <1>7, FiguresHome DEF Next
-----------------------------------------------------------------------------
(* The drills. *)

\* Income is summed as it is shown, or as it is stored and turned round.
LEMMA IncomeEitherWay ==
  ASSUME NEW rows, RowsTyped(rows)
  PROVE  SumFunction([r \in rows |-> -r.amount]) = -Net(rows)
<1> DEFINE f == [r \in rows |-> -r.amount]
           zero == [r \in rows |-> 0]
<1>1. \A r \in rows : f[r] = zero[r] - Cents[r] /\ zero[r] = 0
  <2>1. \A r \in rows : r \in Rows
    BY DEF RowsTyped
  <2>2. \A r \in rows : r.amount \in Int
    BY <2>1 DEF Rows
  <2>3. \A r \in rows : Cents[r] = r.amount /\ f[r] = -r.amount /\ zero[r] = 0
    BY <2>1 DEF Cents
  <2> QED
    BY <2>2, <2>3
<1>2. DOMAIN f = rows /\ IsFiniteSet(rows)
  BY DEF RowsTyped
<1> HIDE DEF f, zero
<1>3. Summands(zero, rows)
  BY <1>1, <1>2 DEF Summands
<1>4. SumFunctionOnSet(zero, rows) = 0
  BY <1>1, <1>2, SumOfZeros
<1>5. SumFunctionOnSet(f, rows) = SumFunctionOnSet(zero, rows) - SumFunctionOnSet(Cents, rows)
  BY <1>1, <1>3, NetIsSum, SumOfDifferences
<1>6. SumFunction(f) = -Net(rows)
  BY <1>2, <1>4, <1>5, NetIsSum DEF SumFunction
<1> QED
  BY <1>6 DEF f

\* What each drill adds up, by its bucket.
LEMMA DrillTotals ==
  ASSUME NEW rows, NEW budget \in Budgets
  PROVE  /\ SpendDrill(rows, "income", budget).total = IncomeCents(rows)
         /\ SpendDrill(rows, "savings", budget).total = SavingsCents(rows)
         /\ SpendDrill(rows, "everything-else", budget).total = Net(Residual(rows, budget))
         /\ SpendDrill(rows, "uncategorized", budget).total
              = Net(InCategory(Spending(rows), NoCategory))
         /\ \A k \in Categories :
              SpendDrill(rows, k, budget).total = Net(InCategory(Spending(rows), k))
<1>1. SpendDrill(rows, "income", budget).total = IncomeCents(rows)
  BY DEF SpendDrill, DrillRows, IncomeCents
<1>2. SpendDrill(rows, "savings", budget).total = SavingsCents(rows)
  BY DEF SpendDrill, DrillRows, SavingsCents
<1>3. SpendDrill(rows, "everything-else", budget).total = Net(Residual(rows, budget))
  <2>1. NoCategory \notin DOMAIN budget
    BY BudgetIs, DashboardAssumption
  <2>2. DrillRows(rows, "everything-else", budget) = Residual(rows, budget)
    BY <2>1 DEF DrillRows, Residual
  <2> QED
    BY <2>2 DEF SpendDrill
<1>4. SpendDrill(rows, "uncategorized", budget).total
        = Net(InCategory(Spending(rows), NoCategory))
  BY DEF SpendDrill, DrillRows
<1>5. ASSUME NEW k \in Categories
      PROVE  SpendDrill(rows, k, budget).total = Net(InCategory(Spending(rows), k))
  <2>1. k \notin {"income", "savings", "uncategorized", "everything-else"}
    BY DashboardAssumption
  <2>2. DrillRows(rows, k, budget) = InCategory(Spending(rows), k)
    BY <2>1 DEF DrillRows
  <2> QED
    BY <2>1, <2>2 DEF SpendDrill
<1> QED
  BY <1>1, <1>2, <1>3, <1>4, <1>5

\* A drill of this moment adds up the rows of its month.
LEMMA DrilledNow ==
  ASSUME NEW m, NEW bucket
  PROVE  ViewNow(Drill(m, bucket)).figures
           = SpendDrill(RowsOfMonth(m), bucket, ActiveLimits(limits, Active)).total
<1>1. /\ Drill(m, bucket).page = "drill" /\ Drill(m, bucket).month = m
      /\ Drill(m, bucket).bucket = bucket
  BY DEF Drill
<1>2. RowsFor(Drill(m, bucket)) = RowsOfMonth(m)
  BY <1>1 DEF RowsFor
<1> QED
  BY <1>1, <1>2 DEF ViewNow, ReadNow, View

\* What the tables hold, a page of this moment is drilled to.
LEMMA DrillsFollow ==
  ASSUME TablesInv
  PROVE  DrillsReconcile
<1> DEFINE budget == ActiveLimits(limits, Active)
           month == IF page.address.page = "tracker" THEN CurrentMonth(now)
                                                     ELSE page.address.month
           rows == RowsOfMonth(month)
           f == ViewNow(page.address).figures
           Drilled(bucket) == ViewNow(Drill(month, bucket)).figures
<1>1. SUFFICES /\ page.address.page = "tracker" =>
                    /\ Drilled("income") = f.actuals.income
                    /\ Drilled("savings") = f.actuals.saved
                    /\ ~f.needsBudget =>
                         /\ Drilled("everything-else") = f.rest.spent
                         /\ \A k \in DOMAIN f.lines : Drilled(k) = f.lines[k].spent
               /\ page.address.page = "wrap" =>
                    /\ Drilled("income") = f.gross /\ Drilled("savings") = f.saved
                    /\ \A k \in DOMAIN f.byCategory :
                         Drilled(IF k = NoCategory THEN "uncategorized" ELSE k)
                           = f.byCategory[k]
  BY DEF DrillsReconcile
<1>2. ViewNow(page.address) = View(page.address, ReadNow(page.address))
  BY DEF ViewNow
<1>3. budget \in Budgets
  BY ActiveIsBudget DEF TablesInv, BudgetOK
<1>4. \A bucket : Drilled(bucket) = SpendDrill(rows, bucket, budget).total
  BY DrilledNow
<1>5. RowsTyped(rows)
  <2>1. RowsFor(Drill(month, Nothing)) = rows
    BY DEF RowsFor, Drill
  <2> QED
    BY <2>1, RowsForTyped DEF TablesInv
<1>6. CASE page.address.page = "tracker"
  <2>1. PICK days : f = BuildTracker(rows, targets, budget, days)
    BY <1>2, <1>6 DEF View, ReadNow, RowsFor
  <2> HIDE DEF f, rows, budget, month, Drilled
  <2>2. f.actuals.income = IncomeCents(rows) /\ f.actuals.saved = SavingsCents(rows)
    BY <2>1 DEF BuildTracker, Actuals
  <2>3. ASSUME ~f.needsBudget
        PROVE  /\ f.rest.spent = Net(Residual(rows, budget)) /\ DOMAIN f.lines = DOMAIN budget
               /\ \A k \in DOMAIN budget : f.lines[k].spent = Net(InCategory(Spending(rows), k))
    BY <2>1, <2>3 DEF BuildTracker, Standing
  <2>4. DOMAIN budget \in SUBSET Categories
    BY <1>3, BudgetIs
  <2> QED
    BY <1>3, <1>4, <1>6, <2>2, <2>3, <2>4, DrillTotals
<1>7. CASE page.address.page = "wrap"
  <2>1. f = BuildWrap(rows)
    BY <1>2, <1>7 DEF View, ReadNow, RowsFor
  <2> HIDE DEF f, rows, budget, month, Drilled
  <2>2. /\ f.gross = SumFunction([r \in OfClass(rows, "income") |-> -r.amount])
        /\ f.saved = SavingsCents(rows)
        /\ DOMAIN f.byCategory = {r.category : r \in Spending(rows)}
        /\ \A k \in DOMAIN f.byCategory :
             f.byCategory[k] = Net(InCategory(Spending(rows), k))
    BY <2>1 DEF BuildWrap, SavingsCents
  <2>3. f.gross = IncomeCents(rows)
    <3>1. RowsTyped(OfClass(rows, "income"))
      BY <1>5, PartTyped DEF OfClass
    <3> QED
      BY <2>2, <3>1, IncomeEitherWay DEF IncomeCents
  <2>4. DOMAIN f.byCategory \subseteq Categories \cup {NoCategory}
    BY <1>5, <2>2 DEF RowsTyped, Rows, Spending, OfClass
  <2>5. ASSUME NEW k \in DOMAIN f.byCategory
        PROVE  Drilled(IF k = NoCategory THEN "uncategorized" ELSE k) = f.byCategory[k]
    <3>1. CASE k = NoCategory
      BY <1>3, <1>4, <2>2, <3>1, DrillTotals
    <3>2. CASE k # NoCategory
      BY <1>3, <1>4, <2>2, <2>4, <3>2, DrillTotals
    <3> QED
      BY <3>1, <3>2
  <2> QED
    BY <1>3, <1>4, <1>7, <2>2, <2>3, <2>5, DrillTotals
<1> QED
  BY <1>1, <1>6, <1>7

-----------------------------------------------------------------------------
(* The invariants together. *)

LEMMA TogetherInit ==
  ASSUME Init
  PROVE  ScreenInv /\ TablesInv /\ FiguresInv
  BY ScreenInvInit, TablesInit, FiguresInit

LEMMA TogetherNext ==
  ASSUME ScreenInv, TablesInv, FiguresInv, [Next]_vars
  PROVE  ScreenInv' /\ TablesInv' /\ FiguresInv'
  BY ScreenInvNext, TablesNext, FiguresNext DEF ScreenInv

LEMMA TypesFollow ==
  ASSUME ScreenInv, TablesInv
  PROVE  TypeOK
<1> USE DEF ScreenInv, TablesInv
<1>1. /\ DOMAIN ledger = Txns /\ \A t \in Stored : RowOK(ledger[t], t)
      /\ accounts \subseteq Accounts /\ archived \subseteq Categories
      /\ targets \in Targets \cup {NoTargets} /\ limits \in Budgets
      /\ editor.stage \in {"none", "check", "mark", "announce"}
      /\ form \in (SUBSET Categories) \cup {Nothing}
      /\ post.stage \in {"none", "active", "save", "render"}
      /\ moves \in 0..MaxMoves
  BY DEF LedgerOK, BudgetOK, PostOK, Stored
<1>2. /\ now \in Instants /\ page.lag \in {"none", "asked", "missed"}
      /\ DOMAIN requests = Slots
      /\ queued => Busy("listener")
  BY DEF Shapes, Asked, Lags
<1>3. ASSUME NEW s \in InFlight
      PROVE  /\ requests[s].element \in OnRegion \cup {"page", "gone"}
             /\ requests[s].stage \in Stages(requests[s].address)
             /\ requests[s].element \in OnRegion =>
                  requests[s].address.page = page.address.page
             /\ requests[s].element \in {"listener", "sync"} =>
                  \A t \in InFlight \ {s} : requests[t].element # requests[s].element
  <2>1. s \in Slots /\ requests[s].element # "none"
    BY DEF InFlight
  <2>2. Shape(requests[s]) /\ Placed(requests[s])
    BY <2>1 DEF Shapes, Asked
  <2>3. /\ requests[s].element \in OnRegion \cup {"page", "gone"}
        /\ requests[s].stage \in Stages(requests[s].address)
    BY <2>1, <2>2 DEF Shape
  <2>4. requests[s].element \in OnRegion => requests[s].address.page = page.address.page
    BY <2>2 DEF Placed, SameRegion
  <2>5. \A t \in InFlight \ {s} : requests[s].element \in {"listener", "sync"} =>
                                   requests[t].element # requests[s].element
    BY <2>1 DEF Asked, OneEach, InFlight
  <2> QED
    BY <2>3, <2>4, <2>5
<1> QED
  BY <1>1, <1>2, <1>3 DEF TypeOK

\* Whatever the sync, the rules and the two editors write, and however their statements
\* interleave: only an outflow is marked, with a subtype, one with a category is
\* spending, and one marked that the user has the last word on is a transfer, since
\* OverrideTransactionCategorization clears the destination off a transfer; limits are
\* positive.
THEOREM TypeCorrect == Spec => []TypeOK
<1>1. Init => ScreenInv /\ TablesInv /\ FiguresInv
  BY TogetherInit
<1>2. ScreenInv /\ TablesInv /\ FiguresInv /\ [Next]_vars
        => ScreenInv' /\ TablesInv' /\ FiguresInv'
  BY TogetherNext
<1>3. ScreenInv /\ TablesInv => TypeOK
  BY TypesFollow
<1> QED
  BY <1>1, <1>2, <1>3, PTL DEF Spec

\* A page adds up whatever the month's rows, the plan and the limits are, and whatever
\* changes between the statements it is read with (BuildTracker, BuildWrap).
THEOREM PartsAlwaysSum == Spec => []PartsSumToTotal
<1>1. Init => ScreenInv /\ TablesInv /\ FiguresInv
  BY TogetherInit
<1>2. ScreenInv /\ TablesInv /\ FiguresInv /\ [Next]_vars
        => ScreenInv' /\ TablesInv' /\ FiguresInv'
  BY TogetherNext
<1>3. FiguresInv => PartsSumToTotal
  BY DEF FiguresInv
<1> QED
  BY <1>1, <1>2, <1>3, PTL DEF Spec

\* Every figure of a page of any one moment that can be drilled is the total of the page its
\* link leads to then, whatever the rows, the plan and the limits are and whoever wrote them
\* (SpendDrill).
THEOREM DrillsAlwaysReconcile == Spec => []DrillsReconcile
<1>1. Init => ScreenInv /\ TablesInv /\ FiguresInv
  BY TogetherInit
<1>2. ScreenInv /\ TablesInv /\ FiguresInv /\ [Next]_vars
        => ScreenInv' /\ TablesInv' /\ FiguresInv'
  BY TogetherNext
<1>3. ScreenInv /\ TablesInv => DrillsReconcile
  BY DrillsFollow
<1> QED
  BY <1>1, <1>2, <1>3, PTL DEF Spec
=============================================================================
