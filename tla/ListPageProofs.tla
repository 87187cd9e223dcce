---- MODULE ListPageProofs ----
(* The list pages' bookkeeping of what is under way, and when the rows shown are *)
(* those of the page and the filters named, for any number of rows, page sizes,  *)
(* filters and requests under way.                                               *)
EXTENDS ListPage, SequenceLemmas, FiniteSetTheorems

\* OneSaveInFlight without counting: an edit is being saved, or the load behind it
\* is under way, or nothing is being saved.
NoneSaved == \A i \in DOMAIN loads : ~loads[i].saved
OnlySaved(i) == loads[i].saved /\ \A j \in DOMAIN loads : loads[j].saved => j = i

SaveOrItsLoad ==
    /\ ~saving => saves = <<>> /\ NoneSaved
    /\ saving => \/ Len(saves) = 1 /\ NoneSaved
                 \/ saves = <<>> /\ \E i \in DOMAIN loads : OnlySaved(i)

\* The dialog's fields are those of its row.
TextFits == editing # NoRow => text = editing

\* Unless upset, all that is under way is of this view, and so is what is shown.
ThisView == ~upset => ~Strays(view) /\ (loading \/ list.view = view)

IInv == TypeOK /\ ThisView /\ SpinnersHaveWork /\ SaveOrItsLoad /\ TextFits /\ SaveOfItsRow

--------------------------------------------------------------------------------
(* Pages.                                                                       *)

LEMMA ListType == \A rows \in Lists : rows \in Seq(Rows) /\ Len(rows) \in 0..MaxRows
<1> SUFFICES ASSUME NEW rows \in Lists PROVE rows \in Seq(Rows) /\ Len(rows) \in 0..MaxRows
  OBVIOUS
<1>1. PICK m \in 0..MaxRows : rows \in [1..m -> Rows]  BY DEF Lists, SeqOf
<1>2. m \in Nat  BY BoundsAssumption
<1> QED  BY <1>1, <1>2

LEMMA PageType ==
    ASSUME NEW rows \in Lists, NEW p \in Pages
    PROVE  PageOf(rows, p) \in Seq(Rows)
<1> DEFINE skip == (p - 1) * PageSize
           n == IF skip + PageSize < Len(rows) THEN skip + PageSize ELSE Len(rows)
<1>1. rows \in Seq(Rows) /\ PageSize \in Nat  BY ListType, BoundsAssumption
<1>2. skip \in Nat
  <2>1. p - 1 \in Nat  BY BoundsAssumption DEF Pages
  <2>2. \A a, b \in Nat : a * b \in Nat  OBVIOUS
  <2> QED  BY <1>1, <2>1, <2>2
<1> HIDE DEF skip
<1>3. n \in Nat /\ n <= Len(rows)  BY <1>1, <1>2
<1>4. \A j \in (skip + 1)..n : rows[j] \in Rows  BY <1>1, <1>2, <1>3
<1> HIDE DEF n
<1>5. SubSeq(rows, skip + 1, n) \in Seq(Rows)  BY <1>1, <1>2, <1>3, <1>4, SubSeqProperties
<1> QED  BY <1>5 DEF PageOf, n, skip

\* The pager stays on pages there can be.
LEMMA TotalBound == \A rows \in Lists : TotalPages(rows) \in Pages
<1> DEFINE N == MaxRows
           P == PageSize
<1>1. N \in Nat \ {0} /\ P \in Nat \ {0}  BY BoundsAssumption
<1>2. \A a, b \in Nat : a <= b => a \div P <= b \div P  BY <1>1
<1>3. \A a \in Nat : a \div P \in Nat /\ (a >= P => a \div P >= 1)  BY <1>1
<1> SUFFICES ASSUME NEW rows \in Lists PROVE TotalPages(rows) \in Pages  OBVIOUS
<1>4. rows \in Seq(Rows) /\ Len(rows) \in 0..N  BY ListType
<1>5. 1 \in Pages  BY <1>1, <1>3 DEF Pages
<1>6. CASE rows = <<>>  BY <1>5, <1>6 DEF TotalPages
<1>7. CASE rows # <<>>
  <2>1. Len(rows) >= 1  BY <1>4, <1>7, EmptySeq
  <2>2. /\ Len(rows) + P - 1 \in Nat /\ N + P - 1 \in Nat
        /\ Len(rows) + P - 1 <= N + P - 1 /\ Len(rows) + P - 1 >= P
    BY <1>1, <1>4, <2>1
  <2>3. (Len(rows) + P - 1) \div P \in 1..((N + P - 1) \div P)  BY <1>2, <1>3, <2>2
  <2> QED  BY <1>7, <2>3 DEF TotalPages, Pages
<1> QED  BY <1>6, <1>7

LEMMA EmptyList == <<>> \in Lists
<1>1. <<>> \in [1..0 -> Rows] /\ 0 \in 0..MaxRows  BY BoundsAssumption
<1> QED  BY <1>1 DEF Lists, SeqOf

LEMMA FirstTypes == FirstView \in Views
<1>1. 1 \in Pages  BY EmptyList, TotalBound DEF TotalPages
<1> QED  BY <1>1, FiltersAssumption DEF FirstView, At, Views

--------------------------------------------------------------------------------
(* What changes the view.                                                       *)

ViewChanges == (\E f \in Filters : ApplyFilters(f)) \/ NextPage \/ PreviousPage

LEMMA ToViews ==
    ASSUME TypeOK, ViewChanges
    PROVE  \E v \in Views : ChangeView(v)
<1>1. view.page \in Pages /\ view.filters \in Filters  BY DEF TypeOK, Views
<1>2. (MaxRows + PageSize - 1) \div PageSize \in Int  BY BoundsAssumption
<1>3. ASSUME NEW f \in Filters, ApplyFilters(f)  PROVE \E v \in Views : ChangeView(v)
  <2>1. At(1, f) \in Views  BY FirstTypes DEF FirstView, At, Views
  <2> QED  BY <1>3, <2>1 DEF ApplyFilters
<1>4. CASE NextPage
  <2>1. TotalPages(list.rows) \in Pages  BY TotalBound DEF TypeOK
  <2>2. view.page < TotalPages(list.rows)  BY <1>4 DEF NextPage
  <2>3. \A m \in Int : \A a, b \in 1..m : a < b => a + 1 \in 1..m  OBVIOUS
  <2>4. view.page + 1 \in Pages  BY <1>1, <1>2, <2>1, <2>2, <2>3 DEF Pages
  <2> QED  BY <1>1, <1>4, <2>4 DEF NextPage, At, Views
<1>5. CASE PreviousPage
  <2>1. \A m \in Int : \A a \in 1..m : a > 1 => a - 1 \in 1..m  OBVIOUS
  <2>2. view.page - 1 \in Pages  BY <1>1, <1>2, <1>5, <2>1 DEF PreviousPage, Pages
  <2> QED  BY <1>1, <1>5, <2>2 DEF PreviousPage, At, Views
<1> QED  BY <1>3, <1>4, <1>5 DEF ViewChanges

--------------------------------------------------------------------------------
(* Types.                                                                       *)

LEMMA LoadTypes ==
    ASSUME TypeOK, NEW v \in Views, NEW row \in Rows \cup {NoRow}, NEW saved \in BOOLEAN,
           StartLoad(v, row, saved)
    PROVE  loading' \in BOOLEAN /\ loads' \in Seq(Load)
<1>1. [view |-> v, row |-> row, saved |-> saved] \in Load  BY DEF Load
<1>2. Append(loads, [view |-> v, row |-> row, saved |-> saved]) \in Seq(Load)
  BY <1>1, AppendProperties DEF TypeOK
<1> QED  BY <1>2 DEF StartLoad

LEMMA FinishTypes ==
    ASSUME TypeOK, NEW i \in DOMAIN loads, FinishLoad(i)
    PROVE  /\ loading' \in BOOLEAN /\ loads' \in Seq(Load)
           /\ busyId' \in Rows \cup {NoRow} /\ saving' \in BOOLEAN
<1>1. i \in 1..Len(loads) /\ loads[i] \in Load  BY DEF TypeOK
<1>2. RemoveAt(loads, i) \in Seq(Load)  BY <1>1, RemoveAtProperties DEF TypeOK
<1>3. busyId' \in Rows \cup {NoRow}  BY DEF FinishLoad, TypeOK
<1>4. saving' \in BOOLEAN  BY DEF FinishLoad
<1> QED  BY <1>2, <1>3, <1>4 DEF FinishLoad

LEMMA TypesKept ==
    ASSUME TypeOK, TextFits, Next
    PROVE  TypeOK'
<1>1. ASSUME NEW i \in DOMAIN loads, ReceiveList(i)  PROVE TypeOK'
  <2>1. PICK v \in Views : loads[i].view = v
    <3>1. loads[i] \in Load  BY DEF TypeOK
    <3> QED  BY <3>1 DEF Load
  <2>2. PICK rows \in Lists : list' = [view |-> v, rows |-> rows, items |-> PageOf(rows, v.page)]
    BY <1>1, <2>1 DEF ReceiveList
  <2>3. v.page \in Pages  BY DEF Views
  <2>4. list' \in [view : Views, rows : Lists, items : Seq(Rows)]  BY <2>2, <2>3, PageType
  <2>5. upset' \in BOOLEAN  BY <1>1 DEF ReceiveList, Strays, TypeOK
  <2> QED  BY <1>1, <2>4, <2>5, FinishTypes DEF ReceiveList, TypeOK
<1>2. ASSUME NEW i \in DOMAIN loads, ListFails(i)  PROVE TypeOK'
  BY <1>2, FinishTypes DEF ListFails, TypeOK
<1>3. CASE ViewChanges
  <2>1. PICK v \in Views : ChangeView(v)  BY <1>3, ToViews
  <2>2. upset' \in BOOLEAN  BY <2>1 DEF ChangeView, Strays
  <2> QED  BY <2>1, <2>2, LoadTypes DEF ChangeView, rowActs, dialog, TypeOK
<1>6. ASSUME NEW k \in DOMAIN list.items  PROVE list.items[k] \in Rows
  BY DEF TypeOK
<1>7. ASSUME NEW k \in DOMAIN list.items, StartAct(k)  PROVE TypeOK'
  <2>1. [row |-> list.items[k], view |-> view] \in Act  BY <1>6 DEF Act, TypeOK
  <2>2. acts' \in Seq(Act)  BY <1>7, <2>1, AppendProperties DEF StartAct, TypeOK
  <2> QED  BY <1>6, <1>7, <2>2 DEF StartAct, shown, dialog, TypeOK
<1>8. ASSUME NEW i \in DOMAIN acts, ActDone(i)  PROVE TypeOK'
  <2>1. i \in 1..Len(acts) /\ acts[i] \in Act  BY DEF TypeOK
  <2>2. acts' \in Seq(Act)  BY <1>8, <2>1, RemoveAtProperties DEF ActDone, TypeOK
  <2>3. loading' \in BOOLEAN /\ loads' \in Seq(Load)  BY <1>8, <2>1, LoadTypes DEF ActDone, Act
  <2> QED  BY <1>8, <2>2, <2>3 DEF ActDone, dialog, TypeOK
<1>9. ASSUME NEW i \in DOMAIN acts, ActFails(i)  PROVE TypeOK'
  <2>1. i \in 1..Len(acts)  BY DEF TypeOK
  <2>2. acts' \in Seq(Act)  BY <1>9, <2>1, RemoveAtProperties DEF ActFails, TypeOK
  <2> QED  BY <1>9, <2>2 DEF ActFails, shown, dialog, TypeOK
<1>10. ASSUME NEW k \in DOMAIN list.items, OpenEdit(k)  PROVE TypeOK'
  BY <1>6, <1>10 DEF OpenEdit, shown, rowActs, TypeOK
<1>11. CASE CloseEdit
  BY <1>11 DEF CloseEdit, shown, rowActs, TypeOK
<1>12. CASE StartSave
  <2>1. [row |-> editing, text |-> text, view |-> view] \in Save
    BY <1>12 DEF StartSave, TextFits, TypeOK, Save
  <2>2. saves' \in Seq(Save)  BY <1>12, <2>1, AppendProperties DEF StartSave, TypeOK
  <2> QED  BY <1>12, <2>2 DEF StartSave, shown, rowActs, TypeOK
<1>13. ASSUME NEW i \in DOMAIN saves, SaveDone(i)  PROVE TypeOK'
  <2>1. i \in 1..Len(saves) /\ saves[i] \in Save  BY DEF TypeOK
  <2>2. saves' \in Seq(Save)  BY <1>13, <2>1, RemoveAtProperties DEF SaveDone, TypeOK
  <2>3. loading' \in BOOLEAN /\ loads' \in Seq(Load)  BY <1>13, <2>1, LoadTypes DEF SaveDone, Save
  <2> QED  BY <1>13, <2>2, <2>3 DEF SaveDone, rowActs, TypeOK
<1>14. ASSUME NEW i \in DOMAIN saves, SaveFails(i)  PROVE TypeOK'
  <2>1. i \in 1..Len(saves)  BY DEF TypeOK
  <2>2. saves' \in Seq(Save)  BY <1>14, <2>1, RemoveAtProperties DEF SaveFails, TypeOK
  <2> QED  BY <1>14, <2>2 DEF SaveFails, shown, rowActs, TypeOK
<1> QED
  BY <1>1, <1>2, <1>3, <1>7, <1>8, <1>9, <1>10, <1>11, <1>12, <1>13, <1>14
  DEF Next, ViewChanges

--------------------------------------------------------------------------------
(* The spinners.                                                                *)

\* What a load's end frees had no other load behind it, or keeps that one.
LEMMA FinishSpinners ==
    ASSUME TypeOK, SpinnersHaveWork, NEW i \in DOMAIN loads, FinishLoad(i), UNCHANGED acts
    PROVE  SpinnersHaveWork'
<1>1. loads \in Seq(Load) /\ i \in 1..Len(loads)  BY DEF TypeOK
<1>2. \A k \in DOMAIN loads : k # i =>
        \E j \in DOMAIN RemoveAt(loads, i) : RemoveAt(loads, i)[j] = loads[k]
  BY <1>1, RemoveAtElements
<1>3. loading' = FALSE /\ loads' = RemoveAt(loads, i)  BY DEF FinishLoad
<1>4. ASSUME busyId' # NoRow, ~\E a \in DOMAIN acts : acts[a].row = busyId'
      PROVE  \E j \in DOMAIN loads' : loads'[j].row = busyId'
  <2>1. busyId' = busyId /\ loads[i].row = NoRow  BY <1>4 DEF FinishLoad
  <2>2. PICK k \in DOMAIN loads : loads[k].row = busyId  BY <1>4, <2>1 DEF SpinnersHaveWork
  <2>3. k # i  BY <1>4, <2>1, <2>2
  <2> QED  BY <1>2, <1>3, <2>1, <2>2, <2>3
<1> QED  BY <1>3, <1>4 DEF SpinnersHaveWork

\* A load that starts keeps the loads there are.
LEMMA StartKeeps ==
    ASSUME TypeOK, NEW l \in Load, loads' = Append(loads, l)
    PROVE  /\ loads' # <<>> /\ Len(loads) + 1 \in DOMAIN loads' /\ loads'[Len(loads) + 1] = l
           /\ \A k \in DOMAIN loads : k \in DOMAIN loads' /\ loads'[k] = loads[k]
           /\ \A k \in DOMAIN loads' : k \in DOMAIN loads \/ k = Len(loads) + 1
<1>1. /\ Append(loads, l) \in Seq(Load) /\ Len(Append(loads, l)) = Len(loads) + 1
      /\ \A j \in DOMAIN Append(loads, l) : IF j \in DOMAIN loads THEN Append(loads, l)[j] = loads[j]
           ELSE j = Len(loads) + 1 /\ Append(loads, l)[j] = l
      /\ \A j \in DOMAIN loads : j \in DOMAIN Append(loads, l) /\ Append(loads, l)[j] = loads[j]
  BY AppendElements DEF TypeOK
<1>2. Len(loads) \in Nat /\ DOMAIN loads = 1..Len(loads)  BY DEF TypeOK
<1>3. Len(loads) + 1 \in DOMAIN loads' /\ Len(loads) + 1 \notin DOMAIN loads  BY <1>1, <1>2
<1>4. loads' # <<>>  BY AppendProperties DEF TypeOK
<1> QED  BY <1>1, <1>3, <1>4

\* What starts a load without an act behind it: the pager, the filters, an edit saved.
Loads(v, saved) ==
    StartLoad(v, NoRow, saved) /\ v \in Views /\ saved \in BOOLEAN

LEMMA WhoLoads ==
    ASSUME TypeOK
    PROVE  /\ \A v \in Views : ChangeView(v) => Loads(v, FALSE)
           /\ \A i \in DOMAIN saves : SaveDone(i) => Loads(saves[i].view, TRUE)
           /\ \A i \in DOMAIN acts : ActDone(i) =>
                StartLoad(acts[i].view, acts[i].row, FALSE) /\ acts[i] \in Act
<1>1. \A v \in Views : ChangeView(v) => Loads(v, FALSE)  BY DEF Loads, ChangeView
<1>2. ASSUME NEW i \in DOMAIN saves, SaveDone(i)  PROVE Loads(saves[i].view, TRUE)
  <2>1. saves[i] \in Save  BY DEF TypeOK
  <2> QED  BY <1>2, <2>1 DEF Loads, SaveDone, Save
<1>3. ASSUME NEW i \in DOMAIN acts, ActDone(i)
      PROVE  StartLoad(acts[i].view, acts[i].row, FALSE) /\ acts[i] \in Act
  <2>1. acts[i] \in Act  BY DEF TypeOK
  <2> QED  BY <1>3, <2>1 DEF ActDone
<1> QED  BY <1>1, <1>2, <1>3

LEMMA SpinnersKept ==
    ASSUME TypeOK, SpinnersHaveWork, Next
    PROVE  SpinnersHaveWork'
<1>1. ASSUME NEW i \in DOMAIN loads, ReceiveList(i) \/ ListFails(i)  PROVE SpinnersHaveWork'
  BY <1>1, FinishSpinners DEF ReceiveList, ListFails
<1>2. ASSUME NEW v, NEW saved, Loads(v, saved), UNCHANGED rowActs
      PROVE  SpinnersHaveWork'
  <2>1. [view |-> v, row |-> NoRow, saved |-> saved] \in Load  BY <1>2 DEF Loads, Load
  <2>2. loads' # <<>> /\ \A k \in DOMAIN loads : k \in DOMAIN loads' /\ loads'[k] = loads[k]
    BY <1>2, <2>1, StartKeeps DEF Loads, StartLoad
  <2> QED  BY <1>2, <2>2 DEF SpinnersHaveWork, rowActs
<1>3. CASE ViewChanges
  <2>1. PICK v \in Views : ChangeView(v)  BY <1>3, ToViews
  <2> QED  BY <1>2, <2>1, WhoLoads DEF ChangeView
<1>4. ASSUME NEW k \in DOMAIN list.items, StartAct(k)  PROVE SpinnersHaveWork'
  <2> DEFINE a == [row |-> list.items[k], view |-> view]
  <2>1. a \in Act  BY DEF TypeOK, Act
  <2>2. Len(acts) + 1 \in DOMAIN acts' /\ acts'[Len(acts) + 1] = a
    BY <1>4, <2>1, AppendProperties DEF StartAct, TypeOK
  <2> QED  BY <1>4, <2>2 DEF StartAct, shown, SpinnersHaveWork
\* The row waits for its act first, then for the load the act asks for.
<1>5. ASSUME NEW i \in DOMAIN acts, ActDone(i)  PROVE SpinnersHaveWork'
  <2>1. acts[i] \in Act /\ StartLoad(acts[i].view, acts[i].row, FALSE)  BY <1>5, WhoLoads
  <2>2. /\ loads' # <<>> /\ Len(loads) + 1 \in DOMAIN loads'
        /\ loads'[Len(loads) + 1].row = acts[i].row
        /\ \A k \in DOMAIN loads : k \in DOMAIN loads' /\ loads'[k] = loads[k]
    <3> DEFINE l == [view |-> acts[i].view, row |-> acts[i].row, saved |-> FALSE]
    <3>1. l \in Load /\ l.row = acts[i].row  BY <2>1 DEF Act, Load
    <3>2. loads' = Append(loads, l)  BY <2>1 DEF StartLoad
    <3> HIDE DEF l
    <3> QED  BY <3>1, <3>2, StartKeeps
  <2>3. \A k \in DOMAIN acts : k # i => \E j \in DOMAIN acts' : acts'[j] = acts[k]
    <3>1. acts \in Seq(Act) /\ i \in 1..Len(acts)  BY DEF TypeOK
    <3>2. acts' = RemoveAt(acts, i)  BY <1>5 DEF ActDone
    <3> QED  BY <3>1, <3>2, RemoveAtElements
  <2>4. busyId' = busyId  BY <1>5 DEF ActDone
  <2> QED  BY <2>2, <2>3, <2>4 DEF SpinnersHaveWork
<1>6. ASSUME NEW i \in DOMAIN acts, ActFails(i)  PROVE SpinnersHaveWork'
  BY <1>6 DEF ActFails, shown, SpinnersHaveWork
<1>7. ASSUME NEW k \in DOMAIN list.items, OpenEdit(k)  PROVE SpinnersHaveWork'
  BY <1>7 DEF OpenEdit, shown, rowActs, SpinnersHaveWork
<1>8. CASE CloseEdit \/ StartSave
  BY <1>8 DEF CloseEdit, StartSave, shown, rowActs, SpinnersHaveWork
<1>9. ASSUME NEW i \in DOMAIN saves, SaveDone(i)  PROVE SpinnersHaveWork'
  <2>1. UNCHANGED rowActs  BY <1>9 DEF SaveDone
  <2> QED  BY <1>2, <1>9, <2>1, WhoLoads
<1>10. ASSUME NEW i \in DOMAIN saves, SaveFails(i)  PROVE SpinnersHaveWork'
  BY <1>10 DEF SaveFails, shown, rowActs, SpinnersHaveWork
<1> QED
  BY <1>1, <1>3, <1>4, <1>5, <1>6, <1>7, <1>8, <1>9, <1>10 DEF Next, ViewChanges

--------------------------------------------------------------------------------
(* Saving.                                                                      *)

LEMMA FinishSaves ==
    ASSUME TypeOK, SaveOrItsLoad, NEW i \in DOMAIN loads, FinishLoad(i), UNCHANGED saves
    PROVE  SaveOrItsLoad'
<1> DEFINE r == RemoveAt(loads, i)
<1>1. loads \in Seq(Load) /\ i \in 1..Len(loads)  BY DEF TypeOK
<1>2. /\ \A j \in DOMAIN r : \E k \in DOMAIN loads : k # i /\ r[j] = loads[k]
      /\ \A k \in DOMAIN loads : k # i => \E j \in DOMAIN r : r[j] = loads[k]
      /\ \A j, k \in DOMAIN r : j # k =>
           \E m, n \in DOMAIN loads : m # n /\ r[j] = loads[m] /\ r[k] = loads[n]
  BY <1>1, RemoveAtElements
<1>3. loads' = r /\ saving' = (saving /\ ~loads[i].saved)  BY DEF FinishLoad
<1> HIDE DEF r
<1>4. NoneSaved => NoneSaved'  BY <1>2, <1>3 DEF NoneSaved
<1>5. CASE NoneSaved
  <2>1. saving' = saving  BY <1>3, <1>5 DEF NoneSaved, TypeOK
  <2>2. Len(saves) = 1 \/ ~saving
    BY <1>5 DEF SaveOrItsLoad, NoneSaved, OnlySaved
  <2> QED  BY <1>4, <1>5, <2>1, <2>2 DEF SaveOrItsLoad
<1>6. ASSUME NEW k \in DOMAIN loads, OnlySaved(k), saving, saves = <<>>  PROVE SaveOrItsLoad'
  <2>1. CASE k = i
    <3>1. ~saving'  BY <1>3, <1>6, <2>1 DEF OnlySaved
    <3>2. NoneSaved'  BY <1>2, <1>3, <1>6, <2>1 DEF NoneSaved, OnlySaved
    <3> QED  BY <1>6, <3>1, <3>2 DEF SaveOrItsLoad
  <2>2. CASE k # i
    <3>1. saving'  BY <1>3, <1>6, <2>2 DEF OnlySaved
    <3>2. PICK j \in DOMAIN r : r[j] = loads[k]  BY <1>2, <2>2
    <3>3. \A m \in DOMAIN r : r[m].saved => m = j  BY <1>2, <1>6, <3>2 DEF OnlySaved
    <3>4. OnlySaved(j)'  BY <1>3, <1>6, <3>2, <3>3 DEF OnlySaved
    <3> QED  BY <1>3, <1>6, <3>1, <3>4 DEF SaveOrItsLoad
  <2> QED  BY <2>1, <2>2
<1> QED  BY <1>5, <1>6 DEF SaveOrItsLoad

\* A load that no edit waits for changes nothing about saving.
LEMMA UnsavedLoad ==
    ASSUME TypeOK, SaveOrItsLoad, NEW v \in Views, NEW row \in Rows \cup {NoRow},
           StartLoad(v, row, FALSE), UNCHANGED <<saving, saves>>
    PROVE  SaveOrItsLoad'
<1>1. /\ Len(loads) + 1 \in DOMAIN loads' /\ ~loads'[Len(loads) + 1].saved
      /\ \A k \in DOMAIN loads : k \in DOMAIN loads' /\ loads'[k] = loads[k]
      /\ \A k \in DOMAIN loads' : k \in DOMAIN loads \/ k = Len(loads) + 1
  <2> DEFINE l == [view |-> v, row |-> row, saved |-> FALSE]
  <2>1. l \in Load /\ ~l.saved  BY DEF Load
  <2>2. loads' = Append(loads, l)  BY DEF StartLoad
  <2> HIDE DEF l
  <2> QED  BY <2>1, <2>2, StartKeeps
<1>2. NoneSaved => NoneSaved'  BY <1>1 DEF NoneSaved
<1>3. \A k \in DOMAIN loads : OnlySaved(k) => OnlySaved(k)'  BY <1>1 DEF OnlySaved
<1> QED  BY <1>1, <1>2, <1>3 DEF SaveOrItsLoad

\* The dialog can be closed and opened while its edit is being saved, so the row in it
\* says nothing of the edit: only saving keeps a second one out.
LEMMA SavesKept ==
    ASSUME TypeOK, TextFits, SaveOfItsRow, SaveOrItsLoad, Next
    PROVE  SaveOrItsLoad' /\ TextFits' /\ SaveOfItsRow'
<1> DEFINE Parts == SaveOrItsLoad /\ TextFits /\ SaveOfItsRow
<1> USE DEF TextFits, SaveOfItsRow
<1>1. ASSUME NEW i \in DOMAIN loads, ReceiveList(i) \/ ListFails(i)  PROVE Parts'
  <2>1. UNCHANGED <<editing, text, saves>> /\ FinishLoad(i)  BY <1>1 DEF ReceiveList, ListFails
  <2> QED  BY <2>1, FinishSaves
<1>2. CASE ViewChanges
  <2> PICK v \in Views : ChangeView(v)  BY <1>2, ToViews
  <2>1. UNCHANGED dialog  BY DEF ChangeView
  <2>2. Loads(v, FALSE)  BY WhoLoads
  <2>3. SaveOrItsLoad'  BY <2>1, <2>2, UnsavedLoad DEF dialog, Loads
  <2> QED  BY <2>1, <2>3 DEF dialog
<1>3. ASSUME NEW k \in DOMAIN list.items, StartAct(k)  PROVE Parts'
  BY <1>3 DEF StartAct, shown, dialog, SaveOrItsLoad, NoneSaved, OnlySaved
<1>4. ASSUME NEW i \in DOMAIN acts, ActDone(i)  PROVE Parts'
  <2>1. acts[i] \in Act /\ StartLoad(acts[i].view, acts[i].row, FALSE)  BY <1>4, WhoLoads
  <2>2. acts[i].view \in Views /\ acts[i].row \in Rows \cup {NoRow}  BY <2>1 DEF Act
  <2>3. UNCHANGED dialog  BY <1>4 DEF ActDone
  <2>4. SaveOrItsLoad'  BY <2>1, <2>2, <2>3, UnsavedLoad DEF dialog
  <2> QED  BY <2>3, <2>4 DEF dialog
<1>5. ASSUME NEW i \in DOMAIN acts, ActFails(i)  PROVE Parts'
  BY <1>5 DEF ActFails, shown, dialog, SaveOrItsLoad, NoneSaved, OnlySaved
<1>6. ASSUME NEW k \in DOMAIN list.items, OpenEdit(k)  PROVE Parts'
  BY <1>6 DEF OpenEdit, shown, SaveOrItsLoad, NoneSaved, OnlySaved
<1>7. CASE CloseEdit
  BY <1>7 DEF CloseEdit, shown, SaveOrItsLoad, NoneSaved, OnlySaved
<1>8. CASE StartSave
  <2> DEFINE s == [row |-> editing, text |-> text, view |-> view]
  <2>1. saves = <<>> /\ NoneSaved /\ text = editing  BY <1>8 DEF StartSave, SaveOrItsLoad
  <2>2. saves' = <<s>> /\ saving' /\ UNCHANGED <<loads, editing, text>>
    BY <1>8, <2>1 DEF StartSave, shown
  <2>3. Len(saves') = 1 /\ NoneSaved'  BY <2>1, <2>2 DEF NoneSaved
  <2> QED  BY <2>1, <2>2, <2>3 DEF SaveOrItsLoad
<1>9. ASSUME NEW i \in DOMAIN saves  PROVE saving /\ NoneSaved /\ RemoveAt(saves, i) = <<>>
  <2>1. saves \in Seq(Save) /\ i \in 1..Len(saves)  BY DEF TypeOK
  <2>2. saves # <<>>  BY <2>1
  <2>3. saving /\ NoneSaved /\ Len(saves) = 1  BY <2>2 DEF SaveOrItsLoad
  <2>4. RemoveAt(saves, i) \in Seq(Save) /\ Len(RemoveAt(saves, i)) = Len(saves) - 1
    BY <2>1, RemoveAtProperties
  <2>5. PICK rest \in Seq(Save) : rest = RemoveAt(saves, i)  BY <2>4
  <2>6. rest = <<>>  BY <2>3, <2>4, <2>5, EmptySeq
  <2> QED  BY <2>3, <2>5, <2>6
\* The edit is over, the load behind it is not: saving goes on.
<1>10. ASSUME NEW i \in DOMAIN saves, SaveDone(i)  PROVE Parts'
  <2>1. saves' = <<>> /\ saving' /\ editing' = NoRow  BY <1>9, <1>10 DEF SaveDone
  <2>2. Loads(saves[i].view, TRUE)  BY <1>10, WhoLoads
  <2>3. /\ Len(loads) + 1 \in DOMAIN loads' /\ loads'[Len(loads) + 1].saved
        /\ \A k \in DOMAIN loads : k \in DOMAIN loads' /\ loads'[k] = loads[k]
        /\ \A k \in DOMAIN loads' : k \in DOMAIN loads \/ k = Len(loads) + 1
    <3> DEFINE l == [view |-> saves[i].view, row |-> NoRow, saved |-> TRUE]
    <3>1. l \in Load /\ l.saved  BY <2>2 DEF Loads, Load
    <3>2. loads' = Append(loads, l)  BY <2>2 DEF Loads, StartLoad
    <3> HIDE DEF l
    <3> QED  BY <3>1, <3>2, StartKeeps
  <2>4. NoneSaved  BY <1>9
  <2>5. PICK n : n = Len(loads) + 1  OBVIOUS
  <2>6. n \in DOMAIN loads' /\ OnlySaved(n)'  BY <2>3, <2>4, <2>5 DEF NoneSaved, OnlySaved
  <2>7. SaveOrItsLoad'  BY <2>1, <2>6 DEF SaveOrItsLoad
  <2> QED  BY <2>1, <2>7
<1>11. ASSUME NEW i \in DOMAIN saves, SaveFails(i)  PROVE Parts'
  <2>1. saves' = <<>> /\ saving' = FALSE /\ UNCHANGED <<loads, editing, text>> /\ NoneSaved
    BY <1>9, <1>11 DEF SaveFails, shown
  <2> QED  BY <2>1 DEF SaveOrItsLoad, NoneSaved
<1> QED
  BY <1>1, <1>2, <1>3, <1>4, <1>5, <1>6, <1>7, <1>8, <1>10, <1>11 DEF Next, ViewChanges

--------------------------------------------------------------------------------
(* The view.                                                                    *)

\* Unless upset, every request and its reload are of this view, so what a load brings is
\* this view's too; a failed load leaves rows there are no more, and upsets the page.
LEMMA ViewKept ==
    ASSUME TypeOK, ThisView, Next
    PROVE  ThisView'
<1> USE DEF ThisView, Strays
\* What has ended strays no more.
<1>1. ASSUME NEW i \in DOMAIN loads, loads' = RemoveAt(loads, i), UNCHANGED <<view, acts, saves>>
      PROVE  Strays(view)' => Strays(view)
  <2>1. loads \in Seq(Load) /\ i \in 1..Len(loads)  BY DEF TypeOK
  <2>2. \A j \in DOMAIN loads' : \E k \in DOMAIN loads : k # i /\ loads'[j] = loads[k]
    BY <1>1, <2>1, RemoveAtElements
  <2> QED  BY <1>1, <2>2
<1>2. ASSUME NEW i \in DOMAIN acts, acts' = RemoveAt(acts, i)
      PROVE  \A j \in DOMAIN acts' : \E k \in DOMAIN acts : acts'[j] = acts[k]
  <2>1. acts \in Seq(Act) /\ i \in 1..Len(acts)  BY DEF TypeOK
  <2> QED  BY <1>2, <2>1, RemoveAtElements
<1>3. ASSUME NEW i \in DOMAIN saves, saves' = RemoveAt(saves, i)
      PROVE  \A j \in DOMAIN saves' : \E k \in DOMAIN saves : saves'[j] = saves[k]
  <2>1. saves \in Seq(Save) /\ i \in 1..Len(saves)  BY DEF TypeOK
  <2> QED  BY <1>3, <2>1, RemoveAtElements
<1>4. ASSUME NEW v \in Views, NEW row \in Rows \cup {NoRow}, NEW saved \in BOOLEAN,
             StartLoad(v, row, saved)
      PROVE  loading' /\ \A j \in DOMAIN loads' : loads'[j].view = v \/
                            \E k \in DOMAIN loads : loads'[j] = loads[k]
  <2> DEFINE l == [view |-> v, row |-> row, saved |-> saved]
  <2>1. l \in Load /\ l.view = v  BY DEF Load
  <2>2. loads' = Append(loads, l) /\ loading'  BY <1>4 DEF StartLoad
  <2> HIDE DEF l
  <2> QED  BY <2>1, <2>2, StartKeeps
<1>5. ASSUME NEW i \in DOMAIN loads, ReceiveList(i)  PROVE ThisView'
  <2>1. Strays(view)' => Strays(view)  BY <1>1, <1>5 DEF ReceiveList, FinishLoad
  <2>2. list'.view = loads[i].view /\ view' = view  BY <1>5 DEF ReceiveList
  <2>3. CASE loads[i].view = view
    <3>1. upset' = Strays(view)  BY <1>5, <2>3 DEF ReceiveList
    <3> HIDE DEF Strays
    <3> QED  BY <2>1, <2>2, <2>3, <3>1
  <2>4. CASE loads[i].view # view
    <3>1. upset' = upset  BY <1>5, <2>4 DEF ReceiveList
    <3>2. upset  BY <2>4
    <3> QED  BY <3>1, <3>2
  <2> QED  BY <2>3, <2>4
<1>6. ASSUME NEW i \in DOMAIN loads, ListFails(i)  PROVE ThisView'
  BY <1>6 DEF ListFails
<1>7. CASE ViewChanges
  <2>1. PICK v \in Views : ChangeView(v)  BY <1>7, ToViews
  <2>2. view' = v /\ upset' = Strays(v) /\ UNCHANGED <<acts, saves>> /\ StartLoad(v, NoRow, FALSE)
    BY <2>1 DEF ChangeView, rowActs, dialog
  <2> SUFFICES ASSUME ~upset'  PROVE loading' /\ ~Strays(view)'  OBVIOUS
  <2>3. ~Strays(v)  BY <2>2
  <2>4. /\ loading'
        /\ \A j \in DOMAIN loads' : loads'[j].view = v \/ \E k \in DOMAIN loads : loads'[j] = loads[k]
    BY <1>4, <2>2
  <2>5. \A j \in DOMAIN loads' : loads'[j].view = v  BY <2>3, <2>4
  <2>6. /\ \A j \in DOMAIN acts' : acts'[j].view = v
        /\ \A j \in DOMAIN saves' : saves'[j].view = v
    BY <2>2, <2>3
  <2> QED  BY <2>2, <2>4, <2>5, <2>6
<1>8. ASSUME NEW k \in DOMAIN list.items, StartAct(k)  PROVE ThisView'
  <2> DEFINE a == [row |-> list.items[k], view |-> view]
  <2>1. a \in Act /\ a.view = view  BY DEF TypeOK, Act
  <2>2. acts' = Append(acts, a)  BY <1>8 DEF StartAct
  <2> HIDE DEF a
  <2>3. \A j \in DOMAIN acts' : acts'[j] = a \/ \E m \in DOMAIN acts : acts'[j] = acts[m]
    BY <2>1, <2>2, AppendElements DEF TypeOK
  <2> QED  BY <1>8, <2>1, <2>3 DEF StartAct, shown, dialog
<1>9. ASSUME NEW i \in DOMAIN acts, ActDone(i)  PROVE ThisView'
  <2>1. acts[i] \in Act /\ StartLoad(acts[i].view, acts[i].row, FALSE)  BY <1>9, WhoLoads
  <2>2. acts[i].view \in Views /\ acts[i].row \in Rows \cup {NoRow}  BY <2>1 DEF Act
  <2>3. acts' = RemoveAt(acts, i) /\ UNCHANGED <<view, saves, upset>>  BY <1>9 DEF ActDone, dialog
  <2> SUFFICES ASSUME ~upset'  PROVE loading' /\ ~Strays(view)'  OBVIOUS
  <2>4. ~Strays(view) /\ acts[i].view = view  BY <2>3
  <2>5. /\ loading'
        /\ \A j \in DOMAIN loads' : loads'[j].view = acts[i].view \/
                                   \E k \in DOMAIN loads : loads'[j] = loads[k]
    BY <1>4, <2>1, <2>2
  <2>6. \A j \in DOMAIN loads' : loads'[j].view = view  BY <2>4, <2>5
  <2>7. \A j \in DOMAIN acts' : acts'[j].view = view  BY <1>2, <2>3, <2>4
  <2>8. \A j \in DOMAIN saves' : saves'[j].view = view  BY <2>3, <2>4
  <2> QED  BY <2>3, <2>5, <2>6, <2>7, <2>8
<1>10. ASSUME NEW i \in DOMAIN acts, ActFails(i)  PROVE ThisView'
  BY <1>2, <1>10 DEF ActFails, shown, dialog
<1>11. ASSUME NEW k \in DOMAIN list.items, OpenEdit(k)  PROVE ThisView'
  BY <1>11 DEF OpenEdit, shown, rowActs
<1>12. CASE CloseEdit  BY <1>12 DEF CloseEdit, shown, rowActs
<1>13. CASE StartSave
  <2> DEFINE s == [row |-> editing, text |-> text, view |-> view]
  <2>1. s.view = view /\ saves' = Append(saves, s)  BY <1>13 DEF StartSave
  <2> HIDE DEF s
  <2>2. \A j \in DOMAIN saves' : saves'[j] = s \/ \E m \in DOMAIN saves : saves'[j] = saves[m]
    <3>1. saves \in Seq(Save \cup {s}) /\ s \in Save \cup {s}  BY DEF TypeOK
    <3> QED  BY <2>1, <3>1, AppendElements
  <2> QED  BY <1>13, <2>1, <2>2 DEF StartSave, shown, rowActs
<1>14. ASSUME NEW i \in DOMAIN saves, SaveDone(i)  PROVE ThisView'
  <2>1. Loads(saves[i].view, TRUE)  BY <1>14, WhoLoads
  <2>2. saves' = RemoveAt(saves, i) /\ UNCHANGED <<view, acts, upset>>  BY <1>14 DEF SaveDone, rowActs
  <2> SUFFICES ASSUME ~upset'  PROVE loading' /\ ~Strays(view)'  OBVIOUS
  <2>3. ~Strays(view) /\ saves[i].view = view  BY <2>2
  <2>4. /\ loading'
        /\ \A j \in DOMAIN loads' : loads'[j].view = saves[i].view \/
                                   \E k \in DOMAIN loads : loads'[j] = loads[k]
    BY <1>4, <2>1 DEF Loads
  <2>5. \A j \in DOMAIN loads' : loads'[j].view = view  BY <2>3, <2>4
  <2>6. \A j \in DOMAIN saves' : saves'[j].view = view  BY <1>3, <2>2, <2>3
  <2>7. \A j \in DOMAIN acts' : acts'[j].view = view  BY <2>2, <2>3
  <2> QED  BY <2>2, <2>4, <2>5, <2>6, <2>7
<1>15. ASSUME NEW i \in DOMAIN saves, SaveFails(i)  PROVE ThisView'
  BY <1>3, <1>15 DEF SaveFails, shown, rowActs
<1> QED
  BY <1>5, <1>6, <1>7, <1>8, <1>9, <1>10, <1>11, <1>12, <1>13, <1>14, <1>15 DEF Next, ViewChanges

--------------------------------------------------------------------------------

LEMMA InitIInv == Init => IInv
<1> SUFFICES ASSUME Init PROVE IInv  OBVIOUS
<1> DEFINE l == [view |-> FirstView, row |-> NoRow, saved |-> FALSE]
<1>1. l \in Load /\ ~l.saved /\ l.view = FirstView  BY FirstTypes DEF Load
<1>2. loads = <<l>>  BY DEF Init
<1> HIDE DEF l
<1>3. loads \in Seq(Load) /\ loads # <<>> /\ NoneSaved  BY <1>1, <1>2 DEF NoneSaved
<1>4. NoList \in [view : Views, rows : Lists, items : Seq(Rows)]
  <2>1. <<>> \in Seq(Rows)  OBVIOUS
  <2> QED  BY <2>1, EmptyList, FirstTypes DEF NoList
<1>5. TypeOK
  <2>1. acts \in Seq(Act) /\ saves \in Seq(Save)  BY DEF Init
  <2> QED  BY <1>3, <1>4, <2>1, FirstTypes DEF Init, TypeOK
<1>6. SpinnersHaveWork /\ SaveOrItsLoad /\ TextFits /\ SaveOfItsRow
  BY <1>3 DEF Init, SpinnersHaveWork, SaveOrItsLoad, TextFits, SaveOfItsRow
<1>7. ThisView  BY <1>1, <1>2 DEF Init, ThisView, Strays
<1> QED  BY <1>5, <1>6, <1>7 DEF IInv

LEMMA NextIInv == IInv /\ [Next]_vars => IInv'
<1> SUFFICES ASSUME IInv, [Next]_vars PROVE IInv'  OBVIOUS
<1>1. CASE Next
  <2>1. TypeOK'  BY <1>1, TypesKept DEF IInv
  <2>2. SpinnersHaveWork'  BY <1>1, <2>1, SpinnersKept DEF IInv
  <2>3. ThisView'  BY <1>1, ViewKept DEF IInv
  <2> QED  BY <1>1, <2>1, <2>2, <2>3, SavesKept DEF IInv
<1>2. CASE UNCHANGED vars
  BY <1>2 DEF vars, IInv, TypeOK, ThisView, Strays, SpinnersHaveWork, SaveOrItsLoad, NoneSaved, OnlySaved,
              TextFits, SaveOfItsRow
<1> QED  BY <1>1, <1>2

LEMMA Invariance == Spec => []IInv
  BY InitIInv, NextIInv, PTL DEF Spec

\* The count that the property asks for.
LEMMA Counted == IInv => OneSaveInFlight
<1> SUFFICES ASSUME IInv PROVE OneSaveInFlight  OBVIOUS
<1> DEFINE reloads == {i \in DOMAIN loads : loads[i].saved}
<1>1. NoneSaved => Cardinality(reloads) = 0  BY FS_EmptySet DEF NoneSaved
<1>2. ASSUME NEW i \in DOMAIN loads, OnlySaved(i)  PROVE Cardinality(reloads) = 1
  <2>1. reloads = {i}  BY <1>2 DEF OnlySaved
  <2> QED  BY <2>1, FS_Singleton
<1>3. saves = <<>> => Len(saves) = 0  OBVIOUS
<1> HIDE DEF reloads
<1>4. Len(saves) + Cardinality(reloads) = IF saving THEN 1 ELSE 0
  BY <1>1, <1>2, <1>3 DEF IInv, SaveOrItsLoad
<1> QED  BY <1>4 DEF OneSaveInFlight, reloads

--------------------------------------------------------------------------------

\* The page number stays on a page there can be; the rest has its types.
THEOREM PageTypes == Spec => []TypeOK
<1>1. IInv => TypeOK  BY DEF IInv
<1> QED  BY <1>1, Invariance, PTL

\* No spinner turns without a load or an act behind it.
THEOREM SpinnersStayHonest == Spec => []SpinnersHaveWork
<1>1. IInv => SpinnersHaveWork  BY DEF IInv
<1> QED  BY <1>1, Invariance, PTL

\* One edit at a time, from the click to the end of the load behind it.
THEOREM OneSave == Spec => []OneSaveInFlight
  BY Counted, Invariance, PTL

\* An edit is saved to the row it was made for.
THEOREM SavesFit == Spec => []SaveOfItsRow
<1>1. IInv => SaveOfItsRow  BY DEF IInv
<1> QED  BY <1>1, Invariance, PTL

\* The rows shown are those of the page and the filters named, whatever overtakes what,
\* unless a load failed or a request of an earlier view was under way at the change.
THEOREM PageStaysAsNumbered == Spec => []PageAsNumbered
<1>1. IInv => PageAsNumbered  BY DEF IInv, ThisView, PageAsNumbered
<1> QED  BY <1>1, Invariance, PTL
====
