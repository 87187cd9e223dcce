---- MODULE ListPage ----
(* The list pages: rows that a load brings, buttons that act on a row and load    *)
(* again, a dialog that edits a row.  The definitions are those of the admins'    *)
(* reservations page, which has filters and a pager too; the users', the rooms'   *)
(* and a user's own reservations page repeat its load and act without them.       *)
(* Answers come in any order, and others change the rows at any moment, so a load *)
(* may find any of them, whatever the filters it carries, and filters are told    *)
(* apart only; a row's status only decides which buttons it has.                  *)
EXTENDS Integers, Sequences, SequencesExt, FiniteSets

CONSTANTS
    MaxRows, PageSize,
    Filters, NoFilters,     \* what can be filtered by, and the filters of a fresh page
    MaxRequests             \* bounds the requests under way at once

ASSUME BoundsAssumption == {MaxRows, PageSize, MaxRequests} \subseteq Nat \ {0}
ASSUME FiltersAssumption == NoFilters \in Filters

VARIABLES
    view,               \* page and applied
    list,               \* data: the view it answers, every row it was cut from, its page of them
    loading,
    loads,              \* GET /admin/reservations under way
    busyId,             \* the row whose buttons spin
    acts,               \* rejections and removals under way
    editing, text,      \* the row in the dialog, and whose fields the dialog holds
    saving,
    saves,              \* PATCH /admin/reservations/:id under way
    upset               \* history: a load failed, or a request of an earlier view was under
                        \* way when the view changed, and no current answer came alone since

vars == <<view, list, loading, loads, busyId, acts, editing, text, saving, saves, upset>>
shown == <<list, loading, loads>>
rowActs == <<busyId, acts>>
dialog == <<editing, text, saving, saves>>

--------------------------------------------------------------------------------
(* Pages.                                                                       *)

Rows == 1..MaxRows
NoRow == 0

\* What a filter may select: some of the rows, in their order.
Lists == {rows \in SeqOf(Rows, MaxRows) : \A i, j \in DOMAIN rows : i < j => rows[i] < rows[j]}

\* skip and take.
PageOf(rows, p) ==
    LET skip == (p - 1) * PageSize
    IN SubSeq(rows, skip + 1, IF skip + PageSize < Len(rows) THEN skip + PageSize ELSE Len(rows))

TotalPages(rows) == IF rows = <<>> THEN 1 ELSE (Len(rows) + PageSize - 1) \div PageSize
Pages == 1..((MaxRows + PageSize - 1) \div PageSize)

Views == [page : Pages, filters : Filters]
At(page, filters) == [page |-> page, filters |-> filters]
FirstView == At(1, NoFilters)

\* A load, and what its end also ends: the act on a row, or the saving.
Load == [view : Views, row : Rows \cup {NoRow}, saved : BOOLEAN]
\* act and saveEdit load what the render they belong to showed, also after a change.
Act == [row : Rows, view : Views]
Save == [row : Rows, text : Rows, view : Views]
NoList == [view |-> FirstView, rows |-> <<>>, items |-> <<>>]

\* A request under way of another view than v.
Strays(v) ==
    \/ \E i \in DOMAIN loads : loads[i].view # v
    \/ \E i \in DOMAIN acts : acts[i].view # v
    \/ \E i \in DOMAIN saves : saves[i].view # v

Init ==
    /\ view = FirstView
    /\ list = NoList /\ loading = TRUE
    /\ loads = <<[view |-> FirstView, row |-> NoRow, saved |-> FALSE]>>
    /\ busyId = NoRow /\ acts = <<>>
    /\ editing = NoRow /\ text = NoRow /\ saving = FALSE /\ saves = <<>>
    /\ upset = FALSE

--------------------------------------------------------------------------------
(* Loading.                                                                     *)

StartLoad(v, row, saved) ==
    /\ loading' = TRUE
    /\ loads' = Append(loads, [view |-> v, row |-> row, saved |-> saved])

\* The finally of load, then that of whoever awaited it: act's frees any button.
FinishLoad(i) ==
    /\ loading' = FALSE /\ loads' = RemoveAt(loads, i)
    /\ busyId' = IF loads[i].row # NoRow THEN NoRow ELSE busyId
    /\ saving' = (saving /\ ~loads[i].saved)

ReceiveList(i) ==
    /\ \E rows \in Lists :
         list' = [view |-> loads[i].view, rows |-> rows, items |-> PageOf(rows, loads[i].view.page)]
    /\ FinishLoad(i)
    /\ upset' = IF loads[i].view = view THEN Strays(view) ELSE upset
    /\ UNCHANGED <<view, acts, editing, text, saves>>

\* The rows shown before stay.
ListFails(i) ==
    /\ FinishLoad(i)
    /\ upset' = TRUE
    /\ UNCHANGED <<view, list, acts, editing, text, saves>>

Spare == Len(loads) + Len(acts) + Len(saves) < MaxRequests

\* The dialog covers the page, the spinner the rows and the pager.
AtPage == editing = NoRow /\ Spare
AtRows == AtPage /\ ~loading

\* The next render's load is another function, and the effect runs it.
ChangeView(v) ==
    /\ view' = v
    /\ StartLoad(v, NoRow, FALSE)
    /\ upset' = Strays(v)
    /\ UNCHANGED <<list, rowActs, dialog>>

\* applyFilters: the filters stay on the page while it loads.
ApplyFilters(f) == AtPage /\ ChangeView(At(1, f))

\* Mutant: the button calls load itself, which still has the old page.
NextPageOldLoad ==
    /\ AtRows /\ list.items # <<>> /\ view.page < TotalPages(list.rows)
    /\ view' = At(view.page + 1, view.filters)
    /\ StartLoad(view, NoRow, FALSE)
    /\ upset' = Strays(view')
    /\ UNCHANGED <<list, rowActs, dialog>>

NextPage ==
    /\ AtRows /\ list.items # <<>> /\ view.page < TotalPages(list.rows)
    /\ ChangeView(At(view.page + 1, view.filters))

\* Mutant: the button is on at the first page.
PreviousUnguarded == AtRows /\ list.items # <<>> /\ ChangeView(At(view.page - 1, view.filters))

PreviousPage ==
    /\ AtRows /\ list.items # <<>> /\ view.page > 1
    /\ ChangeView(At(view.page - 1, view.filters))

--------------------------------------------------------------------------------
(* Acts on a row.                                                               *)

\* Only the last row acted on has its buttons off.
StartAct(k) ==
    /\ AtRows /\ busyId # list.items[k]
    /\ busyId' = list.items[k]
    /\ acts' = Append(acts, [row |-> list.items[k], view |-> view])
    /\ UNCHANGED <<view, shown, dialog, upset>>

\* Done: load again and wait for it.
ActDone(i) ==
    /\ acts' = RemoveAt(acts, i)
    /\ StartLoad(acts[i].view, acts[i].row, FALSE)
    /\ UNCHANGED <<view, list, busyId, dialog, upset>>

\* Mutant: busyId is only reset after a success.
ActFailsBusy(i) ==
    /\ acts' = RemoveAt(acts, i)
    /\ UNCHANGED <<view, shown, busyId, dialog, upset>>

ActFails(i) ==
    /\ acts' = RemoveAt(acts, i)
    /\ busyId' = NoRow
    /\ UNCHANGED <<view, shown, dialog, upset>>

--------------------------------------------------------------------------------
(* The dialog.                                                                  *)

\* Mutant: the fields are filled the first time only.
OpenKeepsText(k) ==
    /\ AtRows
    /\ editing' = list.items[k]
    /\ text' = IF text = NoRow THEN list.items[k] ELSE text
    /\ UNCHANGED <<view, shown, rowActs, saving, saves, upset>>

OpenEdit(k) ==
    /\ AtRows
    /\ editing' = list.items[k] /\ text' = list.items[k]
    /\ UNCHANGED <<view, shown, rowActs, saving, saves, upset>>

\* Mutant: closing the dialog also frees its button.
CloseResetsSaving ==
    /\ editing # NoRow
    /\ editing' = NoRow /\ saving' = FALSE
    /\ UNCHANGED <<view, shown, rowActs, text, saves, upset>>

CloseEdit ==
    /\ editing # NoRow
    /\ editing' = NoRow
    /\ UNCHANGED <<view, shown, rowActs, text, saving, saves, upset>>

StartSave ==
    /\ editing # NoRow /\ ~saving /\ Spare
    /\ saving' = TRUE
    /\ saves' = Append(saves, [row |-> editing, text |-> text, view |-> view])
    /\ UNCHANGED <<view, shown, rowActs, editing, text, upset>>

\* Whatever the dialog shows by then is closed.
SaveDone(i) ==
    /\ saves' = RemoveAt(saves, i)
    /\ editing' = NoRow
    /\ StartLoad(saves[i].view, NoRow, TRUE)
    /\ UNCHANGED <<view, list, rowActs, text, saving, upset>>

SaveFails(i) ==
    /\ saves' = RemoveAt(saves, i)
    /\ saving' = FALSE
    /\ UNCHANGED <<view, shown, rowActs, editing, text, upset>>

--------------------------------------------------------------------------------

Next ==
    \/ \E i \in DOMAIN loads : ReceiveList(i) \/ ListFails(i)
    \/ (\E f \in Filters : ApplyFilters(f)) \/ NextPage \/ PreviousPage
    \/ \E k \in DOMAIN list.items : StartAct(k) \/ OpenEdit(k)
    \/ \E i \in DOMAIN acts : ActDone(i) \/ ActFails(i)
    \/ CloseEdit \/ StartSave
    \/ \E i \in DOMAIN saves : SaveDone(i) \/ SaveFails(i)

Spec == Init /\ [][Next]_vars

--------------------------------------------------------------------------------
(* Properties.                                                                  *)

TypeOK ==
    /\ view \in Views
    /\ list \in [view : Views, rows : Lists, items : Seq(Rows)]
    /\ loading \in BOOLEAN /\ loads \in Seq(Load)
    /\ busyId \in Rows \cup {NoRow} /\ acts \in Seq(Act)
    /\ editing \in Rows \cup {NoRow} /\ text \in Rows \cup {NoRow}
    /\ saving \in BOOLEAN /\ saves \in Seq(Save)
    /\ upset \in BOOLEAN

\* Rows on the screen are those of the page and the filters it names, however loads,
\* and the reloads of acts and edits, overtake each other, unless a load failed, or the
\* page was turned or filtered while a request of an earlier view was under way: its
\* reload, of the view it was sent from, may then come last and stay.
PageAsNumbered == ~loading /\ ~upset => list.view = view

\* A spinner never turns for nothing: not the page's, not that of a row's buttons,
\* whatever overtakes what while acts on several rows and their reloads overlap.
SpinnersHaveWork ==
    /\ loading => loads # <<>>
    /\ busyId # NoRow =>
         \/ \E i \in DOMAIN acts : acts[i].row = busyId
         \/ \E i \in DOMAIN loads : loads[i].row = busyId

\* One edit at a time is being saved, also when the dialog is closed meanwhile and
\* opened for another row; and saving ends with it and its reload, not before.
OneSaveInFlight ==
    LET reloads == {i \in DOMAIN loads : loads[i].saved}
    IN Len(saves) + Cardinality(reloads) = IF saving THEN 1 ELSE 0

\* An edit is saved to the row whose fields it holds, never to one opened later or
\* earlier, although a late answer closes and a click reopens the dialog.
SaveOfItsRow == \A i \in DOMAIN saves : saves[i].text = saves[i].row
====
