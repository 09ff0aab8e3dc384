----------------------------- MODULE LibraryRows ------------------------------
(* The library as rows: HttpMergeEngine lists the torrents and, after them, the*)
(* direct downloads; QmlPosterModel announces to the views rows inserted,      *)
(* removed and moved; QmlSessionBridge keeps the selection as row numbers and  *)
(* moves, removes and follows it.  A row is named by the item it stands for.   *)
EXTENDS Integers, Sequences, SequencesExt, FiniteSets

CONSTANTS
    Torrents, Files, \* the items: torrents, direct downloads
    MaxRows          \* bound: items listed at once

Items == Torrents \cup Files

VARIABLES
    torrents, \* rows of the engine
    files,    \* m_http's rows
    shown,    \* the rows the views hold, by the item whose name they show
    rows,     \* m_selectedRows, in the order given
    picked,   \* history: the items of the selection
    happened  \* history: "inserted", a torrent was listed above direct downloads;
              \* "crossed", a queue move reached a row the engine does not reorder
              \* or the views do not hold yet;
              \* "unheard", a direct download went by its hash and rows are selected

library == <<torrents, files, shown, rows, picked, happened>>

Merged == torrents \o files     \* torrentAt: index < base is the engine's
base == Len(torrents)

TypeOK ==
    /\ torrents \in Seq(Torrents) /\ files \in Seq(Files) /\ shown \in Seq(Items)
    /\ rows \in Seq(1..MaxRows) /\ picked \subseteq Items
    /\ happened \subseteq {"inserted", "crossed", "unheard"}

Init ==
    /\ torrents = <<>> /\ files = <<>> /\ shown = <<>> /\ rows = <<>>
    /\ picked = {} /\ happened = {}

Without(s, i) == SubSeq(s, 1, i - 1) \o SubSeq(s, i + 1, Len(s))
Moved(s, from, to) ==
    LET rest == Without(s, from)
    IN  SubSeq(rest, 1, to - 1) \o <<s[from]>> \o SubSeq(rest, to, Len(rest))

------------------------------------------------------------------------------
\* syncCount: more rows are inserted at the end, fewer reset the views.
SyncCount(merged, held) ==
    IF Len(merged) > Len(held) THEN held \o SubSeq(merged, Len(held) + 1, Len(merged))
    ELSE IF Len(merged) < Len(held) THEN merged
    ELSE held

\* refresh, on torrentsUpdated: the tick, or a direct download that changed.
Refresh ==
    /\ shown' = SyncCount(Merged, shown)
    /\ UNCHANGED <<torrents, files, rows, picked, happened>>

\* refreshFull: names and posters are read again too.
RefreshFull ==
    /\ shown' = Merged
    /\ UNCHANGED <<torrents, files, rows, picked, happened>>

\* A torrent is added; the model hears of it at the next tick.
AddTorrent(t) ==
    /\ t \notin ToSet(Merged) /\ Len(Merged) < MaxRows
    /\ torrents' = Append(torrents, t)
    /\ happened' = IF files = <<>> THEN happened ELSE happened \cup {"inserted"}
    /\ UNCHANGED <<files, shown, rows, picked>>

\* HttpDownloadManager::add emits changed.
AddFile(f) ==
    /\ f \notin ToSet(Merged) /\ Len(Merged) < MaxRows
    /\ files' = Append(files, f)
    /\ shown' = SyncCount(torrents \o files', shown)
    /\ UNCHANGED <<torrents, rows, picked, happened>>

\* removeRow, at the row the engine says, beside the merged list without it.
RemoveRowLast(i, merged, held) ==
    IF i > Len(held) THEN SyncCount(merged, held) ELSE SubSeq(held, 1, Len(held) - 1)

RemoveRow(i, merged, held) ==
    IF i > Len(held) THEN SyncCount(merged, held) ELSE Without(held, i)

\* onTorrentRemoved: the rows behind the one that went move up.
OnTorrentRemovedKeeps(i, selected) == SelectSeq(selected, LAMBDA r : r # i)

OnTorrentRemoved(i, selected) ==
    LET kept == SelectSeq(selected, LAMBDA r : r # i)
    IN  [j \in DOMAIN kept |-> IF kept[j] > i THEN kept[j] - 1 ELSE kept[j]]

\* One removal from the state s: torrentRemoved reaches the model and then the
\* bridge; a direct download only tells that something changed.
Removed(s, i) ==
    IF i <= Len(s.torrents)
    THEN LET left == Without(s.torrents, i)
         IN  [s EXCEPT !.torrents = left,
                       !.shown = RemoveRow(i, left \o s.files, s.shown),
                       !.rows = OnTorrentRemoved(i, s.rows)]
    ELSE IF i > Len(s.torrents) + Len(s.files) THEN s
    ELSE LET left == Without(s.files, i - Len(s.torrents))
         IN  [s EXCEPT !.files = left,
                       !.shown = SyncCount(s.torrents \o left, s.shown)]

Now == [torrents |-> torrents, files |-> files, shown |-> shown, rows |-> rows]
Becomes(s) == torrents' = s.torrents /\ files' = s.files /\ shown' = s.shown

\* removeSelectedRows: from the last row up, then nothing is selected.
RemoveSelectedUpwards ==
    /\ rows # <<>>
    /\ Becomes(FoldLeft(Removed, Now, SortSeq(rows, LAMBDA a, b : a < b)))
    /\ rows' = <<>> /\ picked' = {}
    /\ UNCHANGED happened

RemoveSelected ==
    /\ rows # <<>>
    /\ Becomes(FoldLeft(Removed, Now, SortSeq(rows, LAMBDA a, b : a > b)))
    /\ rows' = <<>> /\ picked' = {}
    /\ UNCHANGED happened

\* removeTorrentsByHash, or a removal from elsewhere.  The views lose a selected
\* row and select again what is left of the selection, by its items (followRows).
RemoveItem(x) ==
    /\ x \in ToSet(Merged)
    /\ LET s == Removed(Now, SelectInSeq(Merged, LAMBDA y : y = x))
           left == picked \ {x}
           again == SelectSeq([i \in DOMAIN(s.torrents \o s.files) |-> i],
                              LAMBDA i : (s.torrents \o s.files)[i] \in left)
       IN  /\ Becomes(s)
           /\ picked' = left
           /\ rows' = IF x \in picked THEN again ELSE s.rows
           /\ happened' = IF x \in Files /\ x \notin picked /\ rows # <<>>
                          THEN happened \cup {"unheard"} ELSE happened

------------------------------------------------------------------------------
\* setSelectedRows: the rows picked in a view.
Select(chosen) ==
    /\ \A i \in DOMAIN chosen : chosen[i] <= Len(shown) /\ chosen[i] <= Len(Merged)
    /\ rows' = chosen
    /\ picked' = {shown[chosen[i]] : i \in DOMAIN chosen}
    /\ UNCHANGED <<torrents, files, shown, happened>>

\* setTorrentQueuePosition, then queueMoved to the model (moveRow): the engine
\* reorders its own rows only.
Queued(s, from, to) ==
    LET ours == from <= Len(s.torrents) /\ to <= Len(s.torrents)
        held == from <= Len(s.shown) /\ to <= Len(s.shown)
    IN  [s EXCEPT !.torrents = IF ours THEN Moved(s.torrents, from, to) ELSE @,
                  !.shown = IF held THEN Moved(s.shown, from, to) ELSE @,
                  !.crossed = @ \/ ~ours \/ ~held]

\* One step of queueUpSelected and of queueDownSelected, by a row: a row stops
\* below another selected one that could not move.
QueuedBy(by, last, s, r) ==
    IF r + by \in 1..last /\ ~Contains(s.rows, r + by)
    THEN [Queued(s, r, r + by) EXCEPT !.rows = Append(@, r + by)]
    ELSE [s EXCEPT !.rows = Append(@, r)]

QueueSelected(by, last, order) ==
    LET s == FoldLeft(LAMBDA a, r : QueuedBy(by, last, a, r),
                      [torrents |-> torrents, shown |-> shown, rows |-> <<>>, crossed |-> FALSE],
                      order)
    IN  /\ torrents' = s.torrents /\ shown' = s.shown /\ rows' = s.rows
        /\ happened' = IF s.crossed THEN happened \cup {"crossed"} ELSE happened
        /\ UNCHANGED <<files, picked>>

QueueUp == rows # <<>> /\ QueueSelected(-1, MaxRows, SortSeq(rows, LAMBDA a, b : a < b))
QueueDown == rows # <<>> /\ QueueSelected(1, Len(Merged), SortSeq(rows, LAMBDA a, b : a > b))

\* A fault: the row behind the new place is selected.
QueueToSelectsNext(to) ==
    /\ Len(rows) = 1 /\ rows[1] # to
    /\ LET s == Queued([torrents |-> torrents, shown |-> shown, crossed |-> FALSE], rows[1], to)
       IN  /\ torrents' = s.torrents /\ shown' = s.shown /\ rows' = <<to + 1>>
           /\ happened' = IF s.crossed THEN happened \cup {"crossed"} ELSE happened
           /\ UNCHANGED <<files, picked>>

\* queueTopSelected and queueBottomSelected, of one row.
QueueTo(to) ==
    /\ Len(rows) = 1 /\ rows[1] # to
    /\ LET s == Queued([torrents |-> torrents, shown |-> shown, crossed |-> FALSE], rows[1], to)
       IN  /\ torrents' = s.torrents /\ shown' = s.shown /\ rows' = <<to>>
           /\ happened' = IF s.crossed THEN happened \cup {"crossed"} ELSE happened
           /\ UNCHANGED <<files, picked>>

Next ==
    \/ Refresh \/ RefreshFull \/ RemoveSelected
    \/ \E t \in Torrents : AddTorrent(t)
    \/ \E f \in Files : AddFile(f)
    \/ \E x \in Items : RemoveItem(x)
    \/ \E j \in 1..MaxRows : \E i \in 1..j : Select(IF i = j THEN <<i>> ELSE <<i, j>>)
    \/ QueueUp \/ QueueDown
    \/ Merged # <<>> /\ (QueueTo(1) \/ QueueTo(Len(Merged)))

Spec == Init /\ [][Next]_library

------------------------------------------------------------------------------
\* The rows of the views show the items listed, in their order, up to the ones
\* the next tick brings: removals by row, inserts at the end and moves add up,
\* unless a torrent came above direct downloads or a move crossed into them.
RowsShowWhatIsListed ==
    happened \cap {"inserted", "crossed"} = {}
    => IsPrefix(shown, Merged)

SelectedItems == {Merged[r] : r \in ToSet(rows) \cap DOMAIN Merged}

\* The rows selected are the items that were selected, whatever was removed,
\* moved or added since: what is done to the selection is done to them.
SelectionFollows ==
    happened = {} => SelectedItems = picked

\* An item goes only when it was selected or named: a batch removed row by row
\* never reaches a neighbour.
RemovesThePicked ==
    happened = {} /\ RemoveSelected => ToSet(Merged') = ToSet(Merged) \ picked

\* Rows and items stay together.
LibraryHolds == TypeOK /\ RowsShowWhatIsListed /\ SelectionFollows
LibraryIsSound == []LibraryHolds /\ [][RemovesThePicked]_library

\* What the comments say with no condition.
AlwaysShowsWhatIsListed == Len(shown) = Len(Merged) => shown = Merged
SelectionIsByItem == SelectedItems = picked
==============================================================================
