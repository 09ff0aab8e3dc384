------------------------------- MODULE AddDesk --------------------------------
(***************************************************************************)
(* The list of the Add download window.  Torrent files, links to torrent   *)
(* files, direct links and magnets come in by drop, by the paste field,    *)
(* by the clipboard and from the queue of dropped files; each is looked    *)
(* into before it can be added, a torrent file at once, the others when    *)
(* the engine or a server answers.  One item alone shows its files, which  *)
(* can be ticked; several are a list.  The button hands everything to the  *)
(* session.  How the engine holds a magnet meanwhile is in StagedAdds.     *)
(*                                                                         *)
(* Data left out: names, posters, groups of files, the room on disks.      *)
(***************************************************************************)
EXTENDS Naturals, SequencesExt

CONSTANTS
  Lines,      \* what can be entered: [kind, of], kind of "file", "link", "magnet", "direct"
  FilesOf,    \* by torrent, its files
  SizeOf,     \* by torrent or direct download
  TypeOf,     \* likewise: "game", "video" or "other", which decides the folder
  MaxItems,
  AddOps      \* odd cases: "same", "edit", "another", "hasty", "folder", "elsewhere"

VARIABLES
  opened,
  items,      \* [line, known: its key is the torrent's hash, state, typed, pasted]
  previews,   \* the torrents whose preview the window has
  sel,        \* the files ticked, and (history) of which torrent they were made
  text, due,  \* the paste field; whether its timer runs
  dest,       \* destPath, as the type whose folder it is, and destTouched
  asks,       \* probeUrl, fetchTorrentUrl: the requests under way
  staged,     \* the engine's magnets: "none", "fetching" or "ready"
  library,
  queue,      \* torrentQueue, and links fetched again for it: lines of kind "file"
  fetched,    \* addTorrentUrl: the requests under way
  ticks,      \* history: by torrent, what the user ticked, or Unticked
  slips       \* history: what a press of the button got wrong

window == <<opened, items, previews, sel, text, due, dest, asks, staged, ticks>>
vars == <<window, library, queue, fetched, slips>>

Torrents == DOMAIN FilesOf
Unticked == {0}    \* no file has this index
NoSel == [of |-> "none", on |-> {}]
File(x) == [kind |-> "file", of |-> x.of]

Init ==
  /\ opened = FALSE /\ items = <<>> /\ previews = {} /\ sel = NoSel
  /\ text = {} /\ due = FALSE /\ dest = [path |-> "other", touched |-> FALSE]
  /\ asks = {} /\ staged = [t \in Torrents |-> "none"]
  /\ library \in {{}} \cup {{t} : t \in Torrents}
  /\ queue = {} /\ fetched = {}
  /\ ticks = [t \in Torrents |-> Unticked] /\ slips = {}

------------------------------------------------------------------------------
\* A desk is what the window's functions read and write: items, previews, sel,
\* dest, asks, staged, ticks
Desk == [items |-> items, previews |-> previews, sel |-> sel, dest |-> dest,
         asks |-> asks, staged |-> staged, ticks |-> ticks]
EmptyDesk(d) == [d EXCEPT !.items = <<>>, !.previews = {}, !.sel = NoSel,
                          !.dest = [path |-> "other", touched |-> FALSE],
                          !.ticks = [t \in Torrents |-> Unticked]]

\* indexOfKey: a magnet is known by its hash, a link by its text, a file by its
\* path until it is read
HasKey(it, x) == IF x.kind = "magnet" THEN it.known /\ it.line.of = x.of
                 ELSE ~it.known /\ it.line = x
Known(d, t) == {i \in DOMAIN d.items : d.items[i].known /\ d.items[i].line.of = t}

\* pickDest: the biggest item decides
Decides(its, i) ==
  /\ its[i].typed
  /\ \A j \in DOMAIN its : its[j].typed =>
       \/ SizeOf[its[j].line.of] < SizeOf[its[i].line.of]
       \/ SizeOf[its[j].line.of] = SizeOf[its[i].line.of] /\ i <= j
Picked(its) == LET top == {i \in DOMAIN its : Decides(its, i)} IN
  IF top = {} THEN "other" ELSE TypeOf[its[CHOOSE i \in top : TRUE].line.of]
PickDest(d) == IF d.dest.touched THEN d ELSE [d EXCEPT !.dest.path = Picked(d.items)]

\* initSelection: every file of the torrent
InitSelection(d, t) == [d EXCEPT !.sel = [of |-> t, on |-> FilesOf[t]], !.ticks[t] = Unticked]

\* applyPreview
ApplyPreview(d, t) ==
  LET i == CHOOSE k \in Known(d, t) : TRUE
      e == [d EXCEPT !.previews = @ \cup {t}, !.items[i].typed = TRUE,
                     !.items[i].state = IF t \in library THEN "dup" ELSE "ready"]
  IN IF Known(d, t) = {} THEN d
     ELSE PickDest(IF Len(d.items) = 1 THEN InitSelection(e, t) ELSE e)

\* loadTorrent: the same torrent is not listed twice
LoadTorrent(d, i) ==
  LET t == d.items[i].line.of IN
  IF Known(d, t) # {} THEN [d EXCEPT !.items = RemoveAt(@, i)]
  ELSE ApplyPreview([d EXCEPT !.items[i].known = TRUE], t)

\* addInputs, of one line
AddInput(d, x, pasted) ==
  LET at == Len(d.items) + 1
      new(state) == [line |-> x, known |-> x.kind = "magnet", state |-> state,
                     typed |-> FALSE, pasted |-> pasted]
      listed(state) == [d EXCEPT !.items = Append(@, new(state))]
  IN IF \E i \in DOMAIN d.items : HasKey(d.items[i], x) THEN d
     ELSE CASE x.kind = "file" -> LoadTorrent(listed("fetching"), at)
            [] x.kind \in {"link", "direct"} -> [listed("fetching") EXCEPT !.asks = @ \cup {x}]
            [] x.of \in library -> listed("dup")
            [] OTHER -> [listed("fetching") EXCEPT
                           !.staged[x.of] = IF @ = "none" THEN "fetching" ELSE @]

AddInputs(d, seq, pasted) ==
  PickDest(FoldLeft(LAMBDA e, x : AddInput(e, x, pasted), d, seq))

\* drop: the engine forgets a magnet that leaves the list
Gone(its, i) == its[i].line.kind = "magnet" /\ its[i].state # "dup"
Drop(d, out) ==
  [d EXCEPT !.staged = [t \in Torrents |->
                          IF \E i \in out : Gone(d.items, i) /\ d.items[i].line.of = t
                          THEN "none" ELSE d.staged[t]],
            !.items = LET keep(i) == i \notin out
                          left == SetToSortSeq({i \in DOMAIN d.items : keep(i)}, <)
                      IN [k \in DOMAIN left |-> d.items[left[k]]],
            !.ticks = [t \in Torrents |->
                         IF \E i \in out : d.items[i].line.of = t THEN Unticked ELSE d.ticks[t]]]

------------------------------------------------------------------------------
\* Odd cases
Present == text \cup {items[i].line : i \in DOMAIN items}
NoTwin(x) == "same" \in AddOps \/ \A y \in Present \cup queue \cup fetched :
                                   y.of = x.of => y = x /\ y \notin fetched
Alone(d) == Len(d.items) = 1 /\ d.items[1].line.of \in d.previews
Settled(d) == /\ "edit" \notin AddOps /\ Alone(d) => d.sel.of = d.items[1].line.of
              /\ "folder" \notin AddOps /\ ~d.dest.touched => d.dest.path = Picked(d.items)
MayAdd == "another" \in AddOps \/ \A t \in Torrents : ticks[t] = Unticked

Sets(d) == /\ items' = d.items /\ previews' = d.previews /\ sel' = d.sel /\ dest' = d.dest
           /\ asks' = d.asks /\ staged' = d.staged /\ ticks' = d.ticks
Elsewhere == UNCHANGED <<library, queue, fetched, slips>>

------------------------------------------------------------------------------
\* The toolbar's button
Open == ~opened /\ opened' = TRUE /\ Sets(EmptyDesk(Desk)) /\ UNCHANGED <<text, due>> /\ Elsewhere

\* A drop on the open window, and its file dialog
DropOn(x) ==
  /\ opened /\ NoTwin(x) /\ MayAdd /\ Len(items) < MaxItems
  /\ Sets(AddInputs(Desk, <<x>>, FALSE)) /\ UNCHANGED <<opened, text, due>> /\ Elsewhere

\* checkClipboardMagnet, openWithText
ClipboardMagnet(x) ==
  /\ ~opened /\ x.kind = "magnet" /\ x.of \notin library /\ NoTwin(x)
  /\ Sets(EmptyDesk(Desk)) /\ opened' = TRUE /\ text' = {x} /\ due' = TRUE /\ Elsewhere

\* A line is written into the paste field or taken out of it
Write(x) ==
  /\ opened /\ due' = TRUE
  /\ \/ x \notin text /\ NoTwin(x) /\ MayAdd /\ Len(items) < MaxItems /\ text' = text \cup {x}
     \/ x \in text /\ text' = text \ {x}
  /\ UNCHANGED <<opened, items, previews, sel, dest, asks, staged, ticks>> /\ Elsewhere

\* syncPaste, 250 ms after the last key
SyncPaste ==
  /\ due /\ due' = FALSE /\ UNCHANGED <<opened, text>> /\ Elsewhere
  /\ LET out == {i \in DOMAIN items : items[i].pasted /\ items[i].line \notin text}
         left == Drop(Desk, out)
         fresh == text \ {items[i].line : i \in DOMAIN items \ out}
     IN \E seq \in SetToSeqs(fresh) :
          LET d == AddInputs(left, seq, TRUE) IN Settled(d) /\ Sets(d)

\* removeAt: with its line, if it has one
RemoveItem(i) ==
  /\ opened
  /\ LET x == items[i].line
         left == Drop(Desk, {i})
         d == IF Alone(left) THEN InitSelection(left, left.items[1].line.of) ELSE left
     IN /\ Settled(d) /\ Sets(d)
        /\ text' = IF items[i].pasted THEN text \ {x} ELSE text
        /\ "same" \in AddOps \/ items[i].pasted \/ x \notin text
        /\ "another" \notin AddOps /\ Alone(left) => ticks[left.items[1].line.of] = Unticked
  /\ UNCHANGED <<opened, due>> /\ Elsewhere

\* stagedPreview: the engine has the magnet's metadata
MetadataComes(t) ==
  /\ staged[t] # "none"
  /\ \/ staged[t] = "fetching"
     \/ \E i \in Known(Desk, t) : items[i].state = "fetching"
  /\ Sets(ApplyPreview([Desk EXCEPT !.staged[t] = "ready"], t))
  /\ UNCHANGED <<opened, text, due>> /\ Elsewhere

\* urlProbed, torrentUrlFetched
AnswerComes(x, good) ==
  /\ x \in asks
  /\ LET d == [Desk EXCEPT !.asks = @ \ {x}]
         at == {i \in DOMAIN items : HasKey(items[i], x)}
         i == CHOOSE k \in at : TRUE
         e == CASE at = {} -> d
                [] x.kind = "direct" -> PickDest([d EXCEPT !.items[i].state = "ready", !.items[i].typed = TRUE])
                [] ~good -> [d EXCEPT !.items[i].state = "failed"]
                [] OTHER -> LoadTorrent(d, i)
     IN Sets(e)
  /\ UNCHANGED <<opened, text, due>> /\ Elsewhere

Single(d) == /\ Len(d.items) = 1 /\ d.items[1].known /\ d.items[1].state = "ready"
             /\ d.items[1].line.of \in d.previews

\* setFiles, by the groups, the tree and the chip of a language
SetFiles(fs, on) ==
  /\ opened /\ Single(Desk) /\ ("another" \in AddOps \/ ~due) /\ fs \subseteq FilesOf[items[1].line.of]
  /\ LET new == IF on THEN sel.on \cup fs ELSE sel.on \ fs IN
     /\ sel' = [sel EXCEPT !.on = new]
     /\ ticks' = [ticks EXCEPT ![items[1].line.of] = new]
  /\ UNCHANGED <<opened, items, previews, text, due, dest, asks, staged>> /\ Elsewhere

ChooseFolder(p) ==
  /\ opened /\ dest' = [path |-> p, touched |-> TRUE]
  /\ UNCHANGED <<opened, items, previews, sel, text, due, asks, staged, ticks>> /\ Elsewhere

------------------------------------------------------------------------------
Closes(d) == /\ opened' = FALSE /\ Sets(EmptyDesk(d))
             /\ text' = {} /\ due' = (due \/ text # {})

\* reject: what waits in the window goes
Reject == opened /\ Closes(Drop(Desk, DOMAIN items)) /\ Elsewhere

\* priorities: none when as many files are ticked as the torrent has
Priorities(t) == IF Cardinality(sel.on) = Cardinality(FilesOf[t]) THEN FilesOf[t]
                 ELSE sel.on \cap FilesOf[t]

ToAdd == {i \in DOMAIN items : items[i].state \notin {"dup", "failed"}}
Added == {items[i].line.of : i \in {j \in ToAdd :
            \/ items[j].line.kind = "magnet" /\ staged[items[j].line.of] # "none"
            \/ items[j].line.kind \in {"file", "link"} /\ items[j].known}}

\* commit
Commit ==
  /\ opened /\ ToAdd # {} /\ (Single(Desk) => sel.on # {})
  /\ "hasty" \in AddOps \/ ~due
  /\ library' = library \cup Added
  /\ fetched' = fetched \cup {items[i].line : i \in {j \in ToAdd : items[j].line.kind = "link" /\ ~items[j].known}}
  /\ Closes([Desk EXCEPT !.staged = [t \in Torrents |-> IF t \in Added THEN "none" ELSE staged[t]]])
  /\ slips' = slips
       \cup {"files" : t \in {u \in Added \ library : ticks[u] # Unticked /\
               ticks[u] # IF Single(Desk) THEN Priorities(u) ELSE FilesOf[u]}}
       \cup {"lost" : x \in {y \in text : \A i \in DOMAIN items : items[i].line.of # y.of}}
       \cup {"engine" : i \in {j \in ToAdd : items[j].line.kind = "magnet"
                                             /\ staged[items[j].line.of] = "none"}}
  /\ UNCHANGED queue

------------------------------------------------------------------------------
\* Torrent files dropped on the application
DropOutside(x) ==
  /\ ~opened /\ x.kind = "file" /\ NoTwin(x) /\ queue' = queue \cup {x}
  /\ UNCHANGED <<window, library, fetched, slips>>

\* addTorrentUrl's answer: into the queue
LinkComes(x, good) ==
  /\ x \in fetched /\ fetched' = fetched \ {x}
  /\ queue' = IF good THEN queue \cup {File(x)} ELSE queue
  /\ UNCHANGED <<window, library, slips>>

\* processTorrentQueue: with a default folder, what fits there skips the window
ProcessQueue(straight) ==
  /\ queue # {} /\ queue' = {} /\ straight \subseteq queue
  /\ opened => straight = {}
  /\ \A x \in straight : x.of \notin library
  /\ library' = library \cup {x.of : x \in straight}
  /\ LET rest == queue \ straight
         start == IF opened THEN Desk ELSE EmptyDesk(Desk)
     IN IF rest = {} THEN UNCHANGED window
        ELSE /\ MayAdd /\ Len(items) + Cardinality(rest) <= MaxItems
             /\ opened' = TRUE /\ UNCHANGED <<text, due>>
             /\ \E seq \in SetToSeqs(rest) :
                  LET d == AddInputs(start, seq, FALSE) IN Settled(d) /\ Sets(d)
  /\ UNCHANGED <<fetched, slips>>

\* Feeds, the web page and other windows add torrents, too
LibraryChanges(t) ==
  /\ "elsewhere" \in AddOps \/ staged[t] = "none"
  /\ t \notin library /\ library' = library \cup {t}
  /\ UNCHANGED <<window, queue, fetched, slips>>

Next ==
  \/ Open \/ SyncPaste \/ Reject \/ Commit
  \/ \E x \in Lines : DropOn(x) \/ ClipboardMagnet(x) \/ Write(x) \/ DropOutside(x)
  \/ \E i \in DOMAIN items : RemoveItem(i)
  \/ \E t \in Torrents : MetadataComes(t) \/ LibraryChanges(t)
  \/ \E x \in asks \cup fetched, good \in BOOLEAN : AnswerComes(x, good) \/ LinkComes(x, good)
  \/ \E fs \in SUBSET UNION {FilesOf[t] : t \in Torrents}, on \in BOOLEAN : SetFiles(fs, on)
  \/ ChooseFolder("other")
  \/ \E straight \in SUBSET queue : ProcessQueue(straight)

Spec == Init /\ [][Next]_vars

------------------------------------------------------------------------------
TypeOK ==
  /\ opened \in BOOLEAN /\ due \in BOOLEAN /\ text \subseteq Lines /\ library \subseteq Torrents
  /\ \A i \in DOMAIN items : items[i].state \in {"fetching", "ready", "dup", "failed"}
  /\ Len(items) <= 2 * MaxItems /\ previews \subseteq Torrents /\ asks \subseteq Lines
  /\ staged \in [Torrents -> {"none", "fetching", "ready"}]

\* The files ticked are those of the torrent that is shown
SelectionIsOwn == Single(Desk) => sel.of = items[1].line.of /\ sel.on \subseteq FilesOf[sel.of]

\* A torrent is in the list once
ListedOnce == \A i, j \in DOMAIN items :
  items[i].known /\ items[j].known /\ items[i].line.of = items[j].line.of => i = j

\* The engine holds a magnet for nobody but an item that can still be added
NothingStaysStaged == \A t \in Torrents : staged[t] # "none" =>
  opened /\ \E i \in DOMAIN items : Gone(items, i) /\ items[i].line.of = t

\* An item that waits has something under way
NobodyWaitsForNothing == \A i \in DOMAIN items : items[i].state = "fetching" =>
  IF items[i].line.kind = "magnet" THEN staged[items[i].line.of] # "none"
  ELSE items[i].line \in asks

\* The field and the list say the same once the timer has fired
TextIsListed == opened /\ ~due =>
  /\ \A x \in text : \E i \in DOMAIN items : items[i].line.of = x.of
  /\ \A i \in DOMAIN items : items[i].pasted => items[i].line \in text

\* Unless the user chose a folder it is that of the biggest item
FolderIsOfTheBiggest == opened /\ ~dest.touched => dest.path = Picked(items)

\* The same, of what will be added
FolderIsOfTheAdded == opened /\ ~dest.touched /\ ToAdd # {} =>
  dest.path = Picked(SelectSeq(items, LAMBDA it : it.state # "dup"))

\* The button adds everything that was entered, with the files that were ticked
AddedAsEntered == slips = {}

AddingIsSound == /\ SelectionIsOwn /\ ListedOnce /\ NothingStaysStaged /\ NobodyWaitsForNothing
                 /\ TextIsListed /\ FolderIsOfTheBiggest /\ AddedAsEntered
=============================================================================
