------------------------------ MODULE Console ------------------------------
(***************************************************************************)
(* The console: the main loop of gocui, which runs the user's commands and *)
(* the calls that were handed to gui.Update, one at a time and the latter  *)
(* in any order, and one goroutine for each file that was selected, which  *)
(* adds the records of the file to the list in batches.                    *)
(*                                                                         *)
(* Only the main loop touches the list of files, so its drawing is left    *)
(* out, as are dialogs, mouse and full screen.                             *)
(***************************************************************************)
EXTENDS ListWidget, RecordPanel, FiniteSets, Bags

CONSTANTS
  Contents,          \* per file, its records in order: [text, type]
  recordBatchSize,
  Filters, Types,    \* what the user searches the records for, and the types to show
  FileFilters,       \* what the user searches the files for: sets of files
  MaxLoads, MaxCommands  \* bounds: files selected, and commands of the user

Kinds == {"plain", "invalid", "bad"}  \* bad: the reader returns an error

Files   == DOMAIN Contents
AnyText == UNION {{Contents[f][i].text : i \in DOMAIN Contents[f]} : f \in Files}
AnyType == Kinds

\* A record in the list: the number of its load, and its own.
Item == (Nat \ {0}) \X (Nat \ {0})

ASSUME ConsoleAssumption ==
  /\ recordBatchSize \in Nat \ {0}
  /\ IsFiniteSet(Files) /\ None \notin Files
  /\ Item \cap {None, Blank, NoView} = {} /\ Blank # NoView
  /\ \A f \in Files : Contents[f] \in Seq([text : AnyText, type : Kinds])
  /\ Filters \subseteq SUBSET AnyText /\ Types \subseteq SUBSET Kinds
  /\ FileFilters \subseteq SUBSET Files
  /\ MaxLoads \in Nat /\ MaxCommands \in Nat

VARIABLES
  files,     \* the list of files
  records,   \* the list of records; an item is <<load, number>>
  file,      \* a.file
  loads,     \* per selected file, in order, its goroutine
  current,   \* a.loadCancel, as the load that it cancels; 0 is nil
  calls,     \* the bag of calls that gui.Update will have run
  queued,    \* flushQueued of the list of records
  gui,       \* where the main loop is
  drawn,     \* what the view of the records shows
  screen,    \* the record panel and the focus
  laid,      \* nothing has happened since the last layout
  commands,  \* the number of commands the user has given
  raced      \* history: two reports of a selection were under way together, or
             \* flush wrote back a selection that was out of date

listVars == <<records, queued>>
loadVars == <<file, loads, current>>
viewVars == <<drawn, screen, laid>>
vars == <<files, listVars, loadVars, calls, gui, viewVars, commands, raced>>

Idle == [at |-> "idle"]

Init ==
  /\ files = NewList(Files, {"file"})
  /\ records = NewList(AnyText, AnyType)
  /\ file = None /\ loads = <<>> /\ current = 0
  /\ calls = SetToBag({[run |-> "flush"]}) /\ queued = TRUE
  /\ gui = [at |-> "populate"]
  /\ drawn = Drawing(records) /\ screen = NewScreen /\ laid = TRUE
  /\ commands = 0 /\ raced = FALSE

FileOf(item) == loads[item[1]].file
RecordOf(item) == Contents[FileOf(item)][item[2]]
EntriesOf(batch) ==
  [i \in DOMAIN batch |-> EntryOf(batch[i], RecordOf(batch[i]).text, RecordOf(batch[i]).type)]

-----------------------------------------------------------------------------
(* gui.Update *)

\* Reports are calls that draw the panel; a report is <<>>, <<item>> or <<None>>.
PanelCalls(report) == SetToBag({[run |-> "panel", item |-> report[i]] : i \in DOMAIN report})

\* Other reports are pending, or a goroutine has yet to make its own.
Crossing(others) ==
  \/ \E c \in BagToSet(calls) : c.run = "panel"
  \/ \E i \in others : loads[i].at = "report"

FlushCalls == IF queued THEN EmptyBag ELSE SetToBag({[run |-> "flush"]})

\* What a handler does once the list has let go of its lock.
Dispatch(report) ==
  /\ calls' = calls (+) PanelCalls(report) (+) FlushCalls
  /\ queued' = TRUE
  /\ raced' = (raced \/ (report # <<>> /\ Crossing(DOMAIN loads)))

-----------------------------------------------------------------------------
(* The goroutines that load the records of a file *)

Goto(i, at) == loads' = [loads EXCEPT ![i].at = at]

MakesItem_Always(load, bad) == TRUE

\* An error makes an item whether or not the load is cancelled; a record does not.
MakesItem(load, bad) == bad \/ ~load.cancelled

\* The next record, or the end of the file.
ReadRecord(i) ==
  LET l == loads[i]
      end == l.pos = Len(Contents[l.file])
      bad == ~end /\ Contents[l.file][l.pos + 1].type = "bad"
      batch == Append(l.batch, <<i, l.pos + 1>>)
  IN /\ l.at = "read"
     /\ \/ /\ end
           /\ Goto(i, IF l.batch = <<>> THEN "done" ELSE "add")
        \/ /\ ~end /\ ~MakesItem(l, bad)
           /\ loads' = [loads EXCEPT ![i] = [l EXCEPT !.at = "done", !.batch = <<>>]]
        \/ /\ ~end /\ MakesItem(l, bad)
           /\ loads' = [loads EXCEPT ![i] =
                [l EXCEPT !.pos = @ + 1, !.batch = batch,
                          !.at = IF Len(batch) >= recordBatchSize THEN "add" ELSE "read"]]
     /\ UNCHANGED <<files, listVars, file, current, calls, gui, viewVars, commands, raced>>

AfterAdding_FlushIfReported(report) == IF report = <<>> THEN "read" ELSE "report"
AfterAdding(report) == IF report = <<>> THEN "flush" ELSE "report"

\* AddElements, under the lock.
AddElements(i) ==
  /\ loads[i].at = "add"
  /\ records' = Added(records, EntriesOf(loads[i].batch))
  /\ LET report == AddReport(records, records')
     IN loads' = [loads EXCEPT ![i] =
          [@ EXCEPT !.batch = <<>>, !.report = report, !.at = AfterAdding(report)]]
  /\ UNCHANGED <<files, queued, file, current, calls, gui, viewVars, commands, raced>>

ReportAdded(i) ==
  /\ loads[i].at = "report"
  /\ calls' = calls (+) PanelCalls(loads[i].report)
  /\ raced' = (raced \/ Crossing(DOMAIN loads \ {i}))
  /\ loads' = [loads EXCEPT ![i] = [@ EXCEPT !.at = "flush", !.report = <<>>]]
  /\ UNCHANGED <<files, listVars, file, current, gui, viewVars, commands>>

RequestFlush(i) ==
  /\ loads[i].at = "flush"
  /\ calls' = calls (+) FlushCalls
  /\ queued' = TRUE
  /\ Goto(i, "read")
  /\ UNCHANGED <<files, records, file, current, gui, viewVars, commands, raced>>

Load(i) == ReadRecord(i) \/ AddElements(i) \/ ReportAdded(i) \/ RequestFlush(i)

-----------------------------------------------------------------------------
(* The selection of a file: the main loop runs onFileSelected to its end *)

Selecting(report) ==
  gui' = IF report = <<>> THEN Idle ELSE [at |-> "cancel", item |-> report[1]]

CancelLoad ==
  /\ gui.at = "cancel"
  /\ loads' = [i \in DOMAIN loads |->
                 IF i = current THEN [loads[i] EXCEPT !.cancelled = TRUE] ELSE loads[i]]
  /\ current' = 0
  /\ gui' = [gui EXCEPT !.at = "clear"]
  /\ UNCHANGED <<files, listVars, file, calls, viewVars, commands, raced>>

ClearRecords ==
  /\ gui.at = "clear"
  /\ records' = Emptied(records)
  /\ Dispatch(<<None>>)
  /\ gui' = [gui EXCEPT !.at = "start"]
  /\ UNCHANGED <<files, loadVars, viewVars, commands>>

\* Whether the reader can be opened is decided at once: nothing else shows before it is.
StartLoad ==
  /\ gui.at = "start"
  /\ IF gui.item = None THEN UNCHANGED loadVars
     ELSE /\ file' = gui.item
          /\ \E opened \in BOOLEAN :
               loads' = Append(loads, [file |-> gui.item, at |-> IF opened THEN "read" ELSE "failed",
                                       pos |-> 0, batch |-> <<>>, report |-> <<>>,
                                       cancelled |-> FALSE])
          /\ current' = Len(loads')
  /\ gui' = Idle
  /\ UNCHANGED <<files, listVars, calls, viewVars, commands, raced>>

PopulateFiles ==
  /\ gui.at = "populate"
  /\ LET names == SetToSeq(Files)
     IN files' = WithItems(files, [i \in DOMAIN names |-> EntryOf(names[i], names[i], "file")])
  /\ Selecting(<<SelectedItem(files')>>)
  /\ UNCHANGED <<listVars, loadVars, calls, viewVars, commands, raced>>

-----------------------------------------------------------------------------
(* The commands of the user *)

Command ==
  /\ gui.at = "idle" /\ commands < MaxCommands
  /\ commands' = commands + 1
  /\ laid' = FALSE

MoveFile ==
  /\ Command /\ Len(loads) < MaxLoads
  /\ \E k \in 1..Len(files.items) :
       /\ files' = Moved(files, k)
       /\ Selecting(MoveReport(files, files'))
  /\ UNCHANGED <<listVars, loadVars, calls, drawn, screen, raced>>

SearchFiles ==
  /\ Command /\ Len(loads) < MaxLoads
  /\ \E found \in FileFilters :
       /\ files' = Rebuilt(files, found, files.types)
       /\ Selecting(RebuildReport(files, files'))
  /\ UNCHANGED <<listVars, loadVars, calls, drawn, screen, raced>>

\* A row that is selected already takes neither a report nor a flush.
MoveRecord ==
  /\ Command
  /\ \E k \in 1..Len(records.items) :
       /\ records' = Moved(records, k)
       /\ IF records.visible # <<>> /\ records' = records
          THEN UNCHANGED <<calls, queued, raced>>
          ELSE Dispatch(MoveReport(records, records'))
  /\ UNCHANGED <<files, loadVars, gui, drawn, screen>>

Rebuild(filter, types) ==
  /\ records' = Rebuilt(records, filter, types)
  /\ Dispatch(RebuildReport(records, records'))
  /\ UNCHANGED <<files, loadVars, gui, drawn, screen>>

SearchRecords    == Command /\ \E found \in Filters : Rebuild(found, records.types)
ToggleRecordType == Command /\ \E types \in Types : Rebuild(records.filter, types)

-----------------------------------------------------------------------------
(* The record panel *)

\* What the panel shows of an item when it is looked for in file f: the record, with the
\* errors of its validation, or why it cannot be read.  In a file it does not belong to
\* its offset may be anything.
Details(panel, item, f) ==
  LET own == RecordOf(item).type
      record == PopulateContent(Clear(panel), item)
      failed == RenderErrors(Clear(panel), item)
  IN IF own = "bad" THEN {RenderReadError(Clear(panel), item)}
     ELSE IF FileOf(item) # f THEN {record, RenderErrors(record, item), failed}
     ELSE IF own = "invalid" THEN {RenderErrors(record, item)} ELSE {record}

ToggleLineEndings ==
  /\ Command
  /\ LET item == SelectedItem(records)
     IN IF item = None THEN UNCHANGED screen
        ELSE \E p \in Details(screen.panel, item, file) : screen' = [screen EXCEPT !.panel = p]
  /\ UNCHANGED <<files, listVars, loadVars, calls, gui, drawn, raced>>

ShowRecord ==
  \E c \in BagToSet(calls) :
    /\ gui.at = "idle" /\ c.run = "panel"
    /\ calls' = calls (-) SetToBag({c})
    /\ \E p \in IF c.item = None THEN {Clear(screen.panel)}
                ELSE Details(screen.panel, c.item, file) :
         screen' = [screen EXCEPT !.panel = p]
    /\ laid' = FALSE
    /\ UNCHANGED <<files, listVars, loadVars, gui, drawn, commands, raced>>

ChangeView ==
  /\ Command
  /\ screen' \in {NextView(screen), PrevView(screen)}
  /\ UNCHANGED <<files, listVars, loadVars, calls, gui, drawn, raced>>

Layout ==
  /\ gui.at = "idle" /\ ~laid
  /\ screen' = ScreenLayout(screen)
  /\ laid' = TRUE
  /\ UNCHANGED <<files, listVars, loadVars, calls, gui, drawn, commands, raced>>

-----------------------------------------------------------------------------
(* flush: the list is copied under its lock and drawn without it, and the *)
(* selection that was drawn is written back                               *)

TakeFlush ==
  /\ gui.at = "idle" /\ BagIn([run |-> "flush"], calls)
  /\ calls' = calls (-) SetToBag({[run |-> "flush"]})
  /\ queued' = FALSE
  /\ gui' = [at |-> "copy"]
  /\ UNCHANGED <<files, records, loadVars, viewVars, commands, raced>>

CopyList ==
  /\ gui.at = "copy"
  /\ gui' = [at |-> "draw", drawing |-> Drawing(records)]
  /\ UNCHANGED <<files, listVars, loadVars, calls, viewVars, commands, raced>>

DrawList ==
  /\ gui.at = "draw"
  /\ drawn' = gui.drawing
  /\ records' = [records EXCEPT !.selected = gui.drawing.mark]
  /\ raced' = (raced \/ (records.selected # 0 /\ gui.drawing.mark = 0))
  /\ gui' = Idle /\ laid' = FALSE
  /\ UNCHANGED <<files, queued, loadVars, calls, screen, commands>>

MainLoop ==
  \/ PopulateFiles \/ CancelLoad \/ ClearRecords \/ StartLoad
  \/ MoveFile \/ SearchFiles \/ MoveRecord \/ SearchRecords \/ ToggleRecordType
  \/ ToggleLineEndings \/ ChangeView \/ ShowRecord \/ Layout
  \/ TakeFlush \/ CopyList \/ DrawList

Next == MainLoop \/ \E i \in DOMAIN loads : Load(i)

Spec == Init /\ [][Next]_vars

-----------------------------------------------------------------------------
(* Properties *)

Ended(i) == loads[i].at \in {"done", "failed"}

\* Nothing is under way.
Quiet ==
  /\ gui.at = "idle" /\ calls = EmptyBag /\ laid
  /\ \A i \in DOMAIN loads : Ended(i)

\* No change of the list of records stays undrawn: once nothing is under way, what is on
\* the screen is every record that passes the filter and the types, in order, with the
\* selected one marked (widget_list.go: requestFlush and flush, which many goroutines
\* may ask for and one call serves).
Shown == {k \in DOMAIN records.items : Matches(records, records.items[k])}
DrawnIsList ==
  Quiet => /\ \E place \in [DOMAIN drawn.rows -> Shown] :
                /\ \A r, s \in DOMAIN place : r < s => place[r] < place[s]
                /\ \A k \in Shown : \E r \in DOMAIN place : place[r] = k
                /\ \A r \in DOMAIN place : drawn.rows[r] = records.items[place[r]].item
           /\ drawn.mark = records.selected

\* The list holds the records of the file selected last, each once and in order, up to
\* where its load has come, and of a load that was cancelled no more than one batch unless
\* its file has errors (app.go: onFileSelected cancels before it clears).
ListedIn(s, i) == {k \in DOMAIN s : s[k].item[1] = i}
Listed(i) == ListedIn(records.items, i)
Number(k) == records.items[k].item[2]
HasErrors(f) == \E r \in DOMAIN Contents[f] : Contents[f][r].type = "bad"
RecordsComplete ==
  \A i \in DOMAIN loads :
    /\ \A j, k \in Listed(i) : j < k => Number(j) < Number(k)
    /\ IF i = current
       THEN {Number(k) : k \in Listed(i)} = 1..(loads[i].pos - Len(loads[i].batch))
       ELSE \/ gui.at \in {"clear", "start"}
            \/ HasErrors(loads[i].file)
            \/ Cardinality(Listed(i)) <= recordBatchSize

\* Panel p shows an item with the errors it has, if it is of the file selected last, or
\* nothing.
Shows(p, item) ==
  IF item = None THEN p.main = Blank /\ p.errors = NoView
  ELSE item[1] = current =>
         /\ p.main = IF RecordOf(item).type = "bad" THEN Blank ELSE item
         /\ p.errors = IF RecordOf(item).type = "plain" THEN NoView ELSE item

\* Once nothing is under way the panel shows the selected record with the errors it has,
\* or nothing when none is selected, if no two reports of a selection were under way
\* together and the record is of the file selected last (app.go: onRecordSelected).
PanelShowsSelection == Quiet /\ ~raced => Shows(screen.panel, SelectedItem(records))

\* The focused view is one there is, whatever views the errors of a record brought and
\* took away (app.go: Layout, onNextView, onPrevView).
FocusExists == screen.focus \in DOMAIN screen.views

-----------------------------------------------------------------------------
(* Invariants *)

ListTypes ==
  /\ files \in ListType(Files, Files, {"file"})
  /\ records \in ListType(Item, AnyText, Kinds)
States == {"read", "add", "report", "flush", "done", "failed"}
LoadType == [file : Files, at : States, pos : Nat, batch : Seq(Item),
             report : Seq(Item \cup {None}), cancelled : BOOLEAN]
LoadTypes ==
  /\ loads \in Seq(LoadType)
  /\ current \in 0..Len(loads)
FlushCall == [run |-> "flush"]
CallTypes ==
  /\ IsABag(calls)
  /\ DOMAIN calls \subseteq {FlushCall} \cup [run : {"panel"}, item : Item \cup {None}]
  /\ queued \in BOOLEAN
DrawingType == [rows : Seq(Item), mark : Nat]
GuiTypes ==
  /\ gui \in [at : {"idle", "populate", "copy"}]
               \cup [at : {"cancel", "clear", "start"}, item : Files \cup {None}]
               \cup [at : {"draw"}, drawing : DrawingType]
  /\ drawn \in DrawingType
TypeOK == ListTypes /\ LoadTypes /\ CallTypes /\ GuiTypes

ListsInv ==
  /\ ListInv(files) /\ ListInv(records)
  /\ gui.at = "draw" => gui.drawing.mark <= Len(records.visible)

\* A flush that was asked for is among the calls, once; and unless one is asked for, or
\* will be, what is drawn, or about to be, is the list.
QueueInv ==
  /\ queued <=> FlushCall \in DOMAIN calls
  /\ queued => calls[FlushCall] = 1
FlushComes == \/ queued \/ gui.at = "copy"
              \/ \E i \in DOMAIN loads : loads[i].at \in {"report", "flush"}
UpToDate ==
  IF gui.at = "draw" THEN gui.drawing = Drawing(records)
  ELSE drawn.rows = Drawing(records).rows /\ drawn.mark = records.selected
DrawInv == FlushComes \/ UpToDate

\* A batch is the last records that were read; what was read before is in the list, or was;
\* and a load that was cancelled adds the batch it has and no other.
BatchInv(i, l) ==
  LET n == Len(l.batch)
  IN /\ n <= l.pos /\ l.pos <= Len(Contents[l.file]) /\ n <= recordBatchSize
     /\ l.at = "read" => n < recordBatchSize
     /\ l.at \notin {"read", "add"} => n = 0
     /\ \A k \in 1..n : l.batch[k] = <<i, l.pos - n + k>>
InOrder(s, i, l) ==
  /\ \A j, k \in ListedIn(s, i) : j < k => s[j].item[2] < s[k].item[2]
  /\ \A k \in ListedIn(s, i) : s[k].item[2] <= l.pos - Len(l.batch)
Whole(s, i, l) == {s[k].item[2] : k \in ListedIn(s, i)} = 1..(l.pos - Len(l.batch))
Kept(s, i, l) == \/ ListedIn(s, i) = {}
                 \/ /\ Cardinality(ListedIn(s, i)) <= recordBatchSize
                    /\ l.batch = <<>> /\ l.at # "add"
InList(i, l, s, cur, at) ==
  /\ InOrder(s, i, l)
  /\ i = cur => Whole(s, i, l)
  /\ i # cur /\ at # "clear" /\ ~HasErrors(l.file) => Kept(s, i, l)
LoadInv ==
  /\ gui.at \in {"clear", "start"} => current = 0
  /\ \A k \in DOMAIN records.items : records.items[k].item[1] \in DOMAIN loads
  /\ \A i \in DOMAIN loads :
       /\ BatchInv(i, loads[i])
       /\ loads[i].cancelled <=> i # current
       /\ InList(i, loads[i], records.items, current, gui.at)

ConsoleInv == TypeOK /\ ListsInv /\ QueueInv /\ DrawInv /\ LoadInv

\* Beyond ConsoleInv, unless two reports of a selection were under way together: of the
\* goroutine that has yet to report, the call that waits and the panel, the first there is
\* has the selected item.
Panels == [main : Item \cup {Blank}, hasErrors : BOOLEAN, errorsOnly : BOOLEAN,
           pending : Item \cup {Blank}, errors : Item \cup {Blank, NoView}]
Reporting == {i \in DOMAIN loads : loads[i].at = "report"}
Reports == {c \in DOMAIN calls : c.run = "panel"}
SelectionInv ==
  /\ records.visible # <<>> => records.selected # 0
  /\ gui.at = "draw" => gui.drawing.mark \in {0, records.selected}
ReportsInv ==
  LET item == SelectedItem(records)
  IN /\ \A i, j \in Reporting : i = j
     /\ \A i \in Reporting : loads[i].report = <<item>> /\ item # None
     /\ \A c, d \in Reports : c = d /\ calls[c] = 1
     /\ Reporting = {} => \A c \in Reports : c.item = item
     /\ Reporting = {} /\ Reports = {} => Shows(PanelLayout(screen.panel), item)
PanelInv ==
  /\ screen.panel \in Panels
  /\ current # 0 => file = loads[current].file
  /\ laid => PanelLayout(screen.panel) = screen.panel
  /\ ~raced => SelectionInv /\ ReportsInv
=============================================================================
