------------------------------ MODULE Library ------------------------------
(***************************************************************************)
(* What the page does with the list of torrents: App's state and toolbar   *)
(* (App.tsx), the sidebar, the table or its cards with their menus and     *)
(* badges, the detail panel, the status bar, and the hook that tells a     *)
(* desktop from a phone (use-media-query.ts).  How lists get here is in    *)
(* Events, the gate and the other views are in WebUI.                      *)
(*                                                                         *)
(* A torrent is a record, one of Infos.  Progress is in thousandths; a     *)
(* file is TRUE when it is playable.  What React would render is a         *)
(* function of the state; what it keeps for a component while that stays   *)
(* mounted (an open menu, the tab) is state, see Render.                   *)
(***************************************************************************)
EXTENDS Integers, FiniteSets, SequencesExt, FiniteSetsExt

CONSTANTS Hashes,     \* infohashes
          Infos,      \* the torrents, with all they can look like
          TabNames    \* tabs of the detail panel, "general" one of them

Info == [hash : Hashes,
         state : {"playing", "ready", "seeding", "downloading", "fetching",
                  "searching", "idle"},
         addedAt : Nat, kind : {"stream", "seeding"}, private : BOOLEAN,
         progress : 0 .. 1000, targetRatio : Nat, targetMin : Nat,
         elapsedMin : Nat, clients : Nat, down : Nat, files : Seq(BOOLEAN)]

ASSUME LibraryAssumption == Infos \subseteq Info /\ "general" \in TabNames

VARIABLES torrents,   \* App: the list, as ingest sorted it
          view, filter, selected, sidebarOpen,        \* App
          link,       \* App: the add box is not blank
          adding,     \* App: an add is under way
          popup,      \* the menu or the explanation open on a row
          tab,        \* DetailPanel
          wide,       \* the window matches (min-width: 1024px)
          desktop,    \* useIsDesktop
          hook,       \* its effect: "rendered" or "listening"
          change,     \* a change event of the media query is due
          sent,       \* what the last step asked of the server or browser
          aim         \* history: the row the user opened the popup on

uivars == <<view, filter, selected, sidebarOpen>>
boxvars == <<link, adding>>
mediavars == <<wide, desktop, hook, change>>
vars == <<torrents, uivars, boxvars, mediavars, popup, tab, sent, aim>>

Filters == {"all", "streaming", "sharing", "downloading", "completed"}
None == "none"
NoPopup == [what |-> None, hash |-> None]
NoRequest == [op |-> None, hash |-> None, file |-> 0]

-----------------------------------------------------------------------------
(* What is on the screen.                                                  *)

\* App.ingest: what is searched for first, then what is being resolved, then
\* the rest; the newest first; otherwise in the order of the list.
rank(x) == CASE x.state = "searching" -> 0
             [] x.state = "fetching" -> 1
             [] OTHER -> 2

Before(x, y) == \/ rank(x) < rank(y)
                \/ rank(x) = rank(y) /\ x.addedAt > y.addedAt

Insert(s, x) ==
  InsertAt(s, 1 + Quantify(DOMAIN s, LAMBDA i : ~Before(x, s[i])), x)

Sorted(list) == FoldLeft(Insert, << >>, list)

\* Mutant of Matches: "completed" is more than 99.9%.
MatchesStrict(f, x) ==
  CASE f = "streaming" -> x.kind = "stream"
    [] f = "sharing" -> x.kind = "seeding"
    [] f = "downloading" -> x.progress < 999
    [] f = "completed" -> x.progress > 999
    [] OTHER -> TRUE

\* App.filtered.
Matches(f, x) ==
  CASE f = "streaming" -> x.kind = "stream"
    [] f = "sharing" -> x.kind = "seeding"
    [] f = "downloading" -> x.progress < 999
    [] f = "completed" -> x.progress >= 999
    [] OTHER -> TRUE

filtered(f) ==
  FoldLeft(LAMBDA list, x : IF Matches(f, x) THEN Append(list, x) ELSE list,
           << >>, torrents)

\* App.counts, beside the filters of the sidebar.
counts ==
  LET Number(P(_)) == Quantify(DOMAIN torrents, LAMBDA i : P(torrents[i]))
  IN  [all |-> Len(torrents),
       streaming |-> Number(LAMBDA x : x.kind = "stream"),
       sharing |-> Number(LAMBDA x : x.kind = "seeding"),
       downloading |-> Number(LAMBDA x : x.progress < 999),
       completed |-> Number(LAMBDA x : x.progress >= 999)]

\* App.sel: the selected torrent, while it is in the list.
Sel == {torrents[i] : i \in {k \in DOMAIN torrents : torrents[k].hash = selected}}

tone == [playing |-> "good", ready |-> "good", seeding |-> "good",
         downloading |-> "busy", fetching |-> "busy", searching |-> "warn",
         idle |-> "idle"]

\* util.fmtSpeed: whole KB/s, or tenths of MB/s; a tie is rounded up.
fmtSpeed(kbps) ==
  IF kbps \div 8 >= 1000 THEN [unit |-> "MB/s", n |-> (kbps + 400) \div 800]
                         ELSE [unit |-> "KB/s", n |-> (kbps + 4) \div 8]

\* seedLeft: how long the torrent will be shared.
seedLeft(x) ==
  IF x.kind # "seeding" THEN "-"
  ELSE IF x.targetMin = 0 THEN (IF x.targetRatio > 0 THEN "byRatio" ELSE "-")
  ELSE IF x.progress < 999 THEN "pending"
  ELSE IF x.elapsedMin >= x.targetMin THEN "done" ELSE "minutes"

\* ModeBadge, and PrivateBadge.
badges(x) == {"mode"} \cup (IF x.private THEN {"private"} ELSE {})

\* What a row of the table and a card say; the row also who is watching.
Row(x) == [hash |-> x.hash, tone |-> tone[x.state],
           percent |-> (x.progress + 5) \div 10,
           badges |-> badges(x), down |-> fmtSpeed(x.down), left |-> seedLeft(x),
           selected |-> selected = x.hash]
TableRow(x) == [row |-> Row(x), clients |-> x.clients]
TorrentCard(x) == [row |-> Row(x)]

Rows == LET list == filtered(filter) IN
        [i \in DOMAIN list |-> IF desktop THEN TableRow(list[i])
                                          ELSE TorrentCard(list[i])]

\* The torrents that have a row on the screen.
RowsUp ==
  IF view = "library"
  THEN {x.hash : x \in {y \in Range(torrents) : Matches(filter, y)}} ELSE {}

\* App.totals, and what StatusBar says of them.
totals == [count |-> Len(torrents),
           down |-> FoldLeft(LAMBDA n, x : n + x.down, 0, torrents)]
StatusBar == [count |-> totals.count, down |-> fmtSpeed(totals.down)]

\* Mutant of FileOf: the index of the first playable file, as findIndex has it.
FileOfIndex(x) ==
  SelectInSeq(x.files, LAMBDA f : f) - 1

\* The first playable file, or the first one; 0 when there is none.
FileOf(x) ==
  LET playable == SelectInSeq(x.files, LAMBDA f : f)
  IN  IF playable # 0 THEN playable ELSE IF x.files = << >> THEN 0 ELSE 1

DetailUp == Sel # {} /\ (desktop => view = "library")

\* DetailPanel's general tab: how much of it a torrent has to share.
targets(x) ==
  IF x.kind # "seeding" THEN {}
  ELSE (IF x.targetRatio > 0 THEN {"ratio"} ELSE {})
         \cup (IF x.targetMin > 0 THEN {"time"} ELSE {})

\* Its other tabs: the files with a copy button, the speed over the sources,
\* and who is watching.
Detail(x) == [copies |-> {i \in DOMAIN x.files : x.files[i]},
              down |-> fmtSpeed(x.down), clients |-> x.clients]

-----------------------------------------------------------------------------
\* Mutant of Render: a popup belongs to a position in the list.
RenderByIndex(p, t) ==
  LET i == SelectInSeq(Rows, LAMBDA r : r.row.hash = p.hash) IN
  /\ popup' = IF p # NoPopup /\ i \in DOMAIN Rows' /\ RowsUp' # {} /\ desktop' = desktop
              THEN [p EXCEPT !.hash = Rows'[i].row.hash] ELSE NoPopup
  /\ aim' = IF popup' = NoPopup THEN None ELSE IF p = popup THEN aim ELSE p.hash
  /\ tab' = IF DetailUp /\ DetailUp' /\ desktop' = desktop THEN t ELSE "general"

\* What a step leaves of the state of the components below App.  A popup
\* belongs to its row, which React knows by its key, the hash; it goes when
\* the row goes or when table and cards change places.  The tab belongs to
\* the detail panel, where Tabs goes when nothing is selected.
Render(p, t) ==
  /\ popup' = IF p # NoPopup /\ p.hash \in RowsUp' /\ desktop' = desktop
              THEN p ELSE NoPopup
  /\ aim' = IF popup' = NoPopup THEN None ELSE IF p = popup THEN aim ELSE p.hash
  /\ tab' = IF DetailUp /\ DetailUp' /\ desktop' = desktop THEN t ELSE "general"

\* The step asks nothing of anybody.
Silent == sent' = NoRequest

Request(op, h, file) == sent' = [op |-> op, hash |-> h, file |-> file]

\* The page is loaded: the first render asks the media query.
Init ==
  /\ torrents = << >> /\ view = "library" /\ filter = "all" /\ selected = None
  /\ sidebarOpen = FALSE /\ link = FALSE /\ adding = FALSE
  /\ wide \in BOOLEAN /\ desktop = wide /\ hook = "rendered" /\ change = FALSE
  /\ popup = NoPopup /\ tab = "general" /\ sent = NoRequest /\ aim = None

Reload ==
  /\ torrents' = << >> /\ view' = "library" /\ filter' = "all" /\ selected' = None
  /\ sidebarOpen' = FALSE /\ link' = FALSE /\ adding' = FALSE
  /\ desktop' = wide /\ hook' = "rendered" /\ change' = FALSE
  /\ popup' = NoPopup /\ tab' = "general" /\ sent' = NoRequest /\ aim' = None
  /\ UNCHANGED wide

-----------------------------------------------------------------------------
(* What happens to the page.                                               *)

\* Engine.List, as api.list() and stats events carry it: the newest first.
Snapshot ==
  {S \in SUBSET Infos : /\ IsFiniteSet(S)
                        /\ \A x, y \in S : x.hash = y.hash => x = y}
Snapshots ==
  {list \in UNION {SetToSeqs(S) : S \in Snapshot} :
     \A i \in 1 .. Len(list) - 1 : list[i].addedAt >= list[i + 1].addedAt}

Ingested == {Sorted(list) : list \in Snapshots}

ingest ==
  /\ torrents' \in Ingested
  /\ UNCHANGED <<uivars, boxvars, mediavars>>
  /\ Render(popup, tab) /\ Silent

\* The window changes across the breakpoint.
Resize ==
  /\ wide' = ~wide
  /\ change' = (hook = "listening")
  /\ UNCHANGED <<torrents, uivars, boxvars, desktop, hook>>
  /\ Render(popup, tab) /\ Silent

\* Mutant of Effect: it only listens.
EffectListens ==
  /\ hook = "rendered"
  /\ hook' = "listening"
  /\ UNCHANGED <<torrents, uivars, boxvars, wide, desktop, change>>
  /\ Render(popup, tab) /\ Silent

\* useMediaQuery's effect, after the first paint: onChange(), then listen.
Effect ==
  /\ hook = "rendered"
  /\ hook' = "listening"
  /\ desktop' = wide
  /\ UNCHANGED <<torrents, uivars, boxvars, wide, change>>
  /\ Render(popup, tab) /\ Silent

onChange ==
  /\ change
  /\ change' = FALSE
  /\ desktop' = wide
  /\ UNCHANGED <<torrents, uivars, boxvars, wide, hook>>
  /\ Render(popup, tab) /\ Silent

-----------------------------------------------------------------------------
(* The user.  A menu is modal, and so is a drawer; an explanation closes   *)
(* when the user does anything else.                                       *)

MenuOpen == popup.what = "menu"
Drawer == ~desktop /\ (sidebarOpen \/ Sel # {})
TableUp == view = "library" /\ ~MenuOpen /\ ~Drawer
ToolbarUp == ~MenuOpen /\ ~Drawer

Click(v, f, s, open) ==
  /\ view' = v /\ filter' = f /\ selected' = s /\ sidebarOpen' = open
  /\ UNCHANGED <<torrents, boxvars, mediavars>>
  /\ Render(NoPopup, tab)

\* Sidebar: a view, or a filter.  In the drawer, it closes it.
SidebarUp == (desktop \/ sidebarOpen) /\ ~MenuOpen
StillOpen == desktop /\ sidebarOpen
onView(v) == SidebarUp /\ Click(v, filter, selected, StillOpen) /\ Silent
onFilter(f) == /\ SidebarUp /\ view = "library"
               /\ Click(view, f, selected, StillOpen) /\ Silent

\* The menu button, which CSS hides from a wide window; the drawer's X.
OpenSidebar == /\ ToolbarUp /\ ~wide
               /\ Click(view, filter, selected, TRUE) /\ Silent
CloseSidebar == /\ ~desktop /\ sidebarOpen
                /\ Click(view, filter, selected, FALSE) /\ Silent

\* A click on a row.
onSelect(h) == /\ TableUp /\ h \in RowsUp
               /\ Click(view, filter, h, sidebarOpen) /\ Silent

\* The detail drawer is closed.
CloseDetail == /\ ~desktop /\ Sel # {}
               /\ Click(view, filter, None, sidebarOpen) /\ Silent

\* Right click on a row, or the button of a card; a badge.  A click on these
\* selects nothing.
OpenPopup(what, h) ==
  /\ TableUp /\ h \in RowsUp
  /\ \E x \in Range(torrents) : x.hash = h /\ what \in {"menu"} \cup badges(x)
  /\ Silent
  /\ UNCHANGED <<torrents, uivars, boxvars, mediavars>>
  /\ Render([what |-> what, hash |-> h], tab)

\* Escape, or a click elsewhere.
Dismiss ==
  /\ popup # NoPopup
  /\ UNCHANGED <<torrents, uivars, boxvars, mediavars>>
  /\ Render(NoPopup, tab) /\ Silent

\* App.play and App.copy; drop; App.remove, once or if the user confirms.
Ask(op, x) ==
  \/ /\ op \in {"play", "copy"}
     /\ IF FileOf(x) = 0 THEN sent' = NoRequest ELSE Request(op, x.hash, FileOf(x))
  \/ op = "drop" /\ Request(op, x.hash, 0)
  \/ /\ op \in {"delete", "deleteFiles"}
     /\ Request(op, x.hash, 0) \/ sent' = NoRequest

Ops == {"play", "copy", "drop", "delete", "deleteFiles"}

\* An item of the open menu: the row hands over its torrent.
Item(op) ==
  /\ MenuOpen
  /\ \E x \in Range(torrents) : x.hash = popup.hash /\ Ask(op, x)
  /\ UNCHANGED <<torrents, uivars, boxvars, mediavars>>
  /\ Render(NoPopup, tab)

\* The table's double click, whose first click has selected the row.
onDoubleClick(h) ==
  /\ TableUp /\ desktop /\ h \in RowsUp
  /\ \E x \in Range(torrents) : x.hash = h /\ Ask("play", x)
  /\ Click(view, filter, h, sidebarOpen)

\* The buttons of the toolbar, shown by CSS in a wide window, act on the
\* selected torrent whatever view and filter show.
Toolbar(op) ==
  /\ ToolbarUp /\ wide
  /\ \E x \in Sel : Ask(op, x)
  /\ UNCHANGED <<torrents, uivars, boxvars, mediavars>>
  /\ Render(NoPopup, tab)

\* DetailPanel: a tab; the copy button of a playable file.
SelectTab(t) ==
  /\ DetailUp /\ ~MenuOpen
  /\ UNCHANGED <<torrents, uivars, boxvars, mediavars>>
  /\ Render(NoPopup, t) /\ Silent

CopyFile(i) ==
  /\ DetailUp /\ ~MenuOpen /\ tab = "files"
  /\ \E x \in Sel : i \in Detail(x).copies /\ Request("copy", x.hash, i)
  /\ UNCHANGED <<torrents, uivars, boxvars, mediavars>>
  /\ Render(NoPopup, tab)

\* The add box: the user types or wipes it, also while an add is under way.
TypeLink ==
  /\ ToolbarUp
  /\ link' = ~link
  /\ UNCHANGED <<torrents, uivars, adding, mediavars>>
  /\ Render(NoPopup, tab) /\ Silent

Add ==
  /\ ToolbarUp
  /\ link /\ ~adding
  /\ adding' = TRUE
  /\ Request("add", None, 0)
  /\ UNCHANGED <<torrents, uivars, link, mediavars>>
  /\ Render(NoPopup, tab)

\* It succeeds: the box is emptied, whatever is in it, and the list asked
\* for; or it fails.
Added(ok) ==
  /\ adding
  /\ adding' = FALSE
  /\ link' = (link /\ ~ok)
  /\ IF ok THEN Request("list", None, 0) ELSE sent' = NoRequest
  /\ UNCHANGED <<torrents, uivars, mediavars>>
  /\ Render(popup, tab)

User(h) == onSelect(h) \/ onDoubleClick(h)
             \/ \E what \in {"menu", "mode", "private"} : OpenPopup(what, h)

Next ==
  \/ ingest \/ Resize \/ Effect \/ onChange \/ Reload
  \/ \E v \in {"library", "rules", "settings"} : onView(v)
  \/ \E f \in Filters : onFilter(f)
  \/ OpenSidebar \/ CloseSidebar \/ CloseDetail \/ Dismiss
  \/ \E h \in Hashes : User(h)
  \/ \E op \in Ops : Item(op)
  \/ \E op \in Ops \ {"deleteFiles"} : Toolbar(op)
  \/ \E t \in TabNames : SelectTab(t)
  \/ \E i \in 1 .. Max({Len(x.files) : x \in Infos}) : CopyFile(i)
  \/ TypeLink \/ Add
  \/ \E ok \in BOOLEAN : Added(ok)

Spec == Init /\ [][Next]_vars

-----------------------------------------------------------------------------
Popups == {NoPopup} \cup [what : {"menu", "mode", "private"}, hash : Hashes]

TypeOK ==
  /\ torrents \in Seq(Infos)
  /\ view \in {"library", "rules", "settings"} /\ filter \in Filters
  /\ selected \in Hashes \cup {None} /\ sidebarOpen \in BOOLEAN
  /\ link \in BOOLEAN /\ adding \in BOOLEAN
  /\ popup \in Popups /\ tab \in TabNames
  /\ wide \in BOOLEAN /\ desktop \in BOOLEAN
  /\ hook \in {"rendered", "listening"} /\ change \in BOOLEAN
  /\ sent \in [op : Ops \cup {"add", "list", None},
               hash : Hashes \cup {None}, file : Nat]
  /\ aim \in Hashes \cup {None}

\* An item of a menu acts on the torrent the menu was opened on, which is in
\* front of the user, however often the list was sorted anew, filtered or
\* laid out anew meanwhile (TorrentTable.tsx:181-265, 304-329).
MenuActsOnItsTorrent ==
  [][MenuOpen /\ sent' # sent /\ sent'.hash # None
       => sent'.hash = aim /\ aim \in RowsUp]_vars

\* A number of the sidebar is the number of rows its filter lists, and two
\* pairs of filters part the list (App.tsx:120-147).
SidebarAgrees ==
  /\ \A f \in Filters : counts[f] = Len(filtered(f))
  /\ counts.streaming + counts.sharing = counts.all
  /\ StatusBar.count = counts.all
  /\ counts.downloading + counts.completed = counts.all

\* Rows come in the order of ingest under every filter (App.tsx:61-65).
RowsOrdered ==
  \A i, j \in DOMAIN torrents : i < j => ~Before(torrents[j], torrents[i])

\* A torrent whose sharing has begun or is over is one the sidebar calls
\* completed, one that is not shared yet one that is downloading
\* (TorrentTable.tsx:43-53).
LeftAgrees ==
  \A i \in DOMAIN torrents : LET x == torrents[i] IN
    /\ seedLeft(x) = "pending" => x \in Range(filtered("downloading"))
    /\ seedLeft(x) \in {"done", "minutes"} => x \in Range(filtered("completed"))

\* The status bar never shows less than a row does: rounding and the change
\* of units keep the order of speeds (util.ts:71-76, App.tsx:135-139).
Shows(s) == IF s.unit = "MB/s" THEN 100 * s.n ELSE s.n
TotalAgrees ==
  \A i \in DOMAIN Rows : Shows(Rows[i].row.down) <= Shows(StatusBar.down)

\* The detail panel agrees with the row that is marked as selected: on
\* whether there is anything to share, and on the file a player is given,
\* which has a copy button if any has (DetailPanel.tsx:64-75, 101-114,
\* TorrentTable.tsx:44-53, App.tsx:104-114).
DetailAgrees ==
  \A x \in Sel :
    /\ (seedLeft(x) = "-") <=> (targets(x) = {})
    /\ Detail(x).copies # {} => FileOf(x) \in Detail(x).copies
    /\ \A i \in DOMAIN Rows :
         Rows[i].row.selected => Rows[i] \in {TableRow(x), TorrentCard(x)}

\* What the page says of the list in different places agrees.
Coherent == SidebarAgrees /\ RowsOrdered /\ LeftAgrees /\ TotalAgrees /\ DetailAgrees

\* Once the hook listens, the layout is the one for the window, or an event
\* that will make it so is due: a window that changed between the first
\* render and the effect is not missed (use-media-query.ts:4-15).
LayoutMatches == hook = "listening" /\ ~change => desktop = wide
=============================================================================
