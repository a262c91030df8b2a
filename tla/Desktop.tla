------------------------------- MODULE Desktop -------------------------------
(***************************************************************************)
(* The windows of a tab (packages/frontend/src/desktop).  Which are open,  *)
(* and their z-order, is in the URL, and so in the browser's history; what *)
(* is minimized or maximized is in the component's state (wm.tsx).  A      *)
(* navigation is seen by the components only once the router has rendered  *)
(* it, and whatever the user does before that acts on the old windows.     *)
(***************************************************************************)
EXTENDS Integers, Sequences, SequencesExt

CONSTANTS
  Markets,       \* windows of the trade app, one for each market
  Apps,          \* windows of the other apps
  MaxHistory,    \* bound: entries of the browser's history
  None

ASSUME DesktopAssumption ==
  /\ Markets \cap Apps = {} /\ None \notin Markets \cup Apps
  /\ "junk" \notin Markets \cup Apps
  /\ MaxHistory \in Nat \ {0}

VARIABLES
  entries, at,   \* the history and the current entry of it, the URL's `w`
  ids,           \* the open windows as the components see them, the top one last
  flags,         \* [Windows -> minimized, maximized]
  menu,          \* the Start menu is "closed", "open", or open at its "markets"
  asked,         \* history: the window the last event asked to see, on a fresh view
  overtaken      \* history: an event acted on a view that was out of date

desktopVars == <<entries, at, ids, flags, menu, asked, overtaken>>

Windows == Markets \cup Apps
\* Whatever else a link holds.
Junk == "junk"

-----------------------------------------------------------------------------
(* Geometry (geometry.ts), in pixels *)

MIN_SIZE == [trade |-> [width |-> 480, height |-> 360], vault |-> [width |-> 360, height |-> 320],
             faucet |-> [width |-> 320, height |-> 280], profile |-> [width |-> 400, height |-> 280],
             leaderboard |-> [width |-> 440, height |-> 240]]
DEFAULT_SIZE == [trade |-> [width |-> 880, height |-> 600], vault |-> [width |-> 560, height |-> 580],
                 faucet |-> [width |-> 400, height |-> 380], profile |-> [width |-> 680, height |-> 500],
                 leaderboard |-> [width |-> 720, height |-> 460]]

Least(a, b) == IF a < b THEN a ELSE b
Most(a, b)  == IF a < b THEN b ELSE a

\* The cascade of windows without a saved geometry.
defaultGeometry(kind, index, desktop) ==
  LET width  == Least(DEFAULT_SIZE[kind].width,
                      Most(MIN_SIZE[kind].width, desktop.width - 16))
      height == Least(DEFAULT_SIZE[kind].height,
                      Most(MIN_SIZE[kind].height, desktop.height - 16))
      offset == 28 * (index % 8)
  IN  [x |-> Least(48 + offset, Most(0, desktop.width - width)),
       y |-> Least(24 + offset, Most(0, desktop.height - height)),
       width |-> width, height |-> height]

\* Narrower screens force their windows maximized.
IsSmallScreen(width) == width <= 640

-----------------------------------------------------------------------------
(* What is on the screen (wm.tsx) *)

\* Array.filter: the members of S in a list, in its order.
Kept(kept, id, S) == IF id \in S THEN Append(kept, id) ELSE kept
Only(list, S) == FoldLeft(LAMBDA kept, id : Kept(kept, id, S), <<>>, list)

\* The windows of a link, without what parseWindowId does not recognise.
Parsed(w) == Only(w, Windows)

\* navigate has been rendered.
Fresh == ids = Parsed(entries[at])

NoFlags == [minimized |-> FALSE, maximized |-> FALSE]

Shown == {id \in ToSet(ids) : ~flags[id].minimized}

\* The topmost window that is not minimized.
focusedId ==
  LET seen == Only(ids, Shown)
  IN  IF seen = <<>> THEN None ELSE Last(seen)

-----------------------------------------------------------------------------
(* The steps the operations of the window manager are made of *)

Without(id) == Only(ids, ToSet(ids) \ {id})
Raised(id)  == Append(Without(id), id)

\* navigate: a URL that does not change makes no entry.
Navigate(next) ==
  IF next = entries[at] THEN UNCHANGED <<entries, at>>
  ELSE /\ at < MaxHistory
       /\ entries' = Append(SubSeq(entries, 1, at), next)
       /\ at' = at + 1

Replace(next) == entries' = [entries EXCEPT ![at] = next] /\ UNCHANGED at

Restored(id) == [flags EXCEPT ![id].minimized = FALSE]

\* Faulty: raising a window is a navigation like any other.
Pushing_Raise(id) == IF Last(ids) = id THEN UNCHANGED <<entries, at>> ELSE Navigate(Raised(id))

\* The reordering of focus: it does not make an entry.
Raise(id) == IF Last(ids) = id THEN UNCHANGED <<entries, at>> ELSE Replace(Raised(id))

\* History: an event that asks to see `id`; one that navigates.
Asks(id)  == asked' = IF Fresh THEN id ELSE None
Navigated == overtaken' = (overtaken \/ ~Fresh)

-----------------------------------------------------------------------------
(* The operations of the window manager, on the windows the components see *)

focus(id) ==
  IF id \in ToSet(ids)
  THEN flags' = Restored(id) /\ Raise(id)
  ELSE UNCHANGED <<entries, at, flags>>

\* Faulty: a window that is not open has no flags to reset.
Unflagged_open(id) ==
  IF id \in ToSet(ids) THEN focus(id) ELSE Navigate(Append(ids, id)) /\ UNCHANGED flags

open(id) ==
  IF id \in ToSet(ids) THEN focus(id) ELSE Navigate(Append(ids, id)) /\ flags' = Restored(id)

close(id) ==
  /\ Navigate(Without(id))
  /\ flags' = [flags EXCEPT ![id] = NoFlags]

minimize(id) ==
  /\ flags' = [flags EXCEPT ![id].minimized = TRUE]
  /\ UNCHANGED <<entries, at>>

\* The toggle of a window that is shown, and its focus.
toggleMaximize(id) ==
  /\ flags' = [flags EXCEPT ![id] = [minimized |-> FALSE, maximized |-> ~@.maximized]]
  /\ Raise(id)

-----------------------------------------------------------------------------
(* What the user does *)

\* An icon of the desktop or a link in a window: the menu is closed, or closes
\* at the press.
Launch(id) ==
  /\ open(id) /\ menu' = "closed"
  /\ Asks(id) /\ Navigated /\ UNCHANGED ids

\* An item of the Start menu.
MenuLaunch(id) ==
  /\ menu = "open" => id \in Apps
  /\ menu # "closed"
  /\ Launch(id)

\* The Start button; the pointer moves onto the markets or away from them.
Menu ==
  /\ menu' \in CASE menu = "closed"  -> {"open"}
                 [] menu = "open"    -> {"closed", "markets"}
                 [] menu = "markets" -> {"closed", "open"}
  /\ asked' = None /\ UNCHANGED <<entries, at, ids, flags, overtaken>>

\* A press of the mouse in a window, and the start of a drag.
Press(id) ==
  /\ id \in Shown
  /\ IF focusedId = id THEN UNCHANGED <<entries, at, flags>> ELSE focus(id)
  /\ menu' = "closed"
  /\ Asks(id) /\ Navigated /\ UNCHANGED ids

Minimize(id) ==
  /\ id \in Shown /\ minimize(id)
  /\ asked' = None /\ UNCHANGED <<ids, menu, overtaken>>

Maximize(id) ==
  /\ id \in Shown /\ toggleMaximize(id)
  /\ Asks(id) /\ Navigated /\ UNCHANGED <<ids, menu>>

Close(id) ==
  /\ id \in Shown /\ close(id)
  /\ asked' = None /\ Navigated /\ UNCHANGED <<ids, menu>>

\* taskbarActivate.
Activate(id) ==
  /\ id \in ToSet(ids)
  /\ IF focusedId = id
     THEN minimize(id) /\ asked' = None /\ UNCHANGED overtaken
     ELSE focus(id) /\ Asks(id) /\ Navigated
  /\ menu' = "closed" /\ UNCHANGED ids

\* Back and Forward.
Travel ==
  /\ at' \in {at - 1, at + 1} \cap DOMAIN entries
  /\ asked' = None /\ UNCHANGED <<entries, ids, flags, menu, overtaken>>

Reload ==
  /\ ids' = Parsed(entries[at]) /\ flags' = [id \in Windows |-> NoFlags] /\ menu' = "closed"
  /\ asked' = None /\ UNCHANGED <<entries, at, overtaken>>

\* The router has the navigation rendered.
Render ==
  /\ ~Fresh /\ ids' = Parsed(entries[at])
  /\ UNCHANGED <<entries, at, flags, menu, asked, overtaken>>

-----------------------------------------------------------------------------
(* The specification *)

\* A link is opened: another user's, or one with a window of an older release.
DesktopInit ==
  /\ \E w \in {<<>>} \cup {<<id>> : id \in Windows} \cup {<<Junk, id>> : id \in Windows} :
       entries = <<w>> /\ ids = Parsed(w)
  /\ at = 1 /\ flags = [id \in Windows |-> NoFlags] /\ menu = "closed" /\ asked = None /\ overtaken = FALSE

DesktopNext ==
  \/ \E id \in Windows : Launch(id) \/ MenuLaunch(id) \/ Press(id) \/ Minimize(id) \/ Maximize(id)
                           \/ Close(id) \/ Activate(id)
  \/ Menu \/ Travel \/ Reload \/ Render

-----------------------------------------------------------------------------
(* Properties *)

\* The window an event asked to see is not minimized and on top of the others,
\* once the navigation is rendered: however it was minimized,
\* closed, or taken away and brought back by the browser's history before.
\* (wm.tsx:92-118, 160-176)
AskedWindowShows == asked # None /\ Fresh => focusedId = asked

Difference(v, w) == (ToSet(v) \ ToSet(w)) \cup (ToSet(w) \ ToSet(v))

\* Going back undoes the last opening or closing of a window, never a mere
\* change of the z-order; and no link has a window twice, not even when an
\* event acted on windows that had changed.  (wm.tsx:97-100)
BackUndoesOneWindow ==
  /\ \A i \in DOMAIN entries : IsInjective(entries[i])
  /\ ~overtaken => \A i \in 1..(Len(entries) - 1) :
       \E id \in Windows : Difference(Parsed(entries[i]), Parsed(entries[i + 1])) = {id}

-----------------------------------------------------------------------------
(* The inductive invariant of the proofs *)

DesktopTypeOK ==
  /\ entries \in Seq(Seq(Windows \cup {Junk})) /\ at \in 1..Len(entries)
  /\ ids \in Seq(Windows) /\ IsInjective(ids)
  /\ flags \in [Windows -> [minimized : BOOLEAN, maximized : BOOLEAN]]

\* The link, once rendered, shows the window on top.
OnTop(link, marks, id) ==
  LET seen == Only(Parsed(link), {x \in Windows : ~marks[x].minimized})
  IN  seen # <<>> /\ Last(seen) = id

AskedOnTop == asked # None => OnTop(entries[at], flags, asked)

DesktopInv == DesktopTypeOK /\ AskedOnTop /\ BackUndoesOneWindow
=============================================================================
