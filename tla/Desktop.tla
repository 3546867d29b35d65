------------------------------ MODULE Desktop ------------------------------
(***************************************************************************)
(* The desktop (desktop.c): which windows exist, which are on the screen,  *)
(* the workspaces, the arena of pixels the tiles share, and the relayout   *)
(* that settles geometry, surfaces and focus.                              *)
(*                                                                         *)
(* A desktop is [wm, apps, workspace, percent]; its entries are numbered   *)
(* from 1.  An entry's frame is the slice of the arena it draws in, and    *)
(* its client the part of that inside the border, so that one is empty     *)
(* when the other is.                                                      *)
(***************************************************************************)
EXTENDS Tile

CONSTANTS DESKTOP_MAX_APPS, DESKTOP_WORKSPACES, ARENA_PIXELS

ASSUME DesktopAssumption ==
  /\ DESKTOP_MAX_APPS \in 1..WINDOW_MAX
  /\ DESKTOP_WORKSPACES \in Nat \ {0}
  /\ ARENA_PIXELS \in Nat /\ ARENA_PIXELS >= SCREEN_WIDTH * SCREEN_HEIGHT

surface_none == [start |-> 0, width |-> 0, height |-> 0]

App(id, workspace) ==
  [id |-> id, hidden |-> FALSE, workspace |-> workspace, frame |-> surface_none]

desktop_init == [wm |-> window_manager_init, apps |-> <<>>, workspace |-> 1, percent |-> 50]

\* 0 for an identifier no entry has.
desktop_index_of(d, id) ==
  LET hit == {i \in 1..Len(d.apps) : d.apps[i].id = id}
  IN  IF hit = {} THEN 0 ELSE CHOOSE i \in hit : \A j \in hit : i <= j

\* Mutant: a window on another workspace counts as on the screen.
OnAnyScreen(d, i) == ~d.apps[i].hidden

desktop_on_screen(d, i) ==
  /\ i \in 1..Len(d.apps)
  /\ ~d.apps[i].hidden
  /\ d.apps[i].workspace = d.workspace

VisibleApps(d) == {i \in 1..Len(d.apps) : desktop_on_screen(d, i)}

\* A window of a placeholder size at the end of the table, on the workspace
\* being looked at; not there when the table or the window manager is full.
desktop_add(d) ==
  LET made == window_create(d.wm, Area(0, 0, 64, 64))
  IN  IF Len(d.apps) >= DESKTOP_MAX_APPS \/ ~made.ok
      THEN [ok |-> FALSE, id |-> WINDOW_ID_NONE, d |-> d]
      ELSE [ok |-> TRUE, id |-> made.id,
            d |-> [d EXCEPT !.wm = made.wm,
                            !.apps = Append(@, App(made.id, d.workspace))]]

\* The entries after the one removed move down, frames included; the windows'
\* surfaces still point at the entries where they were.
desktop_remove(d, id) ==
  IF desktop_index_of(d, id) = 0 THEN d
  ELSE [d EXCEPT !.wm = window_destroy(@, id),
                 !.apps = RemoveAt(@, desktop_index_of(d, id))]

----------------------------------------------------------------------------
(* The layout *)

Pixels(area) == area.width * area.height

\* Pixels of the arena taken by the first k tiles.
taken(tiles) ==
  LET upto[k \in 0..Len(tiles)] == IF k = 0 THEN 0 ELSE upto[k - 1] + Pixels(tiles[k])
  IN  upto

\* The app's place in the layout: the k-th on the screen gets the k-th tile.
place_of(d, i) == Cardinality({j \in VisibleApps(d) : j <= i})

frame_of(tiles, k) ==
  [start |-> taken(tiles)[k - 1], width |-> tiles[k].width, height |-> tiles[k].height]

\* Mutant: an app that leaves the screen keeps the slice it had.
KeepsItsSlice(d, i, tiles) ==
  IF desktop_on_screen(d, i) THEN frame_of(tiles, place_of(d, i)) ELSE d.apps[i].frame

\* The slice of the arena an app gets: one after the other, in the order of the
\* layout, and none for an app that is not on the screen.
frame_given(d, i, tiles) ==
  IF desktop_on_screen(d, i) THEN frame_of(tiles, place_of(d, i)) ELSE surface_none

\* A window of the desktop after the layout: what is not on the screen is
\* minimized, without a surface.  The geometry it keeps is read by nobody until
\* the next layout, save to place a captured pointer, and is left out.
window_laid_out(d, window, tiles) ==
  LET i == desktop_index_of(d, window.id)
  IN  CASE window.id = WINDOW_ID_NONE -> window
        [] window.id # WINDOW_ID_NONE /\ desktop_on_screen(d, i) ->
             [window EXCEPT !.geometry = tiles[place_of(d, i)], !.minimized = FALSE,
                            !.surface = i]
        [] OTHER -> [window EXCEPT !.geometry = area_none, !.minimized = TRUE, !.surface = 0]

laid_out(d, tiles) ==
  [d EXCEPT
    !.wm.slots = [s \in Slots |-> window_laid_out(d, @[s], tiles)],
    !.apps = [i \in DOMAIN @ |-> [@[i] EXCEPT !.frame = frame_given(d, i, tiles)]]]

\* Mutant: the keyboard stays where it was, on the screen or not.
FocusLeftAlone(d) == d

\* The focus goes to the first app on the screen unless it is on one already;
\* with nothing on the screen it stays where it was.
focus_settled(d) ==
  LET visible == VisibleApps(d)
      first == CHOOSE i \in visible : \A j \in visible : i <= j
  IN  IF desktop_on_screen(d, desktop_index_of(d, window_focused(d.wm))) \/ visible = {}
      THEN d
      ELSE [d EXCEPT !.wm = window_focus(@, d.apps[first].id)]

desktop_relayout(d) ==
  LET count == Cardinality(VisibleApps(d))
      tiles == tile_layout(Screen, d.percent, count)
  IN  IF count # 0 /\ (tiles = <<>> \/ taken(tiles)[count] > ARENA_PIXELS)
      THEN [ok |-> FALSE, d |-> d]
      ELSE [ok |-> TRUE, d |-> focus_settled(laid_out(d, tiles))]

----------------------------------------------------------------------------
(* Focus, hiding and workspaces *)

\* The next or previous app on the screen from the one with the focus, once
\* round the table at most.  An unknown focus counts as the first entry.
desktop_focus_step(d, step) ==
  LET here == desktop_index_of(d, window_focused(d.wm))
      start == IF here = 0 THEN 1 ELSE here
      at(n) == ((start - 1 + n * step) % Len(d.apps)) + 1
      tried == {n \in 1..Len(d.apps) : desktop_on_screen(d, at(n))}
  IN  IF tried = {} THEN d
      ELSE [d EXCEPT !.wm = window_focus(
              @, d.apps[at(CHOOSE n \in tried : \A m \in tried : n <= m)].id)]

set_hidden(d, i, hidden) ==
  LET put == [d EXCEPT !.apps[i].hidden = hidden]
  IN  IF hidden /\ window_focused(d.wm) = d.apps[i].id
      THEN desktop_focus_step(put, 1) ELSE put

\* False when nothing has changed: an unknown window, or one already so.
desktop_set_hidden(d, id, hidden) ==
  LET i == desktop_index_of(d, id)
  IN  IF i = 0 \/ (i # 0 /\ d.apps[i].hidden = hidden) THEN [ok |-> FALSE, d |-> d]
      ELSE [ok |-> TRUE, d |-> set_hidden(d, i, hidden)]

desktop_switch_workspace(d, to) ==
  IF to \notin 1..DESKTOP_WORKSPACES \/ to = d.workspace THEN [ok |-> FALSE, d |-> d]
  ELSE [ok |-> TRUE, d |-> [d EXCEPT !.workspace = to]]

desktop_move_to_workspace(d, id, to) ==
  LET i == desktop_index_of(d, id)
  IN  IF to \notin 1..DESKTOP_WORKSPACES \/ i = 0 \/ (i # 0 /\ d.apps[i].workspace = to)
      THEN [ok |-> FALSE, d |-> d]
      ELSE [ok |-> TRUE, d |-> [d EXCEPT !.apps[i].workspace = to]]

desktop_taskbar_hit(d, at) == shell_task_at(Screen, Len(d.apps), at)

----------------------------------------------------------------------------
(* What a desktop is worth between two layouts *)

\* Two slices of the arena that share no pixel.
SlicesApart(a, b) ==
  \/ a.start + Pixels(a) <= b.start \/ b.start + Pixels(b) <= a.start
  \/ Pixels(a) = 0 \/ Pixels(b) = 0

\* Every app that can draw draws in pixels of its own, and what the compositor
\* draws for a window is the frame of its own app, of the window's size.
PixelsAreOwned(d) ==
  /\ \A i, j \in 1..Len(d.apps) : i # j => SlicesApart(d.apps[i].frame, d.apps[j].frame)
  /\ \A s \in LiveSlots(d.wm) :
       LET w == d.wm.slots[s]
       IN  /\ w.minimized <=> ~desktop_on_screen(d, desktop_index_of(d, w.id))
           /\ w.minimized => w.surface = 0
           /\ ~w.minimized =>
                /\ w.surface = desktop_index_of(d, w.id)
                /\ d.apps[w.surface].frame.width = w.geometry.width
                /\ d.apps[w.surface].frame.height = w.geometry.height

\* No two windows on the screen overlap, nor a window and a bar.
TilesAreApart(d) ==
  \A s \in LiveSlots(d.wm) : ~d.wm.slots[s].minimized =>
    /\ Within(d.wm.slots[s].geometry, tile_workspace(Screen))
    /\ \A t \in LiveSlots(d.wm) :
         (s # t /\ ~d.wm.slots[t].minimized)
           => Apart(d.wm.slots[s].geometry, d.wm.slots[t].geometry)
=============================================================================
