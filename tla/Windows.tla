------------------------------ MODULE Windows ------------------------------
(***************************************************************************)
(* The window manager: the table of windows, focus, pointer capture        *)
(* (window.c) and the bounded queue of events each window has (event.c).   *)
(* The stacking order is left out: the windows of the desktop are tiles,   *)
(* and no two on the screen overlap (TilesAreApart in Desktop).            *)
(*                                                                         *)
(* A function of the code that changes the manager is an operator from the *)
(* manager to the manager it leaves behind; one that may also refuse       *)
(* returns [ok |-> ..., wm |-> ...].  Titles are left out.  A window's     *)
(* surface is a pointer to the frame of an entry of the desktop's table,   *)
(* and is modelled by the number of that entry.                            *)
(***************************************************************************)
EXTENDS Integers, Sequences, SequencesExt, FiniteSets

CONSTANTS WINDOW_MAX,             \* slots of the table
          WINDOW_EVENT_CAPACITY,  \* events a queue holds
          LAST_ID,                \* the largest identifier: 2^32 - 1 in the code
          Listens                 \* <<id, type>>: events an app does something with

ASSUME WindowsAssumption ==
  /\ WINDOW_MAX \in Nat \ {0}
  /\ WINDOW_EVENT_CAPACITY \in Nat \ {0}
  /\ LAST_ID \in Nat /\ LAST_ID >= WINDOW_MAX
  /\ Listens \subseteq (1..LAST_ID) \X {"DOWN", "UP", "ENTER"}

WINDOW_ID_NONE == 0
WindowId == 1..LAST_ID
Slots == 1..WINDOW_MAX

\* A press, a release and the key that ends a line are told apart for the app
\* that does something with them.  Every other event counts for the place it
\* takes in a queue, and the queue of a window without such an app is left out.
EventTypes == {"DOWN", "UP", "ENTER", "OTHER"}
Listeners == {pair[1] : pair \in Listens}

\* The rectangles are those of the tiles.
Area(x, y, width, height) == [x |-> x, y |-> y, width |-> width, height |-> height]
area_none == Area(0, 0, 0, 0)

\* A slot full of zeroes is a free one.
FreeSlot == [id |-> WINDOW_ID_NONE, geometry |-> area_none, focused |-> FALSE,
             minimized |-> FALSE, surface |-> 0, events |-> <<>>]

window_manager_init ==
  [slots |-> [s \in Slots |-> FreeSlot], next_id |-> 1, capture |-> WINDOW_ID_NONE]

----------------------------------------------------------------------------
(* Queues of events *)

\* Mutant: a full queue is overrun.
PushAnyway(window, event) == [window EXCEPT !.events = Append(@, "OTHER")]

\* A full queue keeps what it has: the newest event is the one dropped.
window_event_push(window, event) ==
  IF Len(window.events) >= WINDOW_EVENT_CAPACITY \/ window.id \notin Listeners
  THEN window
  ELSE [window EXCEPT !.events =
          Append(@, IF <<window.id, event>> \in Listens THEN event ELSE "OTHER")]

----------------------------------------------------------------------------
(* The table *)

slots_of(wm, id) ==
  {s \in Slots : id # WINDOW_ID_NONE /\ wm.slots[s].id = id}
known(wm, id) == slots_of(wm, id) # {}
slot_for_id(wm, id) == CHOOSE s \in slots_of(wm, id) : TRUE
window_get(wm, id) == wm.slots[slot_for_id(wm, id)]
LiveIds(wm) == {wm.slots[s].id : s \in Slots} \ {WINDOW_ID_NONE}

LiveSlots(wm) == {s \in Slots : wm.slots[s].id # WINDOW_ID_NONE}

following(id) == (id % LAST_ID) + 1

\* Mutant: the counter is believed, whatever is alive.
TakeIdBlindly(wm) == wm.next_id

\* The first of the identifiers from next_id on, past the last one and round
\* to 1 again, that no window has.
take_id(wm) ==
  LET nth(k) == ((wm.next_id - 1 + k) % LAST_ID) + 1
      free == {k \in 0..WINDOW_MAX : ~known(wm, nth(k))}
  IN  nth(CHOOSE k \in free : \A j \in free : k <= j)

\* A new window takes the first free slot.
window_create(wm, geometry) ==
  LET free == {s \in Slots : wm.slots[s].id = WINDOW_ID_NONE}
      slot == CHOOSE s \in free : \A t \in free : s <= t
      id == take_id(wm)
  IN  IF free = {} THEN [ok |-> FALSE, id |-> WINDOW_ID_NONE, wm |-> wm]
      ELSE [ok |-> TRUE, id |-> id,
            wm |-> [wm EXCEPT
              !.slots[slot] = [FreeSlot EXCEPT !.id = id, !.geometry = geometry],
              !.next_id = following(id)]]

\* The focus goes with the window that had it, and nobody is told.
window_destroy(wm, id) ==
  LET slot == slot_for_id(wm, id)
  IN  IF ~known(wm, id) THEN wm
      ELSE [wm EXCEPT
              !.slots[slot] = FreeSlot,
              !.capture = IF @ = id THEN WINDOW_ID_NONE ELSE @]

set_window(wm, id, window) == [wm EXCEPT !.slots[slot_for_id(wm, id)] = window]

----------------------------------------------------------------------------
(* Who is under the pointer, and who has the keyboard *)

contains(area, at) ==
  /\ at.x >= area.x /\ at.x < area.x + area.width
  /\ at.y >= area.y /\ at.y < area.y + area.height

\* The window that is drawn and holds the point; tiles do not overlap.
window_hit_test(wm, at) ==
  LET hit == {s \in LiveSlots(wm) : /\ ~wm.slots[s].minimized
                                    /\ contains(wm.slots[s].geometry, at)}
  IN  IF hit = {} THEN WINDOW_ID_NONE ELSE wm.slots[CHOOSE s \in hit : TRUE].id

window_focused(wm) ==
  LET focused == {s \in Slots : wm.slots[s].focused}
  IN  IF focused = {} THEN WINDOW_ID_NONE
      ELSE wm.slots[CHOOSE s \in focused : \A t \in focused : s <= t].id

window_post_event(wm, id, event) ==
  IF known(wm, id) THEN set_window(wm, id, window_event_push(window_get(wm, id), event))
  ELSE wm

unfocused(wm, old) ==
  IF ~known(wm, old) THEN wm
  ELSE set_window(wm, old, window_event_push([window_get(wm, old) EXCEPT !.focused = FALSE],
                                             "OTHER"))

focused_on(wm, id) ==
  set_window(wm, id, window_event_push([window_get(wm, id) EXCEPT !.focused = TRUE],
                                       "OTHER"))

\* Mutant: the window that had the keyboard is told and keeps it.
ToldButNotTaken(wm, old) == window_post_event(wm, old, "OTHER")

\* A window that is minimized is refused; NONE takes the keyboard from all.
window_focus(wm, id) ==
  CASE id # WINDOW_ID_NONE /\ (~known(wm, id) \/ window_get(wm, id).minimized) -> wm
    [] id = window_focused(wm) -> wm
    [] id = WINDOW_ID_NONE -> unfocused(wm, window_focused(wm))
    [] OTHER -> focused_on(unfocused(wm, window_focused(wm)), id)

window_route_key(wm, key) ==
  window_post_event(wm, window_focused(wm), key)

\* Mutant: every event goes to what is under the pointer now.
NobodyKeepsIt(wm, type, at) == window_hit_test(wm, at)

\* A press goes to the window under it, which keeps the pointer until the
\* release; without a window that keeps it, whatever is under it hears it.
pointer_target(wm, type, at) ==
  IF type # "DOWN" /\ known(wm, wm.capture) THEN wm.capture
  ELSE window_hit_test(wm, at)

window_route_pointer(wm, type, at) ==
  LET target == pointer_target(wm, type, at)
      pressed == IF type = "DOWN" THEN window_focus(wm, target) ELSE wm
      holder == CASE type = "DOWN" -> target
                  [] type = "UP" -> WINDOW_ID_NONE
                  [] type = "MOVE" -> IF known(wm, wm.capture) THEN wm.capture
                                      ELSE WINDOW_ID_NONE
  IN  [window_post_event(pressed, target, type) EXCEPT !.capture = holder]

\* window_next_event: what the queue gives, and the manager without it.
next_event(wm, id) == Head(window_get(wm, id).events)
popped(wm, id) ==
  set_window(wm, id, [window_get(wm, id) EXCEPT !.events = Tail(@)])
emptied(wm, id) ==
  IF known(wm, id) THEN set_window(wm, id, [window_get(wm, id) EXCEPT !.events = <<>>])
  ELSE wm

----------------------------------------------------------------------------
(* What the table is worth *)

\* An identifier names one window, one window at most has the keyboard, and the
\* pointer is kept by a live one.
TableIsSound(wm) ==
  /\ \A s, t \in Slots : (wm.slots[s].id = wm.slots[t].id /\ s # t)
                            => wm.slots[s].id = WINDOW_ID_NONE
  /\ Cardinality({s \in Slots : wm.slots[s].focused}) <= 1
  /\ \A s \in Slots : wm.slots[s].focused => wm.slots[s].id # WINDOW_ID_NONE
  /\ wm.capture \in LiveIds(wm) \cup {WINDOW_ID_NONE}

WindowType ==
  [id : WindowId \cup {WINDOW_ID_NONE},
   geometry : [x : Int, y : Int, width : Nat, height : Nat],
   focused : BOOLEAN, minimized : BOOLEAN, surface : Nat,
   events : Seq(EventTypes)]

ManagerTypeOK(wm) ==
  /\ \A s \in Slots : /\ wm.slots[s] \in WindowType
                      /\ Len(wm.slots[s].events) <= WINDOW_EVENT_CAPACITY
  /\ wm.next_id \in WindowId
  /\ wm.capture \in WindowId \cup {WINDOW_ID_NONE}
=============================================================================
