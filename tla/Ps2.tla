-------------------------------- MODULE Ps2 ---------------------------------
(***************************************************************************)
(* Keyboard and mouse, as bytes of one controller that is polled: kbd.c    *)
(* keeps a prefix and the two modifiers between bytes, mouse.c puts three  *)
(* bytes together into a packet and finds its place again after one is     *)
(* lost.                                                                   *)
(***************************************************************************)
EXTENDS Integers, Sequences, SequencesExt

CONSTANTS ControllerRoom    \* external: bytes the controller holds

ASSUME Ps2Assumption == ControllerRoom \in Nat \ {0}

VARIABLES controller,   \* external: the bytes waiting, of either device
          held,         \* external: the modifiers that are down
          sends,        \* external: the byte of a packet the mouse sends next
          kbd,          \* the state kbd_poll keeps
          mouse,        \* the state mouse_poll keeps: how much of a packet it has
          key,          \* what kbd_poll handed over last
          sound         \* ghost: packets of small movements since a byte was lost

ps2_vars == <<controller, held, sends, kbd, mouse, key, sound>>

\* <<after a prefix, make code>>
Shifts == {<<FALSE, "LEFT SHIFT">>, <<FALSE, "RIGHT SHIFT">>}
Controls == {<<FALSE, "CTRL">>, <<TRUE, "CTRL">>}
Arrows == {<<TRUE, "UP">>}
Characters == {<<FALSE, "6">>}
KeyCodes == Shifts \cup Controls \cup Arrows \cup Characters
Prefix == "PREFIX"
NoKeyYet == [name |-> "NONE", ctrl |-> FALSE, shift |-> FALSE, down |-> {}]

\* The first byte of a packet has its sync bit, and a byte of movement may have
\* that bit too. What a packet says of the movement is left out.
FirstBytes == {"FIRST"}
Movements == {"SMALL", "LIKE A FIRST BYTE"}
has_sync(byte) == byte # "SMALL"

Known == 1           \* packets after which the reader has found its place

----------------------------------------------------------------------------
(* The devices *)

KeyByte(code, up) == [from |-> "KEYBOARD", code |-> code, up |-> up, down |-> held]
MouseByte(byte) == [from |-> "MOUSE", code |-> byte, up |-> FALSE, down |-> {}]
bytes_of(k, up) == (IF k[1] THEN <<KeyByte(Prefix, FALSE)>> ELSE <<>>) \o <<KeyByte(k[2], up)>>

KeyMoves ==
  \E k \in KeyCodes, up \in BOOLEAN :
     /\ k \in Shifts \cup Controls => up = (k \in held)
     /\ controller' = controller \o bytes_of(k, up)
     /\ Len(controller') <= ControllerRoom
     /\ held' = IF k \notin Shifts \cup Controls THEN held
               ELSE IF up THEN held \ {k} ELSE held \cup {k}
     /\ UNCHANGED <<sends, kbd, mouse, key, sound>>

\* A byte may never arrive. After that the reader finds its place by packets of
\* small movements.
MouseSends ==
  \E byte \in IF sends = 0 THEN FirstBytes ELSE Movements, lost \in BOOLEAN :
     /\ controller' = IF lost THEN controller ELSE Append(controller, MouseByte(byte))
     /\ Len(controller') <= ControllerRoom
     /\ sends' = (sends + 1) % 3
     /\ sound' = IF lost \/ (sends # 0 /\ byte # "SMALL" /\ sound < Known) THEN -1
                ELSE IF sends = 2 /\ sound < Known THEN sound + 1 ELSE sound
     /\ UNCHANGED <<held, kbd, mouse, key>>

----------------------------------------------------------------------------
(* kbd.c *)

\* Mutant: releases of control are dropped as those of other keys are.
OnlyPresses(byte, ctrl) == IF byte.code = "CTRL" /\ ~byte.up THEN TRUE ELSE ctrl

kbd_ctrl_after(byte, ctrl) == IF byte.code = "CTRL" THEN ~byte.up ELSE ctrl
kbd_shift_after(byte, shift) == IF byte.code \in {"LEFT SHIFT", "RIGHT SHIFT"} THEN ~byte.up ELSE shift

kbd_translate(byte) == byte.code = "6" /\ ~byte.up
kbd_translate_extended(byte) == byte.code = "UP" /\ ~byte.up

waiting(from) == controller # <<>> /\ Head(controller).from = from

\* The keys that were down when the byte was sent go along as a ghost.
handed_over(byte, state) ==
  [name |-> byte.code, ctrl |-> state.ctrl, shift |-> state.shift, down |-> byte.down]

\* A prefix says of the byte after it alone that it is one of the other keys.
kbd_after(state, byte) ==
  [extended |-> byte.code = Prefix,
   ctrl |-> kbd_ctrl_after(byte, state.ctrl),
   shift |-> IF state.extended THEN state.shift ELSE kbd_shift_after(byte, state.shift)]

kbd_poll ==
  /\ waiting("KEYBOARD")
  /\ LET byte == Head(controller)
         after == kbd_after(kbd, byte)
         known == IF kbd.extended THEN kbd_translate_extended(byte) ELSE kbd_translate(byte)
     IN  /\ kbd' = after
         /\ key' = IF known THEN handed_over(byte, after) ELSE NoKeyYet
  /\ controller' = Tail(controller)
  /\ UNCHANGED <<held, sends, mouse, sound>>

----------------------------------------------------------------------------
(* mouse.c *)

starts_a_packet(byte) == has_sync(byte)

\* How much of a packet there is after one more byte. A packet is complete with its
\* third, and starts over whether or not it can be decoded.
have_after(have, byte) == IF have = 0 /\ ~starts_a_packet(byte) THEN 0 ELSE (have + 1) % 3

\* One turn of the loop in mouse_poll.
mouse_poll ==
  /\ waiting("MOUSE")
  /\ mouse' = have_after(mouse, Head(controller).code)
  /\ controller' = Tail(controller)
  /\ UNCHANGED <<held, sends, kbd, key, sound>>

Ps2Init ==
  /\ controller = <<>> /\ held = {} /\ sends = 0 /\ sound = Known
  /\ kbd = [extended |-> FALSE, shift |-> FALSE, ctrl |-> FALSE]
  /\ mouse = 0 /\ key = NoKeyYet

Ps2Next == KeyMoves \/ MouseSends \/ kbd_poll \/ mouse_poll

----------------------------------------------------------------------------
(* Properties *)

Ps2TypeOK ==
  /\ Len(controller) <= ControllerRoom /\ held \subseteq Shifts \cup Controls
  /\ mouse \in 0..2 /\ sends \in 0..2 /\ sound \in -1..Known

\* No modifier sticks: a key that comes with control, or as the shifted one, was
\* pressed while such a key was down, however late the byte was read and
\* whichever of the two keys it was (kbd.c:182-199).
ModifiersWereHeld ==
  /\ key.ctrl => key.down \cap Controls # {}
  /\ key.shift => key.down \cap Shifts # {}

\* Where the reader will be in a packet once it has read the first n bytes waiting.
have_read[n \in 0..Len(controller)] ==
  IF n = 0 THEN mouse
  ELSE IF controller[n].from = "MOUSE" THEN have_after(have_read[n - 1], controller[n].code)
  ELSE have_read[n - 1]

\* One whole packet of small movements after the one a byte was lost from, the reader
\* is where the mouse is in its packet as soon as it has read what waits, and it
\* stays so, whatever the movements, until a byte is lost again (mouse.c:136-149).
BackInStep ==
  sound = Known => have_read[Len(controller)] = sends

\* What the two readers hand over is what the devices sent.
InputIsAsSent == ModifiersWereHeld /\ BackInStep
=============================================================================
