---------------------------- MODULE Parts_proofs ----------------------------
(***************************************************************************)
(* What parts of the system that run alone keep, whatever their sizes: the *)
(* bytes of the keyboard and the mouse are read as they were sent, the     *)
(* snake stays one body, the levels of the command line keep their buffers *)
(* and their output apart, the terminal shows the rows that were printed   *)
(* and adds to the line only what Tab may, a click in the game of mines    *)
(* opens a mine-free region to its edge, a landing in Tetris takes the     *)
(* full rows and no other, and a key of the editor makes one edit of its   *)
(* text.                                                                   *)
(***************************************************************************)
EXTENDS Ps2, Snake, Commands, Terminal, Mines, Tetris, Editor, Iteration_proofs, SequenceTheorems, FiniteSetTheorems

----------------------------------------------------------------------------
(* Keyboard and mouse (Ps2) *)

Ps2Spec == Ps2Init /\ [][Ps2Next]_ps2_vars

Codes == {"PREFIX", "LEFT SHIFT", "RIGHT SHIFT", "CTRL", "UP", "6", "FIRST", "SMALL",
          "LIKE A FIRST BYTE"}
ShiftCodes == {"LEFT SHIFT", "RIGHT SHIFT"}
ByteType == [from : {"KEYBOARD", "MOUSE"}, code : Codes, up : BOOLEAN,
             down : SUBSET (Shifts \cup Controls)]
ReaderType == [extended : BOOLEAN, ctrl : BOOLEAN, shift : BOOLEAN, have : 0..2]

\* Both readers, after one more byte.
Reader(k, have) == [extended |-> k.extended, ctrl |-> k.ctrl, shift |-> k.shift, have |-> have]
read_on(r, byte) ==
  IF byte.from = "KEYBOARD" THEN Reader(kbd_after(r, byte), r.have)
  ELSE [r EXCEPT !.have = have_after(r.have, byte.code)]

\* The readers along the bytes that wait.
Trail(q, f, start) ==
  /\ f \in [0..Len(q) -> ReaderType] /\ f[0] = start
  /\ \A i \in 1..Len(q) : f[i] = read_on(f[i - 1], q[i])

\* A reader to whom modifiers are down only when they are.
Knows(r, down) ==
  /\ r.ctrl => down \cap Controls # {}
  /\ r.shift => down \cap Shifts # {}

\* The same at each byte of the keyboard that waits, for the time it was sent at; and
\* a shift key is never the byte after a prefix.
Heard(q, f) ==
  \A i \in 1..Len(q) : q[i].from = "KEYBOARD" =>
     /\ Knows(f[i - 1], q[i].down)
     /\ f[i - 1].extended => q[i].code \notin ShiftCodes

\* Where the mouse's packets and the reader's have to meet.
InStep(have, sent, after) ==
  /\ after = Known => have = sent
  /\ (after = 0 /\ sent = 2) => have \in {0, 2}

Follows(f) ==
  /\ Trail(controller, f, Reader(kbd, mouse)) /\ Heard(controller, f)
  /\ Knows(f[Len(controller)], held) /\ ~f[Len(controller)].extended
  /\ InStep(f[Len(controller)].have, sends, sound)

Ps2Inv ==
  /\ controller \in Seq(ByteType) /\ held \in SUBSET (Shifts \cup Controls)
  /\ sends \in 0..2 /\ sound \in -1..Known /\ mouse \in 0..2
  /\ kbd \in [extended : BOOLEAN, shift : BOOLEAN, ctrl : BOOLEAN]
  /\ ModifiersWereHeld
  /\ \E f : Follows(f)

\* Of the bytes read, each leaves the readers a state of their type.
LEMMA ReadsOn ==
  ASSUME NEW r \in ReaderType, NEW byte \in ByteType
  PROVE  read_on(r, byte) \in ReaderType
<1>1. CASE byte.from = "KEYBOARD"
  <2>1. /\ (byte.code = Prefix) \in BOOLEAN /\ kbd_ctrl_after(byte, r.ctrl) \in BOOLEAN
        /\ kbd_shift_after(byte, r.shift) \in BOOLEAN /\ r.shift \in BOOLEAN
    BY DEF ReaderType, ByteType, kbd_ctrl_after, kbd_shift_after
  <2>2. r.have \in 0..2
    BY DEF ReaderType
  <2> QED
    BY <1>1, <2>1, <2>2 DEF read_on, Reader, kbd_after, ReaderType
<1>2. CASE byte.from # "KEYBOARD"
  <2>1. have_after(r.have, byte.code) \in 0..2
    BY DEF ReaderType, have_after
  <2> QED
    BY <1>2, <2>1 DEF read_on, ReaderType
<1> QED
  BY <1>1, <1>2

\* One more byte waits.
LEMMA SentTrail ==
  ASSUME NEW q \in Seq(ByteType), NEW f, NEW start, Trail(q, f, start), Heard(q, f),
         NEW byte \in ByteType,
         byte.from = "KEYBOARD" =>
           /\ Knows(f[Len(q)], byte.down)
           /\ f[Len(q)].extended => byte.code \notin ShiftCodes
  PROVE  /\ Append(q, byte) \in Seq(ByteType) /\ Len(Append(q, byte)) = Len(q) + 1
         /\ f[Len(q)] \in ReaderType
         /\ \E g : /\ Trail(Append(q, byte), g, start) /\ Heard(Append(q, byte), g)
                   /\ g[Len(q) + 1] = read_on(f[Len(q)], byte)
<1> DEFINE n == Len(q)
           next == read_on(f[n], byte)
           g == [i \in 0..(n + 1) |-> IF i <= n THEN f[i] ELSE next]
           p == Append(q, byte)
<1>1. n \in Nat /\ f \in [0..n -> ReaderType] /\ f[0] = start
      /\ \A i \in 1..n : f[i] = read_on(f[i - 1], q[i])
  BY DEF Trail
<1>2. p \in Seq(ByteType) /\ Len(p) = n + 1 /\ p[n + 1] = byte /\ \A i \in 1..n : p[i] = q[i]
  OBVIOUS
<1>3. f[n] \in ReaderType /\ next \in ReaderType
  BY <1>1, ReadsOn
<1> HIDE DEF n, next, p
<1>4. /\ g \in [0..(n + 1) -> ReaderType] /\ g[0] = start /\ g[n + 1] = next
      /\ \A i \in 0..n : g[i] = f[i]
  BY <1>1, <1>3
<1> HIDE DEF g
<1>5. ASSUME NEW i \in 1..(n + 1)
      PROVE  /\ g[i] = read_on(g[i - 1], p[i])
             /\ p[i].from = "KEYBOARD" => /\ Knows(g[i - 1], p[i].down)
                                          /\ g[i - 1].extended => p[i].code \notin ShiftCodes
  <2>1. CASE i \in 1..n
    <3>1. i - 1 \in 0..n /\ i \in 0..n
      BY <1>1, <2>1
    <3>2. g[i - 1] = f[i - 1] /\ g[i] = f[i] /\ p[i] = q[i]
      BY <1>2, <1>4, <2>1, <3>1
    <3> QED
      BY <1>1, <2>1, <3>2 DEF Heard, n
  <2>2. CASE i = n + 1
    <3>1. i - 1 = n /\ n \in 0..n
      BY <1>1, <2>2
    <3>2. g[i - 1] = f[n] /\ p[i] = byte /\ g[i] = next
      BY <1>2, <1>4, <2>2, <3>1
    <3> QED
      BY <3>2 DEF next, n
  <2> QED
    BY <1>1, <2>1, <2>2
<1>6. Trail(p, g, start)
  BY <1>2, <1>4, <1>5 DEF Trail
<1>7. Heard(p, g)
  BY <1>2, <1>5 DEF Heard
<1>8. g[Len(q) + 1] = read_on(f[Len(q)], byte)
  BY <1>4 DEF n, next
<1> QED
  BY <1>2, <1>3, <1>6, <1>7, <1>8 DEF p, n

\* The first byte that waits is read.
LEMMA ReadTrail ==
  ASSUME NEW q \in Seq(ByteType), q # <<>>, NEW f, NEW start, Trail(q, f, start), Heard(q, f)
  PROVE  /\ Tail(q) \in Seq(ByteType) /\ Head(q) \in ByteType /\ start \in ReaderType
         /\ Head(q).from = "KEYBOARD" => /\ Knows(start, Head(q).down)
                                         /\ start.extended => Head(q).code \notin ShiftCodes
         /\ \E g : /\ Trail(Tail(q), g, read_on(start, Head(q))) /\ Heard(Tail(q), g)
                   /\ g[Len(Tail(q))] = f[Len(q)]
<1> DEFINE n == Len(q)
           p == Tail(q)
           g == [i \in 0..(n - 1) |-> f[i + 1]]
<1>1. n \in Nat /\ n >= 1 /\ f \in [0..n -> ReaderType] /\ f[0] = start
      /\ \A i \in 1..n : f[i] = read_on(f[i - 1], q[i])
  BY DEF Trail
<1>2. p \in Seq(ByteType) /\ Len(p) = n - 1 /\ Head(q) = q[1] /\ \A i \in 1..(n - 1) : p[i] = q[i + 1]
  BY <1>1
<1>3. q[1] \in ByteType /\ 1 \in 1..n
  BY <1>1
<1>4. f[1] = read_on(start, Head(q)) /\ start \in ReaderType
  <2>1. 1 - 1 = 0 /\ 0 \in 0..n
    BY <1>1
  <2> QED
    BY <1>1, <1>2, <1>3, <2>1
<1> HIDE DEF n, p
<1>5. g \in [0..(n - 1) -> ReaderType] /\ g[0] = f[1] /\ \A i \in 0..(n - 1) : g[i] = f[i + 1]
  BY <1>1
<1> HIDE DEF g
<1>6. ASSUME NEW i \in 1..(n - 1)
      PROVE  /\ g[i] = read_on(g[i - 1], p[i])
             /\ p[i].from = "KEYBOARD" => /\ Knows(g[i - 1], p[i].down)
                                          /\ g[i - 1].extended => p[i].code \notin ShiftCodes
  <2>1. i + 1 \in 1..n /\ i \in 0..(n - 1) /\ i - 1 \in 0..(n - 1)
        /\ (i + 1) - 1 = i /\ (i - 1) + 1 = i
    BY <1>1
  <2>2. g[i] = f[i + 1] /\ g[i - 1] = f[i] /\ p[i] = q[i + 1]
    BY <1>2, <1>5, <2>1
  <2>3. f[i + 1] = read_on(f[i], q[i + 1])
    BY <1>1, <2>1
  <2>4. q[i + 1].from = "KEYBOARD" => /\ Knows(f[i], q[i + 1].down)
                                      /\ f[i].extended => q[i + 1].code \notin ShiftCodes
    BY <2>1 DEF Heard, n
  <2> QED
    BY <2>2, <2>3, <2>4
<1>7. Trail(p, g, read_on(start, Head(q)))
  BY <1>2, <1>4, <1>5, <1>6 DEF Trail
<1>8. Heard(p, g)
  BY <1>2, <1>6 DEF Heard
<1>9. g[Len(p)] = f[n]
  <2>1. n - 1 \in 0..(n - 1) /\ (n - 1) + 1 = n
    BY <1>1
  <2> QED
    BY <1>2, <1>5, <2>1
<1>10. Head(q).from = "KEYBOARD" => /\ Knows(start, Head(q).down)
                                    /\ start.extended => Head(q).code \notin ShiftCodes
  <2>1. 1 - 1 = 0
    OBVIOUS
  <2> QED
    BY <1>1, <1>2, <1>3, <2>1 DEF Heard, n
<1> QED
  BY <1>2, <1>3, <1>4, <1>7, <1>8, <1>9, <1>10 DEF p, n

\* A key is of one kind.
LEMMA KeyIs ==
  ASSUME NEW k \in KeyCodes
  PROVE  /\ k[1] \in BOOLEAN /\ k[2] \in Codes \ {"PREFIX"}
         /\ k[2] \in ShiftCodes <=> k \in Shifts
         /\ k[2] = "CTRL" <=> k \in Controls
         /\ k[1] => k[2] \notin ShiftCodes
         /\ ~(k \in Shifts /\ k \in Controls)
<1>1. ASSUME NEW x \in Shifts PROVE x[1] = FALSE /\ x[2] \in ShiftCodes
  <2>1. x = <<FALSE, "LEFT SHIFT">> \/ x = <<FALSE, "RIGHT SHIFT">>
    BY DEF Shifts
  <2>2. CASE x = <<FALSE, "LEFT SHIFT">>
    <3>1. x[1] = FALSE /\ x[2] = "LEFT SHIFT"
      BY <2>2
    <3> QED
      BY <3>1 DEF ShiftCodes
  <2>3. CASE x = <<FALSE, "RIGHT SHIFT">>
    <3>1. x[1] = FALSE /\ x[2] = "RIGHT SHIFT"
      BY <2>3
    <3> QED
      BY <3>1 DEF ShiftCodes
  <2> QED
    BY <2>1, <2>2, <2>3
<1>2. ASSUME NEW x \in Controls PROVE x[1] \in BOOLEAN /\ x[2] = "CTRL"
  <2>1. x = <<FALSE, "CTRL">> \/ x = <<TRUE, "CTRL">>
    BY DEF Controls
  <2>2. CASE x = <<FALSE, "CTRL">>
    <3>1. x[1] = FALSE /\ x[2] = "CTRL"
      BY <2>2
    <3> QED
      BY <3>1 DEF ShiftCodes
  <2>3. CASE x = <<TRUE, "CTRL">>
    <3>1. x[1] = TRUE /\ x[2] = "CTRL"
      BY <2>3
    <3> QED
      BY <3>1 DEF ShiftCodes
  <2> QED
    BY <2>1, <2>2, <2>3
<1>3. ASSUME NEW x \in Arrows \cup Characters PROVE x[1] \in BOOLEAN /\ x[2] \in {"UP", "6"}
  <2>1. x = <<TRUE, "UP">> \/ x = <<FALSE, "6">>
    BY DEF Arrows, Characters
  <2>2. CASE x = <<TRUE, "UP">>
    <3>1. x[1] = TRUE /\ x[2] = "UP"
      BY <2>2
    <3> QED
      BY <3>1 DEF ShiftCodes
  <2>3. CASE x = <<FALSE, "6">>
    <3>1. x[1] = FALSE /\ x[2] = "6"
      BY <2>3
    <3> QED
      BY <3>1 DEF ShiftCodes
  <2> QED
    BY <2>1, <2>2, <2>3
<1>4. k \in Shifts \/ k \in Controls \/ k \in Arrows \cup Characters
  BY DEF KeyCodes
<1> QED
  BY <1>1, <1>2, <1>3, <1>4 DEF Codes, ShiftCodes

\* Neither reader changes what the other has.
LEMMA ReaderFields ==
  ASSUME NEW k \in [extended : BOOLEAN, shift : BOOLEAN, ctrl : BOOLEAN], NEW have \in 0..2
  PROVE  /\ Reader(k, have) \in ReaderType /\ Reader(k, have).have = have
         /\ Reader(k, have).extended = k.extended
         /\ Reader(k, have).ctrl = k.ctrl /\ Reader(k, have).shift = k.shift
BY DEF Reader, ReaderType

\* A key moves: what it sends is in order.
LEMMA KeySends ==
  ASSUME Ps2Inv, NEW k \in KeyCodes, NEW up \in BOOLEAN,
         k \in Shifts \cup Controls => up = (k \in held),
         controller' = controller \o bytes_of(k, up),
         held' = IF k \notin Shifts \cup Controls THEN held
                 ELSE IF up THEN held \ {k} ELSE held \cup {k},
         UNCHANGED <<sends, kbd, mouse, key, sound>>
  PROVE  Ps2Inv'
<1> DEFINE q == controller
           n == Len(q)
           start == Reader(kbd, mouse)
           byte == KeyByte(k[2], up)
           Ready(p, g) == /\ p \in Seq(ByteType) /\ Trail(p, g, start) /\ Heard(p, g)
                          /\ Knows(g[Len(p)], held)
                          /\ (g[Len(p)].extended <=> k[1]) /\ g[Len(p)] \in ReaderType
                          /\ InStep(g[Len(p)].have, sends, sound)
<1>1. PICK f : Follows(f)
  BY DEF Ps2Inv
<1>2. /\ q \in Seq(ByteType) /\ Trail(q, f, start) /\ Heard(q, f) /\ Knows(f[n], held)
      /\ ~f[n].extended /\ InStep(f[n].have, sends, sound)
  BY <1>1 DEF Ps2Inv, Follows
<1>3. /\ k[1] \in BOOLEAN /\ k[2] \in Codes \ {"PREFIX"}
      /\ k[2] \in ShiftCodes <=> k \in Shifts
      /\ k[2] = "CTRL" <=> k \in Controls
      /\ k[1] => k[2] \notin ShiftCodes
      /\ ~(k \in Shifts /\ k \in Controls)
  BY KeyIs
<1>4. byte \in ByteType /\ byte.from = "KEYBOARD" /\ byte.code = k[2] /\ byte.up = up /\ byte.down = held
  BY <1>3 DEF KeyByte, ByteType, Ps2Inv
<1> HIDE DEF byte
<1>5. \E p, g : Ready(p, g) /\ controller' = Append(p, byte)
  <2>1. CASE ~k[1]
    <3>1. controller' = Append(q, byte)
      BY <1>2, <2>1 DEF bytes_of, byte
    <3>2. f[n] \in ReaderType
      BY <1>2 DEF Trail
    <3>3. Ready(q, f)
      BY <1>2, <2>1, <3>2
    <3> QED
      BY <3>1, <3>3
  <2>2. CASE k[1]
    <3> DEFINE prefix == KeyByte(Prefix, FALSE)
               p == Append(q, prefix)
    <3>1. /\ prefix \in ByteType /\ prefix.from = "KEYBOARD" /\ prefix.code = "PREFIX"
          /\ prefix.down = held
      BY DEF KeyByte, Prefix, ByteType, Ps2Inv, Codes
    <3>2. controller' = Append(p, byte)
      <4>1. bytes_of(k, up) = <<prefix>> \o <<byte>>
        BY <2>2 DEF bytes_of, byte
      <4> HIDE DEF prefix
      <4>2. q \o (<<prefix>> \o <<byte>>) = Append(Append(q, prefix), byte)
        BY <1>2, <1>4, <3>1
      <4> QED
        BY <4>1, <4>2
    <3> HIDE DEF prefix
    <3>3. PICK g : /\ Trail(p, g, start) /\ Heard(p, g) /\ g[n + 1] = read_on(f[n], prefix)
      BY <1>2, <3>1, SentTrail
    <3>4. p \in Seq(ByteType) /\ Len(p) = n + 1 /\ f[n] \in ReaderType
      BY <1>2, <3>1, SentTrail
    <3>5. /\ g[n + 1].extended = TRUE /\ g[n + 1].ctrl = f[n].ctrl /\ g[n + 1].shift = f[n].shift
          /\ g[n + 1].have = f[n].have
      <4>1. g[n + 1] = Reader(kbd_after(f[n], prefix), f[n].have)
        BY <3>1, <3>3 DEF read_on
      <4>2. kbd_after(f[n], prefix) = [extended |-> TRUE, ctrl |-> f[n].ctrl, shift |-> f[n].shift]
        BY <1>2, <3>1, <3>4 DEF kbd_after, kbd_ctrl_after, kbd_shift_after, Prefix, ReaderType
      <4> QED
        BY <4>1, <4>2 DEF Reader
    <3>6. g[n + 1] \in ReaderType
      BY <3>1, <3>3, <3>4, ReadsOn
    <3> HIDE DEF p
    <3>7. Ready(p, g)
      BY <1>2, <2>2, <3>3, <3>4, <3>5, <3>6 DEF Knows
    <3> QED
      BY <3>2, <3>7 DEF p
  <2> QED
    BY <1>3, <2>1, <2>2
<1>6. PICK p, g : Ready(p, g) /\ controller' = Append(p, byte)
  BY <1>5
<1> DEFINE m == Len(p)
           last_one == read_on(g[m], byte)
<1>7. PICK h : Trail(Append(p, byte), h, start) /\ Heard(Append(p, byte), h) /\ h[m + 1] = last_one
  BY <1>3, <1>4, <1>6, SentTrail
<1>8. controller' \in Seq(ByteType) /\ Len(controller') = m + 1
  BY <1>4, <1>6
<1>9. /\ last_one.ctrl = (IF k[2] = "CTRL" THEN ~up ELSE g[m].ctrl)
      /\ last_one.shift = (IF k[2] \in ShiftCodes /\ ~k[1] THEN ~up ELSE g[m].shift)
      /\ last_one.extended = FALSE /\ last_one.have = g[m].have
  BY <1>3, <1>4, <1>6 DEF read_on, Reader, kbd_after, kbd_ctrl_after, kbd_shift_after, Prefix, ShiftCodes
<1>10. held' \in SUBSET (Shifts \cup Controls)
  BY DEF Ps2Inv
<1>11. Knows(last_one, held')
  <2>1. Knows(g[m], held)
    BY <1>6
  <2>2. CASE k \in Controls
    <3>1. k \notin Shifts /\ k[2] = "CTRL" /\ k[2] \notin ShiftCodes
      BY <1>3, <2>2
    <3> QED
      BY <1>9, <2>1, <2>2, <3>1 DEF Knows
  <2>3. CASE k \in Shifts
    <3>1. k \notin Controls /\ k[2] # "CTRL" /\ k[2] \in ShiftCodes /\ ~k[1]
      BY <1>3, <2>3
    <3> QED
      BY <1>9, <2>1, <2>3, <3>1 DEF Knows
  <2>4. CASE k \notin Shifts \cup Controls
    <3>1. k[2] # "CTRL" /\ k[2] \notin ShiftCodes /\ held' = held
      BY <1>3, <2>4
    <3> QED
      BY <1>9, <2>1, <3>1 DEF Knows
  <2> QED
    BY <2>2, <2>3, <2>4
<1>12. InStep(last_one.have, sends', sound')
  BY <1>6, <1>9 DEF InStep
<1>13. Reader(kbd, mouse)' = start
  OBVIOUS
<1> HIDE DEF last_one, start, q, n
<1>14. Follows(h)'
  <2>1. h[Len(controller')] = last_one
    BY <1>7, <1>8
  <2>2. Trail(controller', h, start) /\ Heard(controller', h)
    BY <1>6, <1>7
  <2>3. Knows(h[Len(controller')], held') /\ ~h[Len(controller')].extended
    BY <1>9, <1>11, <2>1
  <2>4. InStep(h[Len(controller')].have, sends', sound')
    BY <1>12, <2>1 DEF InStep
  <2> QED
    BY <1>13, <2>2, <2>3, <2>4 DEF Follows
<1> QED
  BY <1>8, <1>10, <1>14 DEF Ps2Inv, ModifiersWereHeld

\* The mouse sends: what is read of it stays in step, or comes into it.
LEMMA MousePacketsMeet ==
  ASSUME Ps2Inv, MouseSends
  PROVE  Ps2Inv'
<1> DEFINE q == controller
           n == Len(q)
           start == Reader(kbd, mouse)
<1>1. PICK code \in IF sends = 0 THEN FirstBytes ELSE Movements, lost \in BOOLEAN :
         /\ controller' = IF lost THEN controller ELSE Append(controller, MouseByte(code))
         /\ sends' = (sends + 1) % 3
         /\ sound' = IF lost \/ (sends # 0 /\ code # "SMALL" /\ sound < Known) THEN -1
                     ELSE IF sends = 2 /\ sound < Known THEN sound + 1 ELSE sound
         /\ UNCHANGED <<held, kbd, mouse, key>>
  BY DEF MouseSends
<1>2. PICK f : Follows(f)
  BY DEF Ps2Inv
<1>3. /\ q \in Seq(ByteType) /\ Trail(q, f, start) /\ Heard(q, f) /\ Knows(f[n], held)
      /\ ~f[n].extended /\ InStep(f[n].have, sends, sound) /\ f[n] \in ReaderType
  BY <1>2 DEF Ps2Inv, Follows, Trail
<1>4. sends' \in 0..2 /\ sound' \in -1..Known
  BY <1>1 DEF Ps2Inv, Known
<1>5. Reader(kbd, mouse)' = start
  BY <1>1
<1>6. CASE lost
  <2>1. sound' = -1 /\ controller' = controller /\ held' = held
    BY <1>1, <1>6
  <2>2. InStep(f[n].have, sends', sound')
    BY <2>1 DEF InStep, Known
  <2>3. Follows(f)'
    <3>1. Len(controller') = n /\ Trail(controller', f, start) /\ Heard(controller', f)
          /\ Knows(f[n], held') /\ ~f[n].extended
      BY <1>3, <2>1
    <3> HIDE DEF n, start
    <3>2. InStep(f[Len(controller')].have, sends', sound')
      BY <2>2, <3>1 DEF InStep
    <3> QED
      BY <1>5, <3>1, <3>2 DEF Follows
  <2> QED
    BY <1>1, <1>4, <2>1, <2>3 DEF Ps2Inv, ModifiersWereHeld
<1>7. CASE ~lost
  <2> DEFINE byte == MouseByte(code)
             last_one == read_on(f[n], byte)
  <2>1. byte \in ByteType /\ byte.from = "MOUSE" /\ byte.code = code
    BY <1>1 DEF MouseByte, ByteType, FirstBytes, Movements, Codes
  <2> HIDE DEF byte
  <2>2. PICK g : /\ Trail(Append(q, byte), g, start) /\ Heard(Append(q, byte), g)
                 /\ g[n + 1] = last_one
    BY <1>3, <2>1, SentTrail
  <2>3. controller' = Append(q, byte) /\ controller' \in Seq(ByteType) /\ Len(controller') = n + 1
    BY <1>1, <1>3, <1>7, <2>1 DEF byte
  <2>4. /\ last_one.ctrl = f[n].ctrl /\ last_one.shift = f[n].shift /\ ~last_one.extended
        /\ last_one.have = have_after(f[n].have, code)
    BY <1>3, <2>1 DEF read_on, ReaderType
  <2> DEFINE had == f[n].have
             has == last_one.have
  <2>5. had \in 0..2 /\ has = IF had = 0 /\ code = "SMALL" THEN 0 ELSE (had + 1) % 3
    BY <1>3, <2>4 DEF ReaderType, have_after, starts_a_packet, has_sync
  <2>6. InStep(had, sends, sound)
    BY <1>3
  <2> HIDE DEF had, has, last_one
  <2>7. InStep(has, sends', sound')
    <3>1. sends \in 0..2 /\ sound \in -1..1
      BY DEF Ps2Inv, Known
    <3>2. CASE sends = 0
      <4>1. code # "SMALL" /\ sends' = 1 /\ sound' = sound
        BY <1>1, <1>7, <3>2 DEF FirstBytes
      <4> QED
        BY <2>5, <2>6, <3>1, <3>2, <4>1 DEF InStep, Known
    <3>3. CASE sends = 1
      <4>1. sends' = 2 /\ sound' = IF code # "SMALL" /\ sound < 1 THEN -1 ELSE sound
        BY <1>1, <1>7, <3>1, <3>3 DEF Known
      <4> QED
        BY <2>5, <2>6, <3>1, <3>3, <4>1 DEF InStep, Known
    <3>4. CASE sends = 2
      <4>1. sends' = 0 /\ sound' = IF code # "SMALL" /\ sound < 1 THEN -1
                                   ELSE IF sound < 1 THEN sound + 1 ELSE sound
        BY <1>1, <1>7, <3>1, <3>4 DEF Known
      <4> QED
        BY <2>5, <2>6, <3>1, <3>4, <4>1 DEF InStep, Known
    <3> QED
      BY <3>1, <3>2, <3>3, <3>4
  <2>8. Follows(g)'
    <3>1. Trail(controller', g, start) /\ Heard(controller', g) /\ g[Len(controller')] = last_one
      BY <2>2, <2>3
    <3>2. Knows(last_one, held')
      BY <1>1, <1>3, <2>4 DEF Knows
    <3> HIDE DEF start
    <3>3. InStep(g[Len(controller')].have, sends', sound')
      BY <2>7, <3>1 DEF InStep, has
    <3> QED
      BY <1>5, <2>4, <3>1, <3>2, <3>3 DEF Follows
  <2> QED
    BY <1>1, <1>4, <2>3, <2>8 DEF Ps2Inv, ModifiersWereHeld
<1> QED
  BY <1>6, <1>7

\* A byte is read, by the reader it is for.
LEMMA OneIsRead ==
  ASSUME Ps2Inv, controller # <<>>, controller' = Tail(controller), UNCHANGED <<held, sends, sound>>,
         kbd' \in [extended : BOOLEAN, shift : BOOLEAN, ctrl : BOOLEAN], mouse' \in 0..2,
         Reader(kbd', mouse') = read_on(Reader(kbd, mouse), Head(controller)),
         ModifiersWereHeld'
  PROVE  Ps2Inv'
<1> DEFINE start == Reader(kbd, mouse)
           q == controller
<1>1. PICK f : Follows(f)
  BY DEF Ps2Inv
<1>2. q \in Seq(ByteType) /\ Trail(q, f, start) /\ Heard(q, f)
  BY <1>1 DEF Ps2Inv, Follows
<1> HIDE DEF start
<1>3. PICK g : /\ Trail(Tail(q), g, read_on(start, Head(q))) /\ Heard(Tail(q), g)
               /\ g[Len(Tail(q))] = f[Len(q)]
  BY <1>2, ReadTrail
<1>4. Tail(q) \in Seq(ByteType)
  BY <1>2
<1>5. Follows(g)'
  <2>1. /\ Knows(g[Len(Tail(q))], held) /\ ~g[Len(Tail(q))].extended
        /\ InStep(g[Len(Tail(q))].have, sends, sound)
    BY <1>1, <1>3 DEF Follows
  <2>2. Reader(kbd, mouse)' = read_on(start, Head(q))
    BY DEF start
  <2> QED
    BY <1>3, <2>1, <2>2 DEF Follows
<1> QED
  BY <1>4, <1>5 DEF Ps2Inv

\* What the first byte is, and what the readers know before it is read.
LEMMA FirstByte ==
  ASSUME Ps2Inv, controller # <<>>
  PROVE  /\ Head(controller) \in ByteType
         /\ Head(controller).from = "KEYBOARD" => Knows(Reader(kbd, mouse), Head(controller).down)
<1>1. PICK f : Follows(f)
  BY DEF Ps2Inv
<1>2. controller \in Seq(ByteType) /\ Trail(controller, f, Reader(kbd, mouse)) /\ Heard(controller, f)
  BY <1>1 DEF Ps2Inv, Follows
<1> QED
  BY <1>2, ReadTrail

\* The invariant is kept when the keyboard's handler reads a byte.
LEMMA KeyIsRead ==
  ASSUME Ps2Inv, kbd_poll
  PROVE  Ps2Inv'
<1> DEFINE byte == Head(controller)
           start == Reader(kbd, mouse)
           after == kbd_after(kbd, byte)
<1>1. /\ controller # <<>> /\ byte.from = "KEYBOARD" /\ controller' = Tail(controller)
      /\ UNCHANGED <<held, sends, mouse, sound>> /\ kbd' = after
      /\ key' = (IF IF kbd.extended THEN kbd_translate_extended(byte) ELSE kbd_translate(byte)
                 THEN handed_over(byte, after) ELSE NoKeyYet)
  BY DEF kbd_poll, waiting
<1>2. kbd \in [extended : BOOLEAN, shift : BOOLEAN, ctrl : BOOLEAN] /\ mouse \in 0..2
  BY DEF Ps2Inv
<1>3. byte \in ByteType /\ Knows(start, byte.down)
  BY <1>1, FirstByte
<1>4. /\ start \in ReaderType /\ start.have = mouse /\ start.extended = kbd.extended
      /\ start.ctrl = kbd.ctrl /\ start.shift = kbd.shift
  BY <1>2, ReaderFields
<1> HIDE DEF start, byte
<1>5. kbd_after(start, byte) = after
  BY <1>4 DEF kbd_after
<1>6. /\ after.ctrl = kbd_ctrl_after(byte, kbd.ctrl)
      /\ after.shift = IF kbd.extended THEN kbd.shift ELSE kbd_shift_after(byte, kbd.shift)
  BY DEF kbd_after
<1>7. after \in [extended : BOOLEAN, shift : BOOLEAN, ctrl : BOOLEAN]
  <2>1. /\ (byte.code = Prefix) \in BOOLEAN /\ kbd_ctrl_after(byte, kbd.ctrl) \in BOOLEAN
        /\ kbd_shift_after(byte, kbd.shift) \in BOOLEAN /\ kbd.shift \in BOOLEAN
    BY <1>2, <1>3 DEF ByteType, kbd_ctrl_after, kbd_shift_after
  <2> QED
    BY <2>1 DEF kbd_after
<1> HIDE DEF after
<1>8. Reader(kbd', mouse') = read_on(start, byte)
  BY <1>1, <1>4, <1>5 DEF read_on
<1>9. ModifiersWereHeld'
  <2>1. CASE key' = NoKeyYet
    BY <2>1 DEF NoKeyYet, ModifiersWereHeld
  <2>2. CASE key' # NoKeyYet
    <3>1. key' = handed_over(byte, after) /\ (byte.code = "UP" \/ byte.code = "6")
      BY <1>1, <2>2 DEF kbd_translate, kbd_translate_extended
    <3>2. after.ctrl = kbd.ctrl /\ after.shift = kbd.shift
      BY <1>6, <3>1 DEF kbd_ctrl_after, kbd_shift_after
    <3>3. key'.ctrl = start.ctrl /\ key'.shift = start.shift /\ key'.down = byte.down
      BY <1>4, <3>1, <3>2 DEF handed_over
    <3> QED
      BY <1>3, <3>3 DEF ModifiersWereHeld, Knows
  <2> QED
    BY <2>1, <2>2
<1> QED
  BY <1>1, <1>2, <1>7, <1>8, <1>9, OneIsRead DEF start, byte

\* And when the mouse's does.
LEMMA MovementIsRead ==
  ASSUME Ps2Inv, mouse_poll
  PROVE  Ps2Inv'
<1> DEFINE byte == Head(controller)
           start == Reader(kbd, mouse)
<1>1. /\ controller # <<>> /\ byte.from = "MOUSE" /\ controller' = Tail(controller)
      /\ UNCHANGED <<held, sends, kbd, key, sound>> /\ mouse' = have_after(mouse, byte.code)
  BY DEF mouse_poll, waiting
<1>2. kbd \in [extended : BOOLEAN, shift : BOOLEAN, ctrl : BOOLEAN] /\ mouse \in 0..2
  BY DEF Ps2Inv
<1>3. mouse' \in 0..2
  BY <1>1, <1>2 DEF have_after
<1>4. Reader(kbd', mouse') = read_on(start, byte)
  BY <1>1, <1>2 DEF read_on, Reader
<1>5. ModifiersWereHeld'
  BY <1>1 DEF ModifiersWereHeld, Ps2Inv
<1> QED
  BY <1>1, <1>2, <1>3, <1>4, <1>5, OneIsRead

\* It holds at the start.
LEMMA Ps2Starts == Ps2Init => Ps2Inv
<1> SUFFICES ASSUME Ps2Init PROVE Ps2Inv
  OBVIOUS
<1> DEFINE start == Reader(kbd, mouse)
           f == [i \in 0..0 |-> start]
<1>1. /\ controller = <<>> /\ Len(controller) = 0 /\ held = {} /\ sends = 0 /\ sound = 1 /\ mouse = 0
      /\ kbd = [extended |-> FALSE, shift |-> FALSE, ctrl |-> FALSE] /\ key = NoKeyYet
  BY DEF Ps2Init, Known
<1>2. kbd \in [extended : BOOLEAN, shift : BOOLEAN, ctrl : BOOLEAN]
  BY <1>1
<1>3. start \in ReaderType /\ start.have = 0 /\ ~start.extended /\ ~start.ctrl /\ ~start.shift
  <2>1. kbd.extended = FALSE /\ kbd.ctrl = FALSE /\ kbd.shift = FALSE
    BY <1>1
  <2>2. mouse \in 0..2
    BY <1>1
  <2> QED
    BY <1>1, <1>2, <2>1, <2>2, ReaderFields
<1> HIDE DEF start
<1>4. f \in [0..0 -> ReaderType] /\ f[0] = start
  BY <1>3
<1> HIDE DEF f
<1>5. Trail(controller, f, start) /\ Heard(controller, f)
  BY <1>1, <1>4 DEF Trail, Heard
<1>6. Knows(f[0], held) /\ ~f[0].extended /\ InStep(f[0].have, sends, sound)
  BY <1>1, <1>3, <1>4 DEF Knows, InStep, Known
<1>7. Follows(f)
  BY <1>1, <1>5, <1>6 DEF Follows, start
<1>8. ModifiersWereHeld
  BY <1>1 DEF ModifiersWereHeld, NoKeyYet
<1>9. controller \in Seq(ByteType)
  BY <1>1
<1> QED
  BY <1>1, <1>2, <1>7, <1>8, <1>9 DEF Ps2Inv, Known

\* And after every step.
LEMMA Ps2Steps == Ps2Inv /\ [Ps2Next]_ps2_vars => Ps2Inv'
<1> SUFFICES ASSUME Ps2Inv, [Ps2Next]_ps2_vars PROVE Ps2Inv'
  OBVIOUS
<1>1. CASE KeyMoves
  <2>1. PICK k \in KeyCodes, up \in BOOLEAN :
           /\ k \in Shifts \cup Controls => up = (k \in held)
           /\ controller' = controller \o bytes_of(k, up)
           /\ held' = IF k \notin Shifts \cup Controls THEN held
                      ELSE IF up THEN held \ {k} ELSE held \cup {k}
           /\ UNCHANGED <<sends, kbd, mouse, key, sound>>
    BY <1>1 DEF KeyMoves
  <2> QED
    BY <2>1, KeySends
<1>2. CASE MouseSends
  BY <1>2, MousePacketsMeet
<1>3. CASE kbd_poll
  BY <1>3, KeyIsRead
<1>4. CASE mouse_poll
  BY <1>4, MovementIsRead
<1>5. CASE UNCHANGED ps2_vars
  BY <1>5 DEF ps2_vars, Ps2Inv, Follows, ModifiersWereHeld
<1> QED
  BY <1>1, <1>2, <1>3, <1>4, <1>5 DEF Ps2Next

\* The recursive definition is the reader's way along the bytes.
LEMMA HaveReadIs ==
  ASSUME NEW f, NEW start, start.have = mouse, controller \in Seq(ByteType),
         Trail(controller, f, start)
  PROVE  have_read[Len(controller)] = f[Len(controller)].have
<1> DEFINE n == Len(controller)
           Body(h) == [i \in 0..n |->
                         IF i = 0 THEN mouse
                         ELSE IF controller[i].from = "MOUSE"
                              THEN have_after(h[i - 1], controller[i].code) ELSE h[i - 1]]
           g == [i \in 0..n |-> f[i].have]
           Is(h) == h = Body(h)
<1>1. n \in Nat /\ f[0] = start /\ \A i \in 1..n : f[i] = read_on(f[i - 1], controller[i]) /\ f[i - 1] \in ReaderType
  BY DEF Trail
<1>2. ASSUME NEW i \in 1..n
      PROVE  f[i].have = IF controller[i].from = "MOUSE"
                         THEN have_after(f[i - 1].have, controller[i].code) ELSE f[i - 1].have
  <2>0. controller[i] \in ByteType
    OBVIOUS
  <2>1. controller[i].from = "KEYBOARD" \/ controller[i].from = "MOUSE"
    BY <2>0 DEF ByteType
  <2>2. f[i] = read_on(f[i - 1], controller[i]) /\ f[i - 1] \in ReaderType
    BY <1>1
  <2>3. CASE controller[i].from = "KEYBOARD"
    BY <2>2, <2>3 DEF read_on, Reader
  <2>4. CASE controller[i].from = "MOUSE"
    BY <2>2, <2>4 DEF read_on, ReaderType
  <2> QED
    BY <2>1, <2>3, <2>4
<1>3. Is(g)
  <2>1. ASSUME NEW i \in 0..n PROVE g[i] = Body(g)[i]
    <3>1. CASE i = 0
      BY <1>1, <3>1
    <3>2. CASE i # 0
      <4>1. i \in 1..n /\ i - 1 \in 0..n
        BY <1>1, <3>2
      <4> QED
        BY <1>2, <3>2, <4>1
    <3> QED
      BY <3>1, <3>2
  <2> QED
    BY <2>1
<1>4. have_read = CHOOSE h : Is(h)
  BY DEF have_read
<1> HIDE DEF Is
<1>5. Is(have_read)
  BY <1>3, <1>4
<1>6. \A i \in 0..n : have_read[i] = Body(have_read)[i]
  BY <1>5 DEF Is
<1>7. \A i \in Nat : i \in 0..n => have_read[i] = f[i].have
  <2> DEFINE Bad == {i \in Nat : i \in 0..n /\ have_read[i] # f[i].have}
  <2> SUFFICES ASSUME Bad # {} PROVE FALSE
    OBVIOUS
  <2>1. PICK i \in Bad : \A j \in Bad : i <= j
    BY LeastNat
  <2>2. i # 0
    BY <1>1, <1>6, <2>1
  <2>3. i - 1 \in Nat /\ i - 1 \in 0..n /\ i \in 1..n /\ i - 1 \notin Bad
    BY <2>1, <2>2
  <2>4. have_read[i - 1] = f[i - 1].have
    BY <2>3
  <2>5. have_read[i] = IF controller[i].from = "MOUSE"
                       THEN have_after(have_read[i - 1], controller[i].code) ELSE have_read[i - 1]
    BY <1>6, <2>1, <2>2
  <2> QED
    BY <1>2, <2>1, <2>3, <2>4, <2>5
<1> QED
  BY <1>1, <1>7

\* What the two readers hand over is what the devices sent, for any number of bytes
\* the controller holds: whatever waits, whichever of the two kinds of byte is read
\* first, and however often a byte of the mouse is lost (kbd_poll, mouse_poll).
THEOREM InputAsSent == Ps2Spec => []InputIsAsSent
<1>1. Ps2Inv => InputIsAsSent
  <2> SUFFICES ASSUME Ps2Inv, sound = Known PROVE have_read[Len(controller)] = sends
    BY DEF InputIsAsSent, BackInStep, Ps2Inv
  <2>1. PICK f : Follows(f)
    BY DEF Ps2Inv
  <2>2. Reader(kbd, mouse).have = mouse
    BY ReaderFields DEF Ps2Inv
  <2>3. controller \in Seq(ByteType)
    BY DEF Ps2Inv
  <2>4. have_read[Len(controller)] = f[Len(controller)].have
    BY <2>1, <2>2, <2>3, HaveReadIs DEF Follows
  <2> QED
    BY <2>1, <2>4 DEF Follows, InStep
<1> QED
  BY <1>1, Ps2Starts, Ps2Steps, PTL DEF Ps2Spec

----------------------------------------------------------------------------
(* Snake *)

SnakeSpec == SnakeInit /\ [][SnakeNext]_snake_vars

Places == 0..(MAX_CELLS - 1)
SnakeType == [taken : SUBSET Int, order : [Places -> Int], head_at : Places, tail_at : Places,
              length : 0..MAX_CELLS, dir : KeyDirections, turned : BOOLEAN, apple : Int]

\* A number in the ring.
ring(spot_at, k) == (spot_at + k) % MAX_CELLS

\* The sizes the lemmas below count with.
LEMMA Cells == MAX_CELLS \in Nat /\ MAX_CELLS >= 4 /\ SNAKE_MAX_COLS >= 4 /\ SNAKE_MAX_ROWS >= 1
<1>1. /\ SNAKE_MAX_COLS \in Nat /\ SNAKE_MAX_ROWS \in Nat
      /\ SNAKE_MAX_COLS >= 4 /\ SNAKE_MAX_ROWS >= 1
  BY SnakeAssumption
<1>2. \A a, b \in Nat : (a >= 4 /\ b >= 1) => a * b \in Nat /\ a * b >= 4
  BY SMT
<1> QED
  BY <1>1, <1>2 DEF MAX_CELLS

\* A remainder that goes once round at most.
Once(m, a) == a % m = (IF a < m THEN a ELSE a - m) /\ a % m \in 0..(m - 1)

\* A place less than two rounds away wraps at most once.
LEMMA OnceRound ==
  ASSUME NEW m \in Nat \ {0}, NEW a \in Nat, a < 2 * m
  PROVE  Once(m, a)
<1>1. a % m = (IF a < m THEN a ELSE a - m)
  BY SMT
<1> QED
  BY <1>1 DEF Once

\* The place k after t in the ring.
LEMMA RingIs ==
  ASSUME NEW t \in Places, NEW k \in 0..MAX_CELLS
  PROVE  /\ ring(t, k) = IF t + k < MAX_CELLS THEN t + k ELSE t + k - MAX_CELLS
         /\ ring(t, k) \in Places
<1>1. MAX_CELLS \in Nat \ {0} /\ t + k \in Nat /\ t + k < 2 * MAX_CELLS
  BY Cells DEF Places
<1>2. Once(MAX_CELLS, t + k)
  BY <1>1, OnceRound
<1> QED
  BY <1>1, <1>2, Cells DEF ring, Places, Once

\* Places of the ring that are not the same number after one are not the same.
LEMMA RingApart ==
  ASSUME NEW t \in Places, NEW j \in 0..(MAX_CELLS - 1), NEW k \in 0..(MAX_CELLS - 1), j # k
  PROVE  ring(t, j) # ring(t, k)
<1>1. j \in 0..MAX_CELLS /\ k \in 0..MAX_CELLS /\ t \in 0..(MAX_CELLS - 1) /\ MAX_CELLS \in Nat
  BY Cells DEF Places
<1>2. /\ ring(t, j) = IF t + j < MAX_CELLS THEN t + j ELSE t + j - MAX_CELLS
      /\ ring(t, k) = IF t + k < MAX_CELLS THEN t + k ELSE t + k - MAX_CELLS
  BY <1>1, RingIs
<1> QED
  BY <1>1, <1>2

\* The places after and before one, in those terms.
LEMMA RingNext ==
  ASSUME NEW t \in Places
  PROVE  /\ after_place(t) = ring(t, 1) /\ after_place(t) \in Places
         /\ before_place(t) \in Places
         /\ \A k \in 0..(MAX_CELLS - 1) : /\ after_place(ring(t, k)) = ring(t, k + 1)
                                          /\ ring(after_place(t), k) = ring(t, k + 1)
                                          /\ before_place(ring(t, k + 1)) = ring(t, k)
<1>1. after_place(t) = ring(t, 1) /\ after_place(t) \in Places /\ before_place(t) \in Places
  BY Cells, RingIs DEF Places, after_place, before_place
<1>2. ASSUME NEW k \in 0..(MAX_CELLS - 1)
      PROVE  /\ after_place(ring(t, k)) = ring(t, k + 1)
             /\ ring(after_place(t), k) = ring(t, k + 1)
             /\ before_place(ring(t, k + 1)) = ring(t, k)
  <2>1. k \in 0..MAX_CELLS /\ k + 1 \in 0..MAX_CELLS
    BY Cells
  <2>2. /\ ring(t, k) = IF t + k < MAX_CELLS THEN t + k ELSE t + k - MAX_CELLS
        /\ ring(t, k + 1) = IF t + (k + 1) < MAX_CELLS THEN t + (k + 1) ELSE t + (k + 1) - MAX_CELLS
    BY <2>1, RingIs
  <2>3. /\ after_place(t) = IF t + 1 >= MAX_CELLS THEN 0 ELSE t + 1
        /\ ring(after_place(t), k) = IF after_place(t) + k < MAX_CELLS THEN after_place(t) + k
                                     ELSE after_place(t) + k - MAX_CELLS
    BY <1>1, <2>1, RingIs DEF after_place
  <2> QED
    BY Cells, <2>1, <2>2, <2>3 DEF Places, after_place, before_place
<1> QED
  BY <1>1, <1>2

\* The snake in the ring, its cells from tail to head.
Laid(s, b, n) ==
  /\ s \in SnakeType /\ n \in 0..MAX_CELLS /\ b \in [1..n -> Int]
  /\ s.length = n /\ s.head_at = ring(s.tail_at, n)
  /\ \A i \in 1..n : s.order[ring(s.tail_at, i - 1)] = b[i]

\* And the table of what is taken beside it.
Whole(s, b, n) ==
  /\ Laid(s, b, n)
  /\ s.taken = {b[i] : i \in 1..n}
  /\ \A i, j \in 1..n : b[i] = b[j] => i = j

\* What push_head changes.
LEMMA PushIs ==
  ASSUME NEW s \in SnakeType, NEW cell \in Int, s.length < MAX_CELLS
  PROVE  /\ push_head(s, cell) \in SnakeType
         /\ push_head(s, cell).taken = s.taken \cup {cell}
         /\ push_head(s, cell).order = [s.order EXCEPT ![s.head_at] = cell]
         /\ push_head(s, cell).head_at = after_place(s.head_at)
         /\ push_head(s, cell).tail_at = s.tail_at /\ push_head(s, cell).length = s.length + 1
         /\ push_head(s, cell).dir = s.dir /\ push_head(s, cell).turned = s.turned
         /\ push_head(s, cell).apple = s.apple
<1> DEFINE taken == s.taken \cup {cell}
           order == [s.order EXCEPT ![s.head_at] = cell]
           next == after_place(s.head_at)
           length == s.length + 1
           p == [s EXCEPT !.taken = taken, !.order = order, !.head_at = next, !.length = length]
<1>1. push_head(s, cell) = p
  BY DEF push_head, SnakeType
<1>2. taken \in SUBSET Int /\ order \in [Places -> Int] /\ length \in 0..MAX_CELLS /\ next \in Places
  BY Cells, RingNext DEF SnakeType
<1> HIDE DEF taken, order, next, length
<1>3. p \in SnakeType /\ p.taken = taken /\ p.order = order /\ p.head_at = next
      /\ p.tail_at = s.tail_at /\ p.length = length /\ p.dir = s.dir /\ p.turned = s.turned
      /\ p.apple = s.apple
  BY <1>2 DEF SnakeType
<1> QED
  BY <1>1, <1>3 DEF taken, order, next, length

\* What pop_tail changes.
LEMMA PopIs ==
  ASSUME NEW s \in SnakeType, s.length > 0
  PROVE  /\ pop_tail(s) \in SnakeType
         /\ pop_tail(s).taken = s.taken \ {s.order[s.tail_at]}
         /\ pop_tail(s).order = [s.order EXCEPT ![s.tail_at] = 0]
         /\ pop_tail(s).tail_at = after_place(s.tail_at)
         /\ pop_tail(s).head_at = s.head_at /\ pop_tail(s).length = s.length - 1
         /\ pop_tail(s).dir = s.dir /\ pop_tail(s).turned = s.turned
         /\ pop_tail(s).apple = s.apple
<1> DEFINE taken == s.taken \ {s.order[s.tail_at]}
           order == [s.order EXCEPT ![s.tail_at] = 0]
           tail_place == after_place(s.tail_at)
           length == s.length - 1
           p == [s EXCEPT !.taken = taken, !.order = order, !.tail_at = tail_place, !.length = length]
<1>1. pop_tail(s) = p
  BY DEF pop_tail, SnakeType
<1>2. taken \in SUBSET Int /\ order \in [Places -> Int] /\ length \in 0..MAX_CELLS /\ tail_place \in Places
  BY Cells, RingNext DEF SnakeType
<1> HIDE DEF taken, order, tail_place, length
<1>3. p \in SnakeType /\ p.taken = taken /\ p.order = order /\ p.tail_at = tail_place
      /\ p.head_at = s.head_at /\ p.length = length /\ p.dir = s.dir /\ p.turned = s.turned
      /\ p.apple = s.apple
  BY <1>2 DEF SnakeType
<1> QED
  BY <1>1, <1>3 DEF taken, order, tail_place, length

longer(b, n, cell) == [i \in 1..(n + 1) |-> IF i <= n THEN b[i] ELSE cell]
shorter(b, n) == [i \in 1..(n - 1) |-> b[i + 1]]

\* A cell more at the head.
LEMMA PushLays ==
  ASSUME NEW s, NEW b, NEW n, Whole(s, b, n), n < MAX_CELLS, NEW cell \in Int, cell \notin s.taken
  PROVE  Whole(push_head(s, cell), longer(b, n, cell), n + 1)
<1> DEFINE p == push_head(s, cell)
           c == longer(b, n, cell)
           t == s.tail_at
<1>1. /\ s \in SnakeType /\ n \in Nat /\ n + 1 \in 0..MAX_CELLS /\ b \in [1..n -> Int] /\ s.length = n
      /\ s.head_at = ring(t, n) /\ t \in Places /\ n \in 0..(MAX_CELLS - 1)
      /\ \A i \in 1..n : s.order[ring(t, i - 1)] = b[i]
      /\ s.order \in [Places -> Int]
  BY Cells DEF Whole, Laid, SnakeType
<1>2. /\ p \in SnakeType /\ p.taken = s.taken \cup {cell}
      /\ p.order = [s.order EXCEPT ![ring(t, n)] = cell]
      /\ p.head_at = after_place(ring(t, n)) /\ p.tail_at = t /\ p.length = n + 1
  BY <1>1, PushIs
<1> HIDE DEF p, t
<1>3. /\ c \in [1..(n + 1) -> Int] /\ c[n + 1] = cell /\ \A i \in 1..n : c[i] = b[i]
  BY <1>1 DEF longer
<1> HIDE DEF c
<1>4. p.head_at = ring(t, n + 1)
  BY <1>1, <1>2, RingNext
<1>5. ASSUME NEW i \in 1..(n + 1) PROVE p.order[ring(t, i - 1)] = c[i]
  <2>1. i - 1 \in 0..(MAX_CELLS - 1) /\ i - 1 \in 0..MAX_CELLS
    BY <1>1, Cells
  <2>2. ring(t, i - 1) \in Places
    BY <1>1, <2>1, RingIs
  <2>3. CASE i = n + 1
    <3>1. i - 1 = n
      BY <1>1, <2>3
    <3> QED
      BY <1>1, <1>2, <1>3, <2>2, <2>3, <3>1
  <2>4. CASE i # n + 1
    <3>1. i \in 1..n /\ i - 1 # n
      BY <1>1, <2>4
    <3>2. ring(t, i - 1) # ring(t, n)
      BY <1>1, <2>1, <3>1, RingApart
    <3> QED
      BY <1>1, <1>2, <1>3, <2>2, <3>1, <3>2
  <2> QED
    BY <2>3, <2>4
<1>6. Laid(p, c, n + 1)
  BY <1>1, <1>2, <1>3, <1>4, <1>5 DEF Laid
<1>7. p.taken = {c[i] : i \in 1..(n + 1)}
  <2>1. {c[i] : i \in 1..(n + 1)} = {b[i] : i \in 1..n} \cup {cell}
    <3>1. ASSUME NEW i \in 1..(n + 1) PROVE c[i] \in {b[j] : j \in 1..n} \cup {cell}
      BY <1>1, <1>3
    <3>2. ASSUME NEW j \in 1..n PROVE j \in 1..(n + 1) /\ c[j] = b[j]
      BY <1>1, <1>3
    <3>3. n + 1 \in 1..(n + 1) /\ c[n + 1] = cell
      BY <1>1, <1>3
    <3> QED
      BY <3>1, <3>2, <3>3
  <2> QED
    BY <1>2, <2>1 DEF Whole
<1>8. \A i, j \in 1..(n + 1) : c[i] = c[j] => i = j
  <2>1. \A i \in 1..n : b[i] # cell
    BY DEF Whole
  <2>2. \A i, j \in 1..n : b[i] = b[j] => i = j
    BY DEF Whole
  <2>3. \A i \in 1..(n + 1) : i \in 1..n \/ i = n + 1
    BY <1>1
  <2> QED
    BY <1>3, <2>1, <2>2, <2>3
<1> QED
  BY <1>6, <1>7, <1>8 DEF Whole, p, c

\* A cell less at the tail.
LEMMA PopLays ==
  ASSUME NEW s, NEW b, NEW n, Whole(s, b, n), n > 0
  PROVE  /\ Whole(pop_tail(s), shorter(b, n), n - 1)
         /\ pop_tail(s).taken = s.taken \ {b[1]}
<1> DEFINE p == pop_tail(s)
           c == shorter(b, n)
           t == s.tail_at
<1>1. /\ s \in SnakeType /\ n \in 1..MAX_CELLS /\ b \in [1..n -> Int] /\ s.length = n
      /\ s.head_at = ring(t, n) /\ t \in Places /\ n - 1 \in 0..(MAX_CELLS - 1)
      /\ \A i \in 1..n : s.order[ring(t, i - 1)] = b[i]
      /\ s.order \in [Places -> Int]
  BY Cells DEF Whole, Laid, SnakeType
<1>2. /\ p \in SnakeType /\ p.taken = s.taken \ {s.order[t]}
      /\ p.order = [s.order EXCEPT ![t] = 0]
      /\ p.head_at = ring(t, n) /\ p.tail_at = after_place(t) /\ p.length = n - 1
  BY <1>1, PopIs
<1> HIDE DEF p, t
<1>3. /\ c \in [1..(n - 1) -> Int] /\ \A i \in 1..(n - 1) : c[i] = b[i + 1]
  BY <1>1 DEF shorter
<1> HIDE DEF c
<1>4. p.head_at = ring(p.tail_at, n - 1)
  <2>1. (n - 1) + 1 = n
    BY <1>1
  <2> QED
    BY <1>1, <1>2, <2>1, RingNext
<1>0. ring(t, 0) = t
  <2>1. t \in Places
    BY <1>1
  <2>2. t + 0 = t /\ t < MAX_CELLS /\ 0 \in 0..MAX_CELLS
    BY <2>1, Cells DEF Places
  <2>3. ring(t, 0) = IF t + 0 < MAX_CELLS THEN t + 0 ELSE t + 0 - MAX_CELLS
    BY <2>1, <2>2, RingIs
  <2> QED
    BY <2>2, <2>3
<1>5. ASSUME NEW i \in 1..(n - 1) PROVE p.order[ring(p.tail_at, i - 1)] = c[i]
  <2>1. i - 1 \in 0..(MAX_CELLS - 1) /\ i \in 0..(MAX_CELLS - 1) /\ (i - 1) + 1 = i
        /\ i + 1 \in 1..n /\ (i + 1) - 1 = i /\ i # 0 /\ i \in 0..MAX_CELLS /\ 0 \in 0..(MAX_CELLS - 1)
    BY <1>1, Cells
  <2>2. ring(p.tail_at, i - 1) = ring(t, i)
    BY <1>1, <1>2, <2>1, RingNext
  <2>3. ring(t, i) # ring(t, 0) /\ ring(t, i) \in Places
    BY <1>1, <2>1, RingApart, RingIs
  <2>4. s.order[ring(t, i)] = b[i + 1]
    BY <1>1, <2>1
  <2> QED
    BY <1>0, <1>1, <1>2, <1>3, <2>2, <2>3, <2>4
<1>6. Laid(p, c, n - 1)
  <2>1. n - 1 \in 0..MAX_CELLS
    BY <1>1, Cells
  <2> QED
    BY <2>1, <1>1, <1>2, <1>3, <1>4, <1>5 DEF Laid
<1>7. s.order[t] = b[1] /\ 1 \in 1..n
  <2>1. 1 \in 1..n /\ 1 - 1 = 0
    BY <1>1
  <2> QED
    BY <1>0, <1>1, <2>1
<1>8. p.taken = {c[i] : i \in 1..(n - 1)}
  <2>1. s.taken = {b[i] : i \in 1..n} /\ \A i, j \in 1..n : b[i] = b[j] => i = j
    BY DEF Whole
  <2>2. ASSUME NEW i \in 1..n, i # 1 PROVE i - 1 \in 1..(n - 1) /\ b[i] = c[i - 1]
    <3>1. i - 1 \in 1..(n - 1) /\ (i - 1) + 1 = i
      BY <1>1, <2>2
    <3> QED
      BY <1>3, <3>1
  <2>3. ASSUME NEW i \in 1..(n - 1) PROVE i + 1 \in 1..n /\ i + 1 # 1 /\ c[i] = b[i + 1]
    BY <1>1, <1>3
  <2>4. {b[i] : i \in 1..n} \ {b[1]} = {c[i] : i \in 1..(n - 1)}
    BY <1>7, <2>1, <2>2, <2>3
  <2> QED
    BY <1>2, <1>7, <2>1, <2>4
<1>9. \A i, j \in 1..(n - 1) : c[i] = c[j] => i = j
  <2>1. ASSUME NEW i \in 1..(n - 1), NEW j \in 1..(n - 1), c[i] = c[j] PROVE i = j
    <3>1. i + 1 \in 1..n /\ j + 1 \in 1..n
      BY <1>1
    <3>2. b[i + 1] = b[j + 1]
      BY <1>3, <2>1
    <3>3. i + 1 = j + 1
      BY <3>1, <3>2 DEF Whole
    <3> QED
      BY <3>3
  <2> QED
    BY <2>1
<1> QED
  BY <1>2, <1>6, <1>7, <1>8, <1>9 DEF Whole, p, c

\* Cells and where they are on the board.
Divided(a, m, q, r) == a \div m = q /\ a % m = r

\* A number less than m beside a multiple of m.
LEMMA DivisionIs ==
  ASSUME NEW m \in Nat \ {0}, NEW q \in Nat, NEW r \in 0..(m - 1)
  PROVE  Divided(q * m + r, m, q, r)
<1> DEFINE p == q * m
           a == p + r
           d == a \div m
           e == a % m
<1>1. p \in Nat /\ a \in Nat
  BY SMT
<1> HIDE DEF a
<1>2. d \in Int /\ e \in 0..(m - 1) /\ a = m * d + e
  BY <1>1, SMT
<1>3. a = q * m + r
  BY DEF a
<1> HIDE DEF d, e, p
<1>4. d = q
  <2>1. CASE d >= q + 1
    <3>1. m * d >= m * q + m
      BY <1>2, <2>1, SMT
    <3>2. m * q = q * m
      BY SMT
    <3> QED
      BY <1>2, <1>3, <3>1, <3>2
  <2>2. CASE d <= q - 1
    <3>1. m * d <= m * q - m
      BY <1>2, <2>2, SMT
    <3>2. m * q = q * m
      BY SMT
    <3> QED
      BY <1>2, <1>3, <3>1, <3>2
  <2> QED
    BY <1>2, <2>1, <2>2
<1>5. e = r
  <2>1. m * d = q * m
    BY <1>4, SMT
  <2> QED
    BY <1>2, <1>3, <2>1
<1> QED
  BY <1>4, <1>5 DEF d, e, a, p, Divided

\* A cell's row and column are the ones it was made of.
LEMMA CellIs ==
  ASSUME NEW row \in 0..(SnakeRows - 1), NEW col \in 0..(SnakeCols - 1)
  PROVE  /\ cell_at(row, col) \in BoardCells /\ cell_at(row, col) \in Places
         /\ row_of(cell_at(row, col)) = row /\ col_of(cell_at(row, col)) = col
<1> DEFINE m == SNAKE_MAX_COLS
           cell == cell_at(row, col)
<1>1. /\ m \in Nat \ {0} /\ row \in Nat /\ col \in 0..(m - 1) /\ row <= SNAKE_MAX_ROWS - 1
      /\ SNAKE_MAX_ROWS \in Nat
  BY SnakeAssumption, Cells
<1>2. cell = row * m + col
  BY DEF cell_at
<1>3. cell \in BoardCells
  BY DEF BoardCells
<1>4. row_of(cell) = row /\ col_of(cell) = col
  <2>1. Divided(row * m + col, m, row, col)
    BY <1>1, DivisionIs
  <2>2. row_of(cell) = cell \div m /\ col_of(cell) = cell % m
    BY DEF row_of, col_of
  <2> HIDE DEF m, cell
  <2> QED
    BY <1>2, <2>1, <2>2 DEF Divided
<1>5. cell \in 0..(m * SNAKE_MAX_ROWS - 1)
  <2> DEFINE k == SNAKE_MAX_ROWS
  <2> HIDE DEF m, cell, k
  <2>1. m \in Nat /\ row \in Nat /\ col \in 0..(m - 1) /\ row <= k - 1 /\ k \in Nat
    BY <1>1 DEF k
  <2>2. row * m <= m * k - m /\ row * m \in Nat /\ m * k \in Nat
    BY <2>1, SMT
  <2>3. cell \in 0..(m * k - 1)
    BY <1>2, <2>1, <2>2
  <2> QED
    BY <2>3 DEF k
<1> QED
  BY <1>3, <1>4, <1>5 DEF Places, MAX_CELLS

\* A cell on the board is made of its row and column.
LEMMA BoardIs ==
  ASSUME NEW c \in BoardCells
  PROVE  /\ row_of(c) \in 0..(SnakeRows - 1) /\ col_of(c) \in 0..(SnakeCols - 1)
         /\ c = cell_at(row_of(c), col_of(c)) /\ c \in Places /\ c \in Int
<1>1. PICK row \in 0..(SnakeRows - 1), col \in 0..(SnakeCols - 1) : c = cell_at(row, col)
  BY DEF BoardCells
<1>2. row_of(c) = row /\ col_of(c) = col /\ c \in Places
  BY <1>1, CellIs
<1>3. c \in Int
  BY <1>2, Cells DEF Places
<1> QED
  BY <1>1, <1>2, <1>3

\* While there is a free cell, the ring has room.
LEMMA RoomLeft ==
  ASSUME NEW s, NEW b, NEW n, Whole(s, b, n), s.taken \subseteq BoardCells,
         NEW c \in BoardCells, c \notin s.taken
  PROVE  n < MAX_CELLS
<1> SUFFICES ASSUME n >= MAX_CELLS PROVE FALSE
  BY Cells DEF Whole, Laid
<1>1. n = MAX_CELLS /\ n \in Nat /\ b \in [1..n -> Int] /\ s.taken = {b[i] : i \in 1..n}
  BY Cells DEF Whole, Laid
<1> DEFINE T == Places \ {c}
           S == 1..n
<1>2. IsFiniteSet(Places) /\ Cardinality(Places) = MAX_CELLS
  <2>1. 0 \in Int /\ MAX_CELLS - 1 \in Int /\ ~(0 > MAX_CELLS - 1) /\ (MAX_CELLS - 1) - 0 + 1 = MAX_CELLS
    BY Cells
  <2> QED
    BY <2>1, FS_Interval DEF Places
<1>3. c \in Places
  BY BoardIs
<1>4. IsFiniteSet(T) /\ Cardinality(T) = MAX_CELLS - 1
  BY <1>2, <1>3, FS_RemoveElement
<1>5. IsFiniteSet(S) /\ Cardinality(S) = n
  <2>1. 1 \in Int /\ n \in Int /\ ~(1 > n) /\ n - 1 + 1 = n
    BY <1>1, Cells
  <2> QED
    BY <2>1, FS_Interval
<1>6. b \in [S -> T]
  <2>1. \A i \in S : b[i] \in T
    BY <1>1, BoardIs
  <2> QED
    BY <1>1, <2>1
<1> HIDE DEF S, T
<1>7. Cardinality(T) < Cardinality(S)
  BY <1>1, <1>4, <1>5
<1>8. \E x, y \in S : x # y /\ b[x] = b[y]
  BY <1>4, <1>5, <1>6, <1>7, FS_PigeonHole
<1> QED
  BY <1>8 DEF Whole, S

\* The four directions.
LEMMA Directions ==
  /\ \A d \in KeyDirections :
       /\ d[1] \in -1..1 /\ d[2] \in -1..1
       /\ (d[1] = 0 /\ d[2] # 0) \/ (d[1] # 0 /\ d[2] = 0)
       /\ opposite(d) \in KeyDirections /\ opposite(d)[1] = -d[1] /\ opposite(d)[2] = -d[2]
       /\ opposite(d) # d
  /\ \A d, e \in KeyDirections : (d[1] = e[1] /\ d[2] = e[2]) => d = e
  /\ Right \in KeyDirections /\ Right[1] = 1 /\ Right[2] = 0
<1> DEFINE Is(d, x, y) == /\ d = <<x, y>> /\ d[1] = x /\ d[2] = y
                           /\ opposite(d) = <<-x, -y>>
                           /\ opposite(d)[1] = -x /\ opposite(d)[2] = -y
<1>1. /\ \A d \in KeyDirections : Is(d, 0, -1) \/ Is(d, 0, 1) \/ Is(d, -1, 0) \/ Is(d, 1, 0)
      /\ KeyDirections = {<<0, -1>>, <<0, 1>>, <<-1, 0>>, <<1, 0>>}
  <2>1. KeyDirections = {<<0, -1>>, <<0, 1>>, <<-1, 0>>, <<1, 0>>}
    BY DEF KeyDirections, Right
  <2>2. Is(<<0, -1>>, 0, -1) /\ Is(<<0, 1>>, 0, 1) /\ Is(<<-1, 0>>, -1, 0) /\ Is(<<1, 0>>, 1, 0)
    BY DEF opposite
  <2> HIDE DEF Is
  <2> QED
    BY <2>1, <2>2
<1>2. ASSUME NEW d \in KeyDirections
      PROVE  /\ d[1] \in -1..1 /\ d[2] \in -1..1
             /\ (d[1] = 0 /\ d[2] # 0) \/ (d[1] # 0 /\ d[2] = 0)
             /\ opposite(d)[1] = -d[1] /\ opposite(d)[2] = -d[2]
  BY <1>1
<1>3. ASSUME NEW d \in KeyDirections PROVE opposite(d) \in KeyDirections
  BY <1>1
<1>4. ASSUME NEW d \in KeyDirections, NEW e \in KeyDirections, d[1] = e[1], d[2] = e[2]
      PROVE  d = e
  BY <1>1, <1>4
<1>5. ASSUME NEW d \in KeyDirections PROVE opposite(d) # d
  BY <1>2
<1>6. Right \in KeyDirections /\ Right[1] = 1 /\ Right[2] = 0
  BY DEF KeyDirections, Right
<1> QED
  BY <1>2, <1>3, <1>4, <1>5, <1>6

\* From one cell to another in a direction.
Goes(a, b, d) == col_of(b) = col_of(a) + d[1] /\ row_of(b) = row_of(a) + d[2]

\* One step away is beside.
LEMMA GoesBeside ==
  ASSUME NEW a \in BoardCells, NEW b \in BoardCells, NEW d \in KeyDirections, Goes(a, b, d)
  PROVE  beside(a, b)
<1>1. row_of(a) \in Int /\ col_of(a) \in Int /\ row_of(b) \in Int /\ col_of(b) \in Int
  BY BoardIs, SnakeAssumption
<1>2. d[1] \in -1..1 /\ d[2] \in -1..1 /\ ((d[1] = 0 /\ d[2] # 0) \/ (d[1] # 0 /\ d[2] = 0))
  BY Directions
<1> QED
  BY <1>1, <1>2 DEF Goes, beside

\* The head has just come from the neck; one turn at most has been made since, and
\* it does not lead back.
Heading(s, b, n) ==
  \E d \in KeyDirections : /\ Goes(b[n - 1], b[n], d)
                           /\ ~s.turned => s.dir = d
                           /\ s.dir # opposite(d)

AppleLies(s) == s.apple \in s.taken => s.taken = BoardCells

Lives(s, b, n) ==
  /\ Whole(s, b, n) /\ n >= 3 /\ s.taken \subseteq BoardCells
  /\ \A i \in 2..n : beside(b[i - 1], b[i])
  /\ Heading(s, b, n) /\ AppleLies(s)

SnakeInv == phase = "PLAYING" => \E b, n : Lives(snake, b, n)

\* The ring alone says what is whole.
LEMMA WholeSame ==
  ASSUME NEW s, NEW b, NEW n, Whole(s, b, n), NEW r \in SnakeType,
         r.taken = s.taken, r.order = s.order, r.head_at = s.head_at, r.tail_at = s.tail_at,
         r.length = s.length
  PROVE  Whole(r, b, n)
BY DEF Whole, Laid

\* The cells of the body, and its head.
LEMMA BodyIs ==
  ASSUME NEW s, NEW b, NEW n, Whole(s, b, n), n >= 1
  PROVE  /\ s.length = n /\ n \in Nat /\ \A i \in 1..n : body(s)[i] = b[i]
         /\ head_of(s) = b[n]
<1>1. /\ s \in SnakeType /\ n \in 1..MAX_CELLS /\ s.length = n /\ s.head_at = ring(s.tail_at, n)
      /\ s.tail_at \in Places /\ \A i \in 1..n : s.order[ring(s.tail_at, i - 1)] = b[i]
  BY Cells DEF Whole, Laid, SnakeType
<1>2. ASSUME NEW i \in 1..n PROVE body(s)[i] = b[i]
  <2>1. body(s)[i] = s.order[(s.tail_at + i - 1) % MAX_CELLS]
    BY <1>1 DEF body
  <2>2. s.tail_at + i - 1 = s.tail_at + (i - 1)
    BY <1>1, Cells DEF Places
  <2>3. s.order[ring(s.tail_at, i - 1)] = b[i]
    BY <1>1
  <2> QED
    BY <2>1, <2>2, <2>3 DEF ring
<1>3. head_of(s) = b[n]
  <2>1. n - 1 \in 0..(MAX_CELLS - 1) /\ (n - 1) + 1 = n /\ n \in 1..n
    BY <1>1, Cells
  <2>2. before_place(s.head_at) = ring(s.tail_at, n - 1)
    BY <1>1, <2>1, RingNext
  <2> QED
    BY <1>1, <2>1, <2>2 DEF head_of
<1> QED
  BY <1>1, <1>2, <1>3

\* What a living snake is in the model's own terms.
LEMMA LivesTyped ==
  ASSUME NEW s, NEW b, NEW n, Lives(s, b, n)
  PROVE  /\ s \in SnakeType /\ n \in Nat /\ n >= 3 /\ n <= MAX_CELLS /\ s.length = n
         /\ \A i \in 1..n : b[i] \in BoardCells
         /\ s.taken = {b[i] : i \in 1..n} /\ \A i, j \in 1..n : b[i] = b[j] => i = j
BY Cells DEF Lives, Whole, Laid

\* A turn leaves the body as it is, and does not lead back to the neck.
LEMMA TurnLives ==
  ASSUME NEW s, NEW b, NEW n, Lives(s, b, n), NEW dir \in KeyDirections, turns(s, dir)
  PROVE  Lives([s EXCEPT !.dir = dir, !.turned = TRUE], b, n)
<1> DEFINE r == [s EXCEPT !.dir = dir, !.turned = TRUE]
<1>1. s \in SnakeType /\ Whole(s, b, n)
  BY LivesTyped DEF Lives
<1>2. /\ r \in SnakeType /\ r.taken = s.taken /\ r.order = s.order /\ r.head_at = s.head_at
      /\ r.tail_at = s.tail_at /\ r.length = s.length /\ r.dir = dir /\ r.turned = TRUE
      /\ r.apple = s.apple
  BY <1>1 DEF SnakeType
<1> HIDE DEF r
<1>3. Whole(r, b, n)
  BY <1>1, <1>2, WholeSame
<1>4. PICK d \in KeyDirections : Goes(b[n - 1], b[n], d) /\ (~s.turned => s.dir = d)
  BY DEF Lives, Heading
<1>5. ~s.turned /\ dir # opposite(s.dir)
  BY DEF turns
<1>6. Heading(r, b, n)
  BY <1>2, <1>4, <1>5 DEF Heading
<1>7. AppleLies(r)
  BY <1>2 DEF Lives, AppleLies
<1> SUFFICES Lives(r, b, n)
  BY DEF r
<1> QED
  BY <1>2, <1>3, <1>6, <1>7 DEF Lives

\* The new game's snake: three cells in a row.
LEMMA GameBegins ==
  ASSUME new_game
  PROVE  SnakeInv'
<1> DEFINE start == cell_at(SnakeRows \div 2, SnakeCols \div 4)
           s0 == [NoSnake EXCEPT !.dir = Right]
           s1 == push_head(s0, start)
           s2 == push_head(s1, start + 1)
           s3 == push_head(s2, start + 2)
           b0 == [i \in 1..0 |-> 0]
           b1 == longer(b0, 0, start)
           b2 == longer(b1, 1, start + 1)
           b3 == longer(b2, 2, start + 2)
           row == SnakeRows \div 2
           col == SnakeCols \div 4
<1>1. PICK apple \in place_apple(s3) : snake' = [s3 EXCEPT !.apple = apple]
  BY DEF new_game
<1>2. /\ SnakeCols \in Nat /\ SnakeCols >= 4 /\ SnakeRows \in Nat /\ SnakeRows >= 1
      /\ SNAKE_MAX_COLS \in Nat
  BY SnakeAssumption
<1>3. /\ row \in 0..(SnakeRows - 1) /\ col \in 0..(SnakeCols - 1)
      /\ col + 1 \in 0..(SnakeCols - 1) /\ col + 2 \in 0..(SnakeCols - 1)
  BY <1>2
<1> HIDE DEF row, col
<1>4. start = cell_at(row, col) /\ start + 1 = cell_at(row, col + 1) /\ start + 2 = cell_at(row, col + 2)
  <2> DEFINE p == row * SNAKE_MAX_COLS
  <2>1. p \in Int /\ col \in Int
    BY <1>2, <1>3, SMT
  <2>2. start = p + col /\ cell_at(row, col + 1) = p + (col + 1) /\ cell_at(row, col + 2) = p + (col + 2)
    BY DEF cell_at, row, col
  <2> HIDE DEF p, start
  <2>3. start + 1 = p + (col + 1) /\ start + 2 = p + (col + 2)
    BY <2>1, <2>2
  <2> QED
    BY <2>2, <2>3 DEF start, row, col
<1> HIDE DEF start
<1>5. /\ start \in BoardCells /\ start + 1 \in BoardCells /\ start + 2 \in BoardCells
      /\ row_of(start) = row /\ row_of(start + 1) = row /\ row_of(start + 2) = row
      /\ col_of(start) = col /\ col_of(start + 1) = col + 1 /\ col_of(start + 2) = col + 2
  BY <1>3, <1>4, CellIs
<1>6. start \in Int /\ start + 1 \in Int /\ start + 2 \in Int
  BY <1>5, BoardIs
<1>7. /\ s0 \in SnakeType /\ s0.taken = {} /\ s0.length = 0 /\ s0.head_at = 0 /\ s0.tail_at = 0
      /\ s0.dir = Right /\ s0.turned = FALSE
  <2> DEFINE order == [spot_at \in Places |-> 0]
             still == <<0, 0>>
  <2>1. 0 \in Places /\ 0 \in 0..MAX_CELLS /\ order \in [Places -> Int] /\ {} \in SUBSET Int
    BY Cells DEF Places
  <2>2. NoSnake = [taken |-> {}, order |-> order, head_at |-> 0, tail_at |-> 0,
                   length |-> 0, dir |-> still, turned |-> FALSE, apple |-> 0]
    BY DEF NoSnake, Places
  <2>3. s0 = [taken |-> {}, order |-> order, head_at |-> 0, tail_at |-> 0,
              length |-> 0, dir |-> Right, turned |-> FALSE, apple |-> 0]
    <3> DEFINE z == [taken |-> {}, order |-> order, head_at |-> 0, tail_at |-> 0,
                     length |-> 0, dir |-> still, turned |-> FALSE, apple |-> 0]
    <3>1. s0 = [z EXCEPT !.dir = Right]
      BY <2>2
    <3> HIDE DEF order, still, s0
    <3> QED
      BY <3>1
  <2> HIDE DEF order
  <2> HIDE DEF s0
  <2> QED
    BY <2>1, <2>3, Directions DEF SnakeType
<1> HIDE DEF s0
<1>8. Whole(s0, b0, 0)
  <2>1. ring(0, 0) = 0
    BY Cells, RingIs DEF Places
  <2>2. 0 \in 0..MAX_CELLS
    BY Cells
  <2> QED
    BY <1>7, <2>1, <2>2 DEF Whole, Laid
<1> HIDE DEF b0
<1>9. /\ Whole(s1, b1, 0 + 1) /\ s1 \in SnakeType /\ s1.taken = {start} /\ s1.dir = Right
      /\ s1.turned = FALSE /\ s1.length = 1 /\ b1[1] = start
  <2>1. 0 < MAX_CELLS
    BY Cells
  <2>2. Whole(s1, b1, 0 + 1)
    BY <1>6, <1>7, <1>8, <2>1, PushLays
  <2>3. b1[1] = start
    BY DEF longer
  <2>5. s0.length < MAX_CELLS
    BY <2>1, <1>7
  <2>6. /\ s1 \in SnakeType /\ s1.taken = s0.taken \cup {start} /\ s1.length = s0.length + 1
        /\ s1.dir = s0.dir /\ s1.turned = s0.turned
    BY <1>6, <1>7, <2>5, PushIs
  <2>7. s1.taken = {start}
    BY <1>7, <2>6
  <2> HIDE DEF s1
  <2> QED
    BY <1>7, <2>2, <2>3, <2>6, <2>7
<1> HIDE DEF s1, b1
<1>10. /\ Whole(s2, b2, 1 + 1) /\ s2 \in SnakeType /\ s2.taken = {start, start + 1} /\ s2.dir = Right
       /\ s2.turned = FALSE /\ s2.length = 2 /\ b2[1] = start /\ b2[2] = start + 1
  <2>1. 1 < MAX_CELLS /\ start + 1 \notin s1.taken
    BY Cells, <1>6, <1>9
  <2>2. Whole(s1, b1, 1)
    BY <1>9
  <2>3. Whole(s2, b2, 1 + 1)
    BY <1>6, <1>9, <2>1, <2>2, PushLays
  <2>4. b2[1] = start /\ b2[2] = start + 1
    BY <1>9 DEF longer
  <2>5. s1.length < MAX_CELLS
    BY <2>1, <1>9
  <2>6. /\ s2 \in SnakeType /\ s2.taken = s1.taken \cup {start + 1} /\ s2.length = s1.length + 1
        /\ s2.dir = s1.dir /\ s2.turned = s1.turned
    BY <1>6, <1>9, <2>5, PushIs
  <2>7. s2.taken = {start, start + 1}
    BY <1>9, <2>6
  <2> HIDE DEF s2
  <2> QED
    BY <1>9, <2>3, <2>4, <2>6, <2>7
<1> HIDE DEF s2, b2
<1>11. /\ Whole(s3, b3, 2 + 1) /\ s3 \in SnakeType /\ s3.taken = {start, start + 1, start + 2}
       /\ s3.dir = Right /\ s3.turned = FALSE
       /\ b3[1] = start /\ b3[2] = start + 1 /\ b3[3] = start + 2
  <2>1. 2 < MAX_CELLS /\ start + 2 \notin s2.taken
    BY Cells, <1>6, <1>10
  <2>2. Whole(s2, b2, 2)
    BY <1>10
  <2>3. Whole(s3, b3, 2 + 1)
    BY <1>6, <1>10, <2>1, <2>2, PushLays
  <2>4. b3[1] = start /\ b3[2] = start + 1 /\ b3[3] = start + 2
    BY <1>10 DEF longer
  <2>5. s2.length < MAX_CELLS
    BY <2>1, <1>10
  <2>6. /\ s3 \in SnakeType /\ s3.taken = s2.taken \cup {start + 2} /\ s3.length = s2.length + 1
        /\ s3.dir = s2.dir /\ s3.turned = s2.turned
    BY <1>6, <1>10, <2>5, PushIs
  <2>7. s3.taken = {start, start + 1, start + 2}
    BY <1>10, <2>6
  <2> HIDE DEF s3
  <2> QED
    BY <1>10, <2>3, <2>4, <2>6, <2>7
<1> HIDE DEF s3, b3
<1> DEFINE s == [s3 EXCEPT !.apple = apple]
<1>12. apple \in Int /\ (apple \in s3.taken => s3.taken = BoardCells)
  <2>1. s3.taken \subseteq BoardCells
    BY <1>5, <1>11
  <2> QED
    BY <2>1, BoardIs DEF place_apple
<1>13. /\ s \in SnakeType /\ s.taken = s3.taken /\ s.order = s3.order /\ s.head_at = s3.head_at
       /\ s.tail_at = s3.tail_at /\ s.length = s3.length /\ s.dir = Right /\ s.turned = FALSE
       /\ s.apple = apple
  BY <1>11, <1>12 DEF SnakeType
<1> HIDE DEF s
<1>14. Whole(s, b3, 3)
  <2>1. Whole(s3, b3, 3)
    BY <1>11
  <2> QED
    BY <2>1, <1>13, WholeSame
<1>15. Goes(start, start + 1, Right) /\ Goes(start + 1, start + 2, Right)
  <2>1. row \in Int /\ col \in Int /\ Right[1] = 1 /\ Right[2] = 0
    BY <1>3, Directions
  <2> QED
    BY <1>5, <2>1 DEF Goes
<1>16. \A i \in 2..3 : beside(b3[i - 1], b3[i])
  <2>1. beside(start, start + 1) /\ beside(start + 1, start + 2)
    BY <1>5, <1>15, GoesBeside, Directions
  <2>2. \A i \in 2..3 : (i = 2 /\ i - 1 = 1) \/ (i = 3 /\ i - 1 = 2)
    OBVIOUS
  <2> QED
    BY <1>11, <2>1, <2>2
<1>17. Heading(s, b3, 3)
  <2>1. 3 - 1 = 2 /\ Right # opposite(Right) /\ Right \in KeyDirections
    BY Directions
  <2> QED
    BY <1>11, <1>13, <1>15, <2>1 DEF Heading
<1>18. Lives(s, b3, 3)
  <2>1. AppleLies(s)
    BY <1>12, <1>13 DEF AppleLies
  <2>2. s.taken \subseteq BoardCells
    BY <1>5, <1>11, <1>13
  <2> QED
    BY <1>14, <1>16, <1>17, <2>1, <2>2 DEF Lives
<1> QED
  BY <1>1, <1>18 DEF SnakeInv, s

\* The head of a living snake moves on, the tail with it unless it eats: `s' is the
\* snake that has not moved its head yet.
LEMMA HeadMoves ==
  ASSUME NEW s, NEW b, NEW n, Whole(s, b, n), n >= 2, s.taken \subseteq BoardCells,
         \A i \in 2..n : beside(b[i - 1], b[i]),
         on_board(ahead(s)), s.dir \in KeyDirections,
         NEW next, next = cell_at(ahead(s).row, ahead(s).col), next \notin s.taken,
         NEW r \in SnakeType, r.taken = push_head(s, next).taken, r.order = push_head(s, next).order,
         r.head_at = push_head(s, next).head_at, r.tail_at = push_head(s, next).tail_at,
         r.length = push_head(s, next).length, r.dir = s.dir, ~r.turned
  PROVE  /\ Whole(r, longer(b, n, next), n + 1)
         /\ r.taken \subseteq BoardCells /\ r.taken = s.taken \cup {next} /\ next \in BoardCells
         /\ \A i \in 2..(n + 1) : beside(longer(b, n, next)[i - 1], longer(b, n, next)[i])
         /\ Heading(r, longer(b, n, next), n + 1)
<1> DEFINE c == longer(b, n, next)
           spot == ahead(s)
           d == s.dir
<1>1. /\ s \in SnakeType /\ n \in Nat /\ s.length = n /\ n <= MAX_CELLS /\ b \in [1..n -> Int]
      /\ s.taken = {b[i] : i \in 1..n}
  BY Cells DEF Whole, Laid
<1>2. /\ spot.col \in 0..(SnakeCols - 1) /\ spot.row \in 0..(SnakeRows - 1)
      /\ spot.col = col_of(b[n]) + d[1] /\ spot.row = row_of(b[n]) + d[2]
  BY <1>1, BodyIs DEF on_board, ahead
<1>3. n \in 1..n /\ b[n] \in BoardCells
  BY <1>1
<1> HIDE DEF spot, d
<1>4. next \in BoardCells /\ next \in Int /\ row_of(next) = spot.row /\ col_of(next) = spot.col
  BY <1>2, CellIs, BoardIs DEF spot
<1>5. n < MAX_CELLS
  BY <1>4, RoomLeft
<1>6. Whole(push_head(s, next), c, n + 1) /\ push_head(s, next).taken = s.taken \cup {next}
  BY <1>1, <1>4, <1>5, PushLays, PushIs
<1>7. c[n + 1] = next /\ \A i \in 1..n : c[i] = b[i]
  BY <1>1 DEF longer
<1> HIDE DEF c
<1>8. Whole(r, c, n + 1)
  BY <1>6, WholeSame
<1>9. Goes(b[n], next, d)
  BY <1>2, <1>4 DEF Goes
<1>10. ASSUME NEW i \in 2..(n + 1) PROVE beside(c[i - 1], c[i])
  <2>1. CASE i = n + 1
    <3>1. i - 1 = n /\ c[i] = next /\ c[i - 1] = b[n]
      BY <1>1, <1>3, <1>7, <2>1
    <3>2. beside(b[n], next)
      BY <1>3, <1>4, <1>9, GoesBeside DEF d
    <3> QED
      BY <3>1, <3>2
  <2>2. CASE i # n + 1
    <3>1. i \in 2..n /\ i \in 1..n /\ i - 1 \in 1..n
      BY <1>1, <2>2
    <3> QED
      BY <1>7, <3>1
  <2> QED
    BY <2>1, <2>2
<1>11. Heading(r, c, n + 1)
  <2>1. (n + 1) - 1 = n /\ c[n] = b[n] /\ c[n + 1] = next
    BY <1>1, <1>3, <1>7
  <2>2. d # opposite(d) /\ d \in KeyDirections /\ r.dir = d
    BY Directions DEF d
  <2> QED
    BY <1>9, <2>1, <2>2 DEF Heading
<1>12. r.taken = s.taken \cup {next} /\ r.taken \subseteq BoardCells
  BY <1>4, <1>6
<1> QED
  BY <1>4, <1>8, <1>10, <1>11, <1>12 DEF c

\* A tail less leaves the rest of the body as it was, and the head where it was.
LEMMA TailLeaves ==
  ASSUME NEW s, NEW b, NEW n, Lives(s, b, n)
  PROVE  /\ Whole(pop_tail(s), shorter(b, n), n - 1)
         /\ pop_tail(s).taken = s.taken \ {b[1]} /\ b[1] \in s.taken
         /\ \A i \in 2..(n - 1) : beside(shorter(b, n)[i - 1], shorter(b, n)[i])
         /\ pop_tail(s) \in SnakeType /\ ahead(pop_tail(s)) = ahead(s)
         /\ pop_tail(s).dir = s.dir /\ pop_tail(s).apple = s.apple
<1> DEFINE p == pop_tail(s)
           c == shorter(b, n)
<1>1. /\ s \in SnakeType /\ n \in Nat /\ n >= 3 /\ s.length = n /\ Whole(s, b, n)
      /\ s.taken = {b[i] : i \in 1..n}
  BY LivesTyped DEF Lives
<1>2. /\ p \in SnakeType /\ p.dir = s.dir /\ p.apple = s.apple
  <2>1. s.length > 0
    BY <1>1
  <2> QED
    BY <1>1, <2>1, PopIs
<1>3. Whole(p, c, n - 1) /\ p.taken = s.taken \ {b[1]}
  BY <1>1, PopLays
<1>4. \A i \in 1..(n - 1) : c[i] = b[i + 1]
  BY <1>1 DEF shorter
<1> HIDE DEF p, c
<1>5. head_of(p) = head_of(s)
  <2>1. n - 1 >= 1 /\ n - 1 \in 1..(n - 1) /\ (n - 1) + 1 = n /\ n >= 1
    BY <1>1
  <2>2. head_of(p) = c[n - 1]
    BY <1>3, <2>1, BodyIs
  <2>3. head_of(s) = b[n]
    BY <1>1, <2>1, BodyIs
  <2>4. c[n - 1] = b[(n - 1) + 1]
    BY <1>4, <2>1
  <2> QED
    BY <2>1, <2>2, <2>3, <2>4
<1>6. ahead(p) = ahead(s)
  BY <1>2, <1>5 DEF ahead
<1>7. ASSUME NEW i \in 2..(n - 1) PROVE beside(c[i - 1], c[i])
  <2>1. i - 1 \in 1..(n - 1) /\ i \in 1..(n - 1) /\ (i - 1) + 1 = i /\ i + 1 \in 2..n /\ (i + 1) - 1 = i
    BY <1>1
  <2>2. c[i - 1] = b[i] /\ c[i] = b[i + 1]
    BY <1>4, <2>1
  <2>3. beside(b[(i + 1) - 1], b[i + 1])
    BY <2>1 DEF Lives
  <2> QED
    BY <2>1, <2>2, <2>3
<1>8. b[1] \in s.taken
  BY <1>1
<1> QED
  BY <1>2, <1>3, <1>6, <1>7, <1>8 DEF p, c

\* The snake that advances lives on, or the game is over.
LEMMA AdvanceLives ==
  ASSUME SnakeInv, advance
  PROVE  SnakeInv'
<1> DEFINE s == snake
           spot == ahead(s)
           next == cell_at(spot.row, spot.col)
           eating == next = s.apple
           freed == IF eating THEN s ELSE pop_tail(s)
           moved == [push_head(freed, next) EXCEPT !.turned = FALSE]
<1> SUFFICES ASSUME phase' = "PLAYING" PROVE \E b, n : Lives(snake', b, n)
  BY DEF SnakeInv
<1>1. /\ phase = "PLAYING" /\ on_board(spot) /\ next \notin freed.taken
      /\ \E apple \in IF eating THEN place_apple(moved) ELSE {s.apple} :
           snake' = [moved EXCEPT !.apple = apple]
  BY DEF advance
<1>2. PICK b, n : Lives(s, b, n)
  BY <1>1 DEF SnakeInv
<1>3. PICK apple \in IF eating THEN place_apple(moved) ELSE {s.apple} :
        snake' = [moved EXCEPT !.apple = apple]
  BY <1>1
<1>4. /\ s \in SnakeType /\ n \in Nat /\ n >= 3 /\ s.taken = {b[i] : i \in 1..n} /\ Whole(s, b, n)
      /\ s.taken \subseteq BoardCells /\ \A i \in 2..n : beside(b[i - 1], b[i])
      /\ AppleLies(s)
  BY <1>2, LivesTyped DEF Lives
<1> HIDE DEF s, spot
<1> DEFINE c == IF eating THEN b ELSE shorter(b, n)
           m == IF eating THEN n ELSE n - 1
           e == longer(c, m, next)
           r == snake'
<1>5. /\ Whole(freed, c, m) /\ m \in Nat /\ m >= 2 /\ freed.taken \subseteq BoardCells
      /\ \A i \in 2..m : beside(c[i - 1], c[i])
      /\ freed \in SnakeType /\ ahead(freed) = spot /\ freed.dir \in KeyDirections
      /\ freed.apple = s.apple
  <2>1. CASE eating
    BY <1>4, <2>1 DEF spot, SnakeType
  <2>2. CASE ~eating
    BY <1>2, <1>4, <2>2, TailLeaves DEF spot, SnakeType
  <2> QED
    BY <2>1, <2>2
<1>6. freed.taken = s.taken \/ (~eating /\ freed.taken = s.taken \ {b[1]} /\ b[1] \in s.taken)
  BY <1>2, TailLeaves
<1> HIDE DEF freed, c, m
<1>7. next \in BoardCells /\ next \in Int
  BY <1>1, CellIs, BoardIs DEF on_board
<1>8. m < MAX_CELLS /\ freed.length = m
  BY <1>1, <1>5, <1>7, RoomLeft DEF Whole, Laid
<1> DEFINE p == push_head(freed, next)
<1>9. p \in SnakeType /\ p.taken = freed.taken \cup {next} /\ p.dir = freed.dir
  BY <1>5, <1>7, <1>8, PushIs
<1>10. apple \in Int /\ (apple \in p.taken => p.taken = BoardCells)
  <2>1. CASE eating
    <3>1. moved.taken = p.taken
      BY <1>9 DEF SnakeType
    <3>2. apple \in (IF BoardCells \subseteq p.taken THEN {0} ELSE BoardCells \ p.taken)
      BY <1>3, <2>1, <3>1 DEF place_apple
    <3>3. p.taken \subseteq BoardCells
      BY <1>5, <1>7, <1>9
    <3> HIDE DEF p
    <3> QED
      BY <3>2, <3>3, BoardIs
  <2>2. CASE ~eating
    <3>1. apple = s.apple
      BY <1>3, <2>2
    <3>2. ASSUME apple \in p.taken PROVE p.taken = BoardCells
      <4>1. apple \in s.taken
        BY <1>6, <1>9, <2>2, <3>1, <3>2
      <4>2. s.taken = BoardCells
        BY <1>4, <3>1, <4>1 DEF AppleLies
      <4> QED
        BY <1>1, <1>6, <1>7, <1>9, <4>2
    <3>3. apple \in Int
      BY <1>4, <3>1 DEF SnakeType
    <3> QED
      BY <3>2, <3>3
  <2> QED
    BY <2>1, <2>2
<1>11. /\ r \in SnakeType /\ r.taken = p.taken /\ r.order = p.order /\ r.head_at = p.head_at
       /\ r.tail_at = p.tail_at /\ r.length = p.length /\ r.dir = freed.dir /\ r.turned = FALSE
       /\ r.apple = apple
  <2> HIDE DEF p
  <2>1. r = [[p EXCEPT !.turned = FALSE] EXCEPT !.apple = apple]
    BY <1>3 DEF p
  <2> HIDE DEF r
  <2> QED
    BY <1>9, <1>10, <2>1 DEF SnakeType
<1> HIDE DEF r, e
<1>12. /\ Whole(r, e, m + 1) /\ r.taken \subseteq BoardCells
       /\ \A i \in 2..(m + 1) : beside(e[i - 1], e[i]) /\ Heading(r, e, m + 1)
  <2> HIDE DEF moved, eating
  <2>1. next = cell_at(ahead(freed).row, ahead(freed).col) /\ on_board(ahead(freed))
        /\ next \notin freed.taken /\ ~r.turned
    BY <1>1, <1>5, <1>11
  <2> HIDE DEF next
  <2> QED
    BY <1>5, <1>11, <2>1, HeadMoves DEF e
<1>13. AppleLies(r)
  BY <1>10, <1>11 DEF AppleLies
<1>14. Lives(r, e, m + 1)
  <2>1. m + 1 >= 3
    BY <1>5
  <2> HIDE DEF p, moved, next
  <2>2. Whole(r, e, m + 1) /\ r.taken \subseteq BoardCells
    BY <1>12
  <2>3. \A i \in 2..(m + 1) : beside(e[i - 1], e[i])
    BY <1>12
  <2>4. Heading(r, e, m + 1)
    <3>1. 2 \in 2..(m + 1)
      BY <1>5
    <3> QED
      BY <1>12, <3>1
  <2> QED
    BY <1>13, <2>1, <2>2, <2>3, <2>4 DEF Lives
<1> QED
  BY <1>14 DEF r

\* Every step of the game keeps the invariant.
LEMMA SnakeSteps == SnakeInv /\ [SnakeNext]_snake_vars => SnakeInv'
<1> SUFFICES ASSUME SnakeInv, [SnakeNext]_snake_vars PROVE SnakeInv'
  OBVIOUS
<1>1. CASE new_game
  BY <1>1, GameBegins
<1>2. ASSUME NEW dir \in KeyDirections, read_keys(dir) PROVE SnakeInv'
  <2>1. PICK b, n : Lives(snake, b, n)
    BY <1>2 DEF SnakeInv, read_keys
  <2>2. CASE turns(snake, dir)
    <3>1. snake' = [snake EXCEPT !.dir = dir, !.turned = TRUE]
      BY <1>2, <2>2 DEF read_keys
    <3>2. Lives([snake EXCEPT !.dir = dir, !.turned = TRUE], b, n)
      BY <2>1, <2>2, TurnLives
    <3> QED
      BY <3>1, <3>2 DEF SnakeInv
  <2>3. CASE ~turns(snake, dir)
    BY <1>2, <2>1, <2>3 DEF read_keys, SnakeInv
  <2> QED
    BY <2>2, <2>3
<1>3. CASE advance
  BY <1>3, AdvanceLives
<1>4. CASE leave_snake
  BY <1>4 DEF leave_snake, SnakeInv
<1>5. CASE UNCHANGED snake_vars
  BY <1>5 DEF snake_vars, SnakeInv
<1> QED
  BY <1>1, <1>2, <1>3, <1>4, <1>5 DEF SnakeNext

\* The neck is not ahead.
LEMMA NeckBehind ==
  ASSUME NEW s, NEW b, NEW n, Lives(s, b, n), on_board(ahead(s))
  PROVE  cell_at(ahead(s).row, ahead(s).col) # b[n - 1]
<1> DEFINE spot == ahead(s)
           next == cell_at(spot.row, spot.col)
<1> SUFFICES ASSUME next = b[n - 1] PROVE FALSE
  OBVIOUS
<1>1. s \in SnakeType /\ n \in Nat /\ n >= 3 /\ Whole(s, b, n) /\ \A i \in 1..n : b[i] \in BoardCells
  BY LivesTyped DEF Lives
<1>2. PICK d \in KeyDirections : Goes(b[n - 1], b[n], d) /\ s.dir # opposite(d)
  BY DEF Lives, Heading
<1>3. /\ spot.col \in 0..(SnakeCols - 1) /\ spot.row \in 0..(SnakeRows - 1)
      /\ spot.col = col_of(b[n]) + s.dir[1] /\ spot.row = row_of(b[n]) + s.dir[2]
  BY <1>1, BodyIs DEF on_board, ahead
<1>4. n - 1 \in 1..n /\ n \in 1..n
  BY <1>1
<1>5. row_of(next) = spot.row /\ col_of(next) = spot.col
  BY <1>3, CellIs
<1> HIDE DEF next, spot
<1>6. /\ row_of(b[n]) \in Int /\ col_of(b[n]) \in Int
      /\ row_of(b[n - 1]) \in Int /\ col_of(b[n - 1]) \in Int
  BY <1>1, <1>4, BoardIs, SnakeAssumption
<1>7. /\ s.dir \in KeyDirections /\ opposite(d) \in KeyDirections
      /\ opposite(d)[1] = -d[1] /\ opposite(d)[2] = -d[2]
      /\ d[1] \in Int /\ d[2] \in Int /\ s.dir[1] \in Int /\ s.dir[2] \in Int
  BY <1>1, Directions DEF SnakeType
<1>8. s.dir[1] = opposite(d)[1] /\ s.dir[2] = opposite(d)[2]
  BY <1>2, <1>3, <1>5, <1>6, <1>7 DEF Goes
<1> QED
  BY <1>2, <1>7, <1>8, Directions

\* On a board of any size the ring and the table describe one snake that lies on the
\* board, from tail to head, each cell once and beside the one before, the apple off
\* it while there is room, and no turns between two steps point it at its own neck
\* (push_head, pop_tail, place_apple, advance and the keys of snake.c).
THEOREM SnakeStaysOne == SnakeSpec => []SnakeIsOneBody
<1>1. SnakeInit => SnakeInv
  BY DEF SnakeInit, SnakeInv
<1>2. SnakeInv => SnakeIsOneBody
  <2> SUFFICES ASSUME SnakeInv, phase = "PLAYING"
               PROVE  /\ {body(snake)[i] : i \in 1..snake.length} = snake.taken
                      /\ snake.taken \subseteq BoardCells
                      /\ \A i, j \in 1..snake.length : body(snake)[i] = body(snake)[j] => i = j
                      /\ \A i \in 2..snake.length : beside(body(snake)[i - 1], body(snake)[i])
                      /\ snake.apple \in snake.taken => snake.taken = BoardCells
                      /\ on_board(ahead(snake)) =>
                           cell_at(ahead(snake).row, ahead(snake).col) # body(snake)[snake.length - 1]
    BY DEF SnakeIsOneBody
  <2>1. PICK b, n : Lives(snake, b, n)
    BY DEF SnakeInv
  <2>2. /\ snake.length = n /\ n \in Nat /\ n >= 3 /\ snake.taken = {b[i] : i \in 1..n}
        /\ \A i, j \in 1..n : b[i] = b[j] => i = j
        /\ Whole(snake, b, n) /\ snake.taken \subseteq BoardCells
        /\ \A i \in 2..n : beside(b[i - 1], b[i]) /\ AppleLies(snake)
    <3>1. 2 \in 2..n
      BY <2>1, LivesTyped
    <3> QED
      BY <2>1, <3>1, LivesTyped DEF Lives
  <2>3. \A i \in 1..n : body(snake)[i] = b[i]
    BY <2>2, BodyIs
  <2>4. n - 1 \in 1..n /\ \A i \in 2..n : i \in 1..n /\ i - 1 \in 1..n /\ 2 \in 2..n
    BY <2>2
  <2>5. {body(snake)[i] : i \in 1..n} = snake.taken
    BY <2>2, <2>3
  <2>6. \A i, j \in 1..n : body(snake)[i] = body(snake)[j] => i = j
    BY <2>2, <2>3
  <2>7. \A i \in 2..n : beside(body(snake)[i - 1], body(snake)[i])
    BY <2>2, <2>3, <2>4
  <2>8. on_board(ahead(snake)) =>
          cell_at(ahead(snake).row, ahead(snake).col) # body(snake)[n - 1]
    BY <2>1, <2>3, <2>4, NeckBehind
  <2>9. AppleLies(snake)
    BY <2>1 DEF Lives
  <2> QED
    BY <2>2, <2>5, <2>6, <2>7, <2>8, <2>9 DEF AppleLies
<1> QED
  BY <1>1, <1>2, SnakeSteps, PTL DEF SnakeSpec

----------------------------------------------------------------------------
(* Texts (Commands) *)

\* Every word there may be: one somebody types, or a number a command writes.
Words == STRING \cup {NewLine, Said} \cup {number_word(n) : n \in Nat}
Text == Seq(Words)
Lines == Seq(Text)

\* What a sequence cut to n places is.
IsCut(c, n, t, S) ==
  /\ c \in Seq(S) /\ Len(c) = IF Len(t) <= n THEN Len(t) ELSE n
  /\ \A i \in 1..Len(c) : c[i] = t[i]

\* What a sequence cut to n places is: as long as it was or n, with the same in front.
LEMMA CutIs ==
  ASSUME NEW S, NEW t \in Seq(S), NEW n \in Nat
  PROVE  IsCut(cut_to(n, t), n, t, S)
<1>1. CASE Len(t) <= n
  BY <1>1 DEF cut_to, IsCut
<1>2. CASE ~(Len(t) <= n)
  <2>1. Len(t) \in Nat /\ \A i \in 1..n : t[i] \in S
    BY <1>2
  <2>2. cut_to(n, t) = SubSeq(t, 1, n)
    BY <1>2 DEF cut_to
  <2>3. /\ SubSeq(t, 1, n) \in Seq(S) /\ Len(SubSeq(t, 1, n)) = n
        /\ \A i \in 1..n : SubSeq(t, 1, n)[i] = t[i]
    BY <2>1, SubSeqProperties
  <2> QED
    BY <1>2, <2>1, <2>2, <2>3 DEF IsCut
<1> QED
  BY <1>1, <1>2

\* Cutting what is put after a text that was cut already.
LEMMA CutAgain ==
  ASSUME NEW S, NEW s \in Seq(S), NEW t \in Seq(S), NEW n \in Nat
  PROVE  cut_to(n, cut_to(n, s) \o t) = cut_to(n, s \o t)
<1> DEFINE c == cut_to(n, s)
           a == cut_to(n, c \o t)
           b == cut_to(n, s \o t)
<1>1. IsCut(c, n, s, S)
  BY CutIs
<1>2. c \in Seq(S) /\ Len(c) \in Nat /\ Len(s) \in Nat /\ Len(t) \in Nat
  BY <1>1 DEF IsCut
<1> HIDE DEF c
<1>3. CASE Len(s) <= n
  <2>1. c = s
    BY <1>3 DEF c, cut_to
  <2> QED
    BY <2>1 DEF c
<1>4. CASE ~(Len(s) <= n)
  <2>1. Len(c) = n /\ \A i \in 1..n : c[i] = s[i]
    BY <1>1, <1>4, <1>2 DEF IsCut
  <2>2. /\ c \o t \in Seq(S) /\ Len(c \o t) = n + Len(t)
        /\ \A i \in 1..n : (c \o t)[i] = s[i]
    <3>1. /\ c \o t \in Seq(S) /\ Len(c \o t) = Len(c) + Len(t)
          /\ \A i \in 1..(Len(c) + Len(t)) : (c \o t)[i] = IF i <= Len(c) THEN c[i] ELSE t[i - Len(c)]
      BY <1>2, ConcatProperties
    <3>2. \A i \in 1..n : i \in 1..(Len(c) + Len(t)) /\ i <= Len(c)
      BY <2>1, <1>2
    <3> QED
      BY <3>1, <3>2, <2>1
  <2>3. /\ s \o t \in Seq(S) /\ Len(s \o t) = Len(s) + Len(t)
        /\ \A i \in 1..n : (s \o t)[i] = s[i]
    BY <1>2, <1>4, ConcatProperties
  <2>4. IsCut(a, n, c \o t, S) /\ IsCut(b, n, s \o t, S)
    BY <2>2, <2>3, CutIs
  <2> HIDE DEF a, b
  <2>5. /\ a \in Seq(S) /\ b \in Seq(S) /\ Len(a) = n /\ Len(b) = n
        /\ \A i \in 1..n : a[i] = b[i]
    BY <2>2, <2>3, <2>4, <1>2, <1>4 DEF IsCut
  <2>6. a = b
    BY <2>5, SeqEqual
  <2> QED
    BY <2>6 DEF a, b, c
<1> QED
  BY <1>3, <1>4

\* first_of finds a place of the line, or none.
LEMMA FirstOf ==
  ASSUME NEW S, NEW line \in Seq(S), NEW w
  PROVE  first_of(w, line) \in 0..Len(line)
<1> DEFINE I == {i \in 1..Len(line) : line[i] = w}
<1>1. first_of(w, line) = IF I # {} THEN CHOOSE x \in I : \A y \in I : x <= y ELSE 0
  BY DEF first_of, SelectInSeq, Min
<1>2. CASE I # {}
  <2>1. I \in SUBSET Nat
    OBVIOUS
  <2>2. \E x \in I : \A y \in I : x <= y
    BY <1>2, <2>1, LeastNat
  <2>3. first_of(w, line) \in I
    BY <1>1, <1>2, <2>2
  <2> QED
    BY <2>3
<1>3. CASE I = {}
  BY <1>1, <1>3
<1> QED
  BY <1>2, <1>3

\* A part of a text is a text.
LEMMA PartIs ==
  ASSUME NEW S, NEW t \in Seq(S), NEW m \in 1..(Len(t) + 1), NEW n \in 0..Len(t)
  PROVE  SubSeq(t, m, n) \in Seq(S)
<1>1. \A i \in m..n : t[i] \in S
  OBVIOUS
<1> QED
  BY <1>1, SubSeqProperties

\* What stands before the arrow of a redirected line, and after it, are words.
LEMMA RedirectIs ==
  ASSUME NEW line \in Text, is_redirect(line)
  PROVE  cmd_split_redirect(line).command \in Text /\ cmd_split_redirect(line).target \in Text
<1> DEFINE spot == first_of(ToFile, line)
<1>1. spot \in 0..Len(line) /\ spot # 0
  BY FirstOf DEF is_redirect, Text
<1> HIDE DEF spot
<1>2. SubSeq(line, 1, spot - 1) \in Text /\ SubSeq(line, spot + 1, Len(line)) \in Text
  BY <1>1, PartIs DEF Text
<1>3. cut_to(1, SubSeq(line, spot + 1, Len(line))) \in Text
  BY <1>2, CutIs DEF IsCut, Text
<1> QED
  BY <1>2, <1>3 DEF cmd_split_redirect, spot

\* The first stage of a line and what is left of it are words.
LEMMA PipeIs ==
  ASSUME NEW line \in Text
  PROVE  cmd_split_pipe(line).first \in Text /\ cmd_split_pipe(line).rest \in Text
<1> DEFINE spot == first_of(Bar, line)
<1>1. spot \in 0..Len(line) /\ Len(line) \in Nat
  BY FirstOf DEF Text
<1> HIDE DEF spot
<1>2. CASE spot = 0
  BY <1>2 DEF cmd_split_pipe, spot, Text
<1>3. CASE spot # 0
  <2>1. SubSeq(line, 1, spot - 1) \in Text /\ SubSeq(line, spot + 1, Len(line)) \in Text
    BY <1>1, <1>3, PartIs DEF Text
  <2> QED
    BY <2>1, <1>3 DEF cmd_split_pipe, spot
<1> QED
  BY <1>2, <1>3

\* A sequence of values each made from the one before.
Recurs(f, n, start, step) == f = [i \in 0..n |-> IF i = 0 THEN start ELSE step[i][f[i - 1]]]

Walks(w, S, steps, start) ==
  w \in [Nat -> S] /\ w[0] = start /\ \A k \in Nat : w[k + 1] = steps[k + 1][w[k]]

\* What IterateWalks says, for values of any kind.
LEMMA WalkExists ==
  ASSUME NEW S, NEW start \in S, NEW steps \in [Nat -> [S -> S]]
  PROVE  \E w : Walks(w, S, steps, start)
<1>1. Walks(Iterate(steps, start), S, steps, start)
  BY IterateWalks DEF Walks
<1> QED
  BY <1>1

\* A function defined by recursion over 0..n exists, and stays in the set its steps do.
LEMMA RecursExist ==
  ASSUME NEW S, NEW start \in S, NEW n \in Nat, NEW step \in [1..n -> [S -> S]]
  PROVE  \E f \in [0..n -> S] : Recurs(f, n, start, step)
<1>1. PICK steps \in [Nat -> [S -> S]] : \A k \in 1..n, x \in S : steps[k][x] = step[k][x]
  <2> DEFINE all == [k \in Nat |-> [x \in S |-> IF k \in 1..n THEN step[k][x] ELSE x]]
  <2>1. all \in [Nat -> [S -> S]]
    OBVIOUS
  <2>2. \A k \in 1..n, x \in S : all[k][x] = step[k][x]
    OBVIOUS
  <2> HIDE DEF all
  <2> QED
    BY <2>1, <2>2
<1>2. PICK w : Walks(w, S, steps, start)
  BY WalkExists
<1>3. /\ w \in [Nat -> S] /\ w[0] = start
      /\ \A k \in Nat : w[k + 1] = steps[k + 1][w[k]]
  BY <1>2 DEF Walks
<1> DEFINE f == [i \in 0..n |-> w[i]]
<1>4. f \in [0..n -> S]
  BY <1>3
<1>5. \A i \in 1..n : w[i] = step[i][w[i - 1]]
  <2> TAKE i \in 1..n
  <2>1. i - 1 \in Nat /\ (i - 1) + 1 = i
    OBVIOUS
  <2>2. w[i] = steps[i][w[i - 1]] /\ w[i - 1] \in S
    BY <1>3, <2>1
  <2> QED
    BY <2>2, <1>1
<1>6. \A i \in 0..n : f[i] = IF i = 0 THEN start ELSE step[i][f[i - 1]]
  <2> TAKE i \in 0..n
  <2>1. CASE i = 0
    BY <2>1, <1>3
  <2>2. CASE i # 0
    <3>1. i \in 1..n /\ i - 1 \in 0..n
      BY <2>2
    <3> QED
      BY <3>1, <2>2, <1>5
  <2> QED
    BY <2>1, <2>2
<1>7. DOMAIN f = 0..n
  OBVIOUS
<1> HIDE DEF f
<1>8. f = [i \in 0..n |-> IF i = 0 THEN start ELSE step[i][f[i - 1]]]
  BY <1>4, <1>6
<1> QED
  BY <1>4, <1>8 DEF Recurs

\* What is kept from one value to the next is kept throughout.
LEMMA RangeStays ==
  ASSUME NEW T, NEW n \in Nat, NEW f, f[0] \in T,
         \A k \in 1..n : f[k - 1] \in T => f[k] \in T
  PROVE  \A k \in 0..n : f[k] \in T
<1> DEFINE Out == {k \in 0..n : f[k] \notin T}
<1> SUFFICES ASSUME Out # {} PROVE FALSE
  OBVIOUS
<1>1. Out \in SUBSET Nat
  OBVIOUS
<1>2. PICK k \in Out : \A i \in Out : k <= i
  BY <1>1, LeastNat
<1>3. k \in 1..n /\ k - 1 \in 0..n /\ k - 1 \notin Out
  BY <1>2
<1> QED
  BY <1>2, <1>3

\* A word more of a text leaves lines, and at least one of them.
LEMMA WithWord ==
  ASSUME NEW lines \in Lines, lines # <<>>, NEW w \in Words
  PROVE  with_word(lines, w) \in Lines /\ with_word(lines, w) # <<>>
<1>1. Len(lines) \in Nat \ {0} /\ lines[Len(lines)] \in Text
  BY EmptySeq, LenProperties DEF Lines
<1>2. CASE w = NewLine
  <2>1. <<>> \in Text
    BY EmptySeq DEF Text
  <2>2. Append(lines, <<>>) \in Lines /\ Append(lines, <<>>) # <<>>
    BY <2>1, AppendProperties DEF Lines
  <2> QED
    BY <1>2, <2>2 DEF with_word
<1>3. CASE w # NewLine
  <2> DEFINE with_end == Append(lines[Len(lines)], w)
             l == [lines EXCEPT ![Len(lines)] = with_end]
  <2>1. with_end \in Text
    BY <1>1, AppendProperties DEF Text
  <2> HIDE DEF with_end
  <2>2. Len(lines) \in 1..Len(lines)
    BY <1>1
  <2>3. l \in Lines /\ Len(l) = Len(lines)
    BY <2>1, <2>2, ExceptSeq DEF Lines
  <2>4. l # <<>>
    BY <2>3, <1>1, EmptySeq DEF Lines
  <2>5. with_word(lines, w) = l
    BY <1>3 DEF with_word, with_end
  <2> QED
    BY <2>3, <2>4, <2>5
<1> QED
  BY <1>2, <1>3

\* The lines of a text are lines.
LEMMA LinesAre ==
  ASSUME NEW text \in Text
  PROVE  lines_of(text) \in Lines
<1> DEFINE S == {lines \in Lines : lines # <<>>}
           n == Len(text)
           start == << <<>> >>
           Eq(f) == f = [i \in 0..n |-> IF i = 0 THEN start ELSE with_word(f[i - 1], text[i])]
           step == [i \in 1..n |-> [x \in S |-> with_word(x, text[i])]]
           read == CHOOSE f : Eq(f)
<1>1. n \in Nat /\ \A i \in 1..n : text[i] \in Words
  BY LenProperties DEF Text
<1>2. start \in S
  <2>1. <<>> \in Text
    BY EmptySeq DEF Text
  <2> QED
    BY <2>1 DEF Lines
<1>3. \A i \in 1..n, x \in S : with_word(x, text[i]) \in S
  BY <1>1, WithWord
<1> HIDE DEF S, n, start
<1>4. step \in [1..n -> [S -> S]]
  BY <1>3
<1>5. \A i \in 1..n, x \in S : step[i][x] = with_word(x, text[i])
  OBVIOUS
<1> HIDE DEF step
<1>6. PICK f \in [0..n -> S] : Recurs(f, n, start, step)
  BY <1>1, <1>2, <1>4, RecursExist
<1>7. Eq(f)
  <2>1. \A i \in 0..n : i # 0 => step[i][f[i - 1]] = with_word(f[i - 1], text[i])
    <3> SUFFICES ASSUME NEW i \in 0..n, i # 0 PROVE step[i][f[i - 1]] = with_word(f[i - 1], text[i])
      OBVIOUS
    <3>1. i \in 1..n /\ i - 1 \in 0..n
      BY <1>1
    <3> QED
      BY <3>1, <1>5, <1>6
  <2> QED
    BY <1>6, <2>1 DEF Recurs
<1>8. Eq(read)
  BY <1>7
<1> HIDE DEF read
<1>9. read[0] \in S
  <2>1. 0 \in 0..n
    BY <1>1
  <2> QED
    BY <2>1, <1>8, <1>2
<1>10. \A i \in 1..n : read[i - 1] \in S => read[i] \in S
  <2> SUFFICES ASSUME NEW i \in 1..n, read[i - 1] \in S PROVE read[i] \in S
    OBVIOUS
  <2>1. i \in 0..n /\ i # 0
    BY <1>1
  <2>2. read[i] = with_word(read[i - 1], text[i])
    BY <2>1, <1>8
  <2> QED
    BY <2>2, <1>3
<1>11. \A i \in 0..n : read[i] \in S
  BY <1>1, <1>9, <1>10, RangeStays
<1> DEFINE all == read[n]
<1>12. all \in Lines /\ all # <<>>
  <2>1. n \in 0..n
    BY <1>1
  <2> QED
    BY <2>1, <1>11 DEF S
<1>13. lines_of(text) = IF Last(all) = <<>> THEN Front(all) ELSE all
  BY DEF lines_of, read, n, start
<1> HIDE DEF all
<1>14. Len(all) \in Nat \ {0} /\ \A i \in 1..(Len(all) - 1) : all[i] \in Text
  BY <1>12, EmptySeq, LenProperties DEF Lines
<1>15. Front(all) \in Lines
  BY <1>14, SubSeqProperties DEF Front, Lines
<1> QED
  BY <1>12, <1>13, <1>15

\* What has been joined of some sequences after each of them.
FlattenedBy(f, S, seqs) ==
  /\ f \in [0..Len(seqs) -> Seq(S)] /\ f[0] = <<>>
  /\ \A i \in 1..Len(seqs) : f[i] = f[i - 1] \o seqs[i]

\* FlattenSeq joins them one after the other.
LEMMA FlattenWalk ==
  ASSUME NEW S, NEW seqs \in Seq(Seq(S))
  PROVE  \E f : FlattenedBy(f, S, seqs) /\ FlattenSeq(seqs) = f[Len(seqs)]
<1> DEFINE n == Len(seqs)
           T == Seq(S)
           Eq(f) == f = [i \in 1..n |-> IF i = 1 THEN seqs[i] ELSE f[i - 1] \o seqs[i]]
           step == [i \in 1..n |-> [x \in T |-> x \o seqs[i]]]
           flat == CHOOSE f : Eq(f)
<1>1. n \in Nat /\ (\A i \in 1..n : seqs[i] \in T) /\ <<>> \in T
  BY LenProperties, EmptySeq
<1>2. \A i \in 1..n, x \in T : x \o seqs[i] \in T
  BY <1>1, ConcatProperties
<1>3. FlattenSeq(seqs) = IF n = 0 THEN seqs ELSE flat[n]
  BY DEF FlattenSeq
<1>4. n = 0 => seqs = <<>>
  BY EmptySeq
<1>5. \A x \in T : <<>> \o x = x
  BY ConcatEmptySeq
<1> HIDE DEF n, T
<1>6. step \in [1..n -> [T -> T]] /\ \A i \in 1..n, x \in T : step[i][x] = x \o seqs[i]
  BY <1>1, <1>2
<1> HIDE DEF step
<1>7. PICK h \in [0..n -> T] : Recurs(h, n, <<>>, step)
  BY <1>1, <1>6, RecursExist
<1>8. h[0] = <<>> /\ \A i \in 1..n : h[i] = h[i - 1] \o seqs[i]
  <2>1. h[0] = <<>>
    BY <1>1, <1>7 DEF Recurs
  <2>2. ASSUME NEW i \in 1..n PROVE h[i] = h[i - 1] \o seqs[i]
    <3>1. i \in 0..n /\ i # 0 /\ i - 1 \in 0..n
      BY <1>1
    <3>2. h[i] = step[i][h[i - 1]] /\ h[i - 1] \in T
      BY <3>1, <1>7 DEF Recurs
    <3> QED
      BY <3>2, <1>6
  <2> QED
    BY <2>1, <2>2
<1> DEFINE g == [i \in 1..n |-> h[i]]
<1>9. Eq(g)
  <2>1. \A i \in 1..n : g[i] = IF i = 1 THEN seqs[i] ELSE g[i - 1] \o seqs[i]
    <3> TAKE i \in 1..n
    <3>1. i # 1 => i - 1 \in 1..n
      BY <1>1
    <3>2. CASE i = 1
      <4>1. h[1] = <<>> \o seqs[1]
        <5>1. 1 - 1 = 0 /\ 1 \in 1..n
          BY <3>2
        <5>2. h[1] = h[1 - 1] \o seqs[1]
          BY <5>1, <1>8
        <5> QED
          BY <5>1, <5>2, <1>8
      <4> QED
        BY <3>2, <4>1, <1>1, <1>5
    <3>3. CASE i # 1
      BY <3>1, <3>3, <1>8
    <3> QED
      BY <3>2, <3>3
  <2>2. g = [i \in 1..n |-> g[i]]
    OBVIOUS
  <2> HIDE DEF g
  <2> QED
    BY <2>1, <2>2
<1>10. Eq(flat)
  BY <1>9
<1> HIDE DEF flat, g
<1>11. \A i \in 0..n : i # 0 => flat[i] = h[i]
  <2> DEFINE same == [i \in 0..n |-> IF i = 0 THEN <<TRUE>> ELSE <<flat[i] = h[i]>>]
  <2>1. same[0] \in {<<TRUE>>}
    BY <1>1
  <2>2. ASSUME NEW i \in 1..n, same[i - 1] \in {<<TRUE>>} PROVE same[i] \in {<<TRUE>>}
    <3>1. i \in 0..n /\ i - 1 \in 0..n /\ (i - 1 # 0 => i - 1 \in 1..n) /\ (i = 1 <=> i - 1 = 0)
      BY <1>1
    <3>2. i - 1 # 0 => flat[i - 1] = h[i - 1]
      BY <2>2, <3>1
    <3>3. flat[i] = IF i = 1 THEN seqs[i] ELSE flat[i - 1] \o seqs[i]
      BY <1>10
    <3>4. h[i] = h[i - 1] \o seqs[i] /\ (i = 1 => h[i] = seqs[i])
      BY <1>8, <1>5, <1>1, <3>1
    <3>5. flat[i] = h[i]
      BY <3>1, <3>2, <3>3, <3>4
    <3> QED
      BY <3>1, <3>5
  <2> HIDE DEF same
  <2>3. \A i \in 0..n : same[i] \in {<<TRUE>>}
    BY <1>1, <2>1, <2>2, RangeStays
  <2> QED
    BY <2>3 DEF same
<1>12. FlattenSeq(seqs) = h[n]
  BY <1>1, <1>3, <1>4, <1>8, <1>11
<1>13. FlattenedBy(h, S, seqs)
  BY <1>7, <1>8 DEF FlattenedBy, n, T
<1> QED
  BY <1>12, <1>13 DEF n

\* Joining sequences over a set leaves a sequence over it.
LEMMA FlattenIs ==
  ASSUME NEW S, NEW seqs \in Seq(Seq(S))
  PROVE  FlattenSeq(seqs) \in Seq(S)
<1>1. PICK f : FlattenedBy(f, S, seqs) /\ FlattenSeq(seqs) = f[Len(seqs)]
  BY FlattenWalk
<1>2. f \in [0..Len(seqs) -> Seq(S)] /\ Len(seqs) \in 0..Len(seqs)
  BY <1>1 DEF FlattenedBy
<1> QED
  BY <1>1, <1>2

\* The lines that are shown are a text.
LEMMA ShownIs ==
  ASSUME NEW lines \in Lines, NEW shown
  PROVE  put_shown(lines, shown) \in Text
<1> DEFINE n == Len(lines)
           ended_lines == [i \in DOMAIN lines |-> IF i \in shown THEN Append(lines[i], NewLine) ELSE <<>>]
<1>1. n \in Nat /\ DOMAIN lines = 1..n /\ \A i \in 1..n : lines[i] \in Text
  BY LenProperties DEF Lines
<1>2. NewLine \in Words /\ <<>> \in Text
  <2>1. NewLine \in Words
    BY DEF Words
  <2> QED
    BY <2>1, EmptySeq DEF Text
<1>3. \A i \in 1..n : Append(lines[i], NewLine) \in Text
  BY <1>1, <1>2, AppendProperties DEF Text
<1> HIDE DEF n
<1>4. ended_lines \in [1..n -> Text]
  BY <1>1, <1>2, <1>3
<1> HIDE DEF ended_lines
<1>5. ended_lines \in Seq(Seq(Words))
  BY <1>4, <1>1 DEF Text
<1>6. FlattenSeq(ended_lines) \in Text
  BY <1>5, FlattenIs DEF Text
<1> QED
  BY <1>6 DEF put_shown, ended_lines

\* The least of the lines from the i-th on is one of them.
LEMMA LeastIs ==
  ASSUME NEW lines \in Lines, NEW i \in 1..Len(lines)
  PROVE  least_from(lines, i) \in i..Len(lines)
<1> DEFINE n == Len(lines)
           S == i..n
           Eq(f) == f = [j \in i..n |-> IF j = i THEN i
                                        ELSE IF before(lines[j], lines[f[j - 1]]) THEN j ELSE f[j - 1]]
           step == [j \in 1..n |-> [x \in S |->
                      IF j <= i THEN i ELSE IF before(lines[j], lines[x]) THEN j ELSE x]]
           least == CHOOSE f : Eq(f)
<1>1. n \in Nat /\ i \in 1..n
  BY LenProperties DEF Lines
<1>2. least_from(lines, i) = least[n]
  BY DEF least_from
<1> HIDE DEF n
<1>3. i \in Nat /\ i \in S /\ n \in i..n
  BY <1>1
<1>4. \A j \in 1..n, x \in S :
        (IF j <= i THEN i ELSE IF before(lines[j], lines[x]) THEN j ELSE x) \in S
  BY <1>1
<1>5. step \in [1..n -> [S -> S]]
  BY <1>4
<1>6. \A j \in 1..n, x \in S :
        step[j][x] = IF j <= i THEN i ELSE IF before(lines[j], lines[x]) THEN j ELSE x
  OBVIOUS
<1> HIDE DEF step
<1>7. PICK h \in [0..n -> S] : Recurs(h, n, i, step)
  BY <1>1, <1>3, <1>5, RecursExist
<1> DEFINE g == [j \in i..n |-> h[j]]
<1>8. Eq(g)
  <2>1. \A j \in i..n : g[j] = IF j = i THEN i
                               ELSE IF before(lines[j], lines[g[j - 1]]) THEN j ELSE g[j - 1]
    <3> TAKE j \in i..n
    <3>1. j \in 1..n /\ j \in 0..n /\ j # 0 /\ j - 1 \in 0..n /\ (j # i => j - 1 \in i..n)
      BY <1>1
    <3>2. h[j] = step[j][h[j - 1]] /\ h[j - 1] \in S
      BY <3>1, <1>7 DEF Recurs
    <3>3. h[j] = IF j <= i THEN i ELSE IF before(lines[j], lines[h[j - 1]]) THEN j ELSE h[j - 1]
      BY <3>1, <3>2, <1>6
    <3>4. CASE j = i
      BY <3>3, <3>4, <1>3
    <3>5. CASE j # i
      <4>1. ~(j <= i)
        BY <3>5, <1>1
      <4>2. g[j - 1] = h[j - 1]
        BY <3>1, <3>5
      <4> QED
        BY <3>3, <3>5, <4>1, <4>2
    <3> QED
      BY <3>4, <3>5
  <2>2. g = [j \in i..n |-> g[j]]
    OBVIOUS
  <2> HIDE DEF g, S
  <2> QED
    BY <2>1, <2>2
<1>9. Eq(least)
  BY <1>8
<1> HIDE DEF least, g
<1> DEFINE k0 == [j \in 0..n |-> IF j < i THEN i ELSE least[j]]
<1>10. \A j \in 0..n : k0[j] \in S
  <2>1. k0[0] \in S
    BY <1>1, <1>3
  <2>2. \A j \in 1..n : k0[j - 1] \in S => k0[j] \in S
    <3> SUFFICES ASSUME NEW j \in 1..n, k0[j - 1] \in S PROVE k0[j] \in S
      OBVIOUS
    <3>1. j \in 0..n /\ j - 1 \in 0..n /\ j \in Nat /\ n \in Nat
      BY <1>1
    <3>2. CASE j < i
      BY <3>1, <3>2, <1>3
    <3>3. CASE j = i
      <4>1. least[i] = i
        BY <1>9, <1>1
      <4> QED
        BY <4>1, <3>1, <3>3, <1>3
    <3>4. CASE j > i
      <4>1. j \in i..n /\ j # i /\ ~(j - 1 < i) /\ ~(j < i)
        BY <3>1, <3>4, <1>3
      <4>2. least[j] = IF before(lines[j], lines[least[j - 1]]) THEN j ELSE least[j - 1]
        BY <4>1, <1>9
      <4>3. k0[j - 1] = least[j - 1] /\ k0[j] = least[j]
        BY <3>1, <4>1
      <4> HIDE DEF k0
      <4> QED
        BY <4>1, <4>2, <4>3
    <3> QED
      BY <3>1, <3>2, <3>3, <3>4, <1>3
  <2> HIDE DEF k0, S
  <2> QED
    BY <1>1, <2>1, <2>2, RangeStays
<1>11. k0[n] = least[n]
  BY <1>1
<1> QED
  BY <1>1, <1>2, <1>10, <1>11 DEF n

\* Two lines trading places are still those lines.
LEMMA SwappedIs ==
  ASSUME NEW lines \in Lines, NEW i \in 1..Len(lines), NEW j \in 1..Len(lines)
  PROVE  swapped(lines, i, j) \in Lines /\ Len(swapped(lines, i, j)) = Len(lines)
<1> DEFINE a == lines[i]
           b == lines[j]
           once == [lines EXCEPT ![i] = b]
<1>1. a \in Text /\ b \in Text
  BY ElementOfSeq DEF Lines
<1>2. swapped(lines, i, j) = [once EXCEPT ![j] = a]
  BY DEF swapped
<1> HIDE DEF a, b
<1>3. once \in Lines /\ Len(once) = Len(lines)
  BY <1>1, ExceptSeq DEF Lines
<1> HIDE DEF once
<1>4. [once EXCEPT ![j] = a] \in Lines /\ Len([once EXCEPT ![j] = a]) = Len(once)
  BY <1>1, <1>3, ExceptSeq DEF Lines
<1> QED
  BY <1>2, <1>3, <1>4

\* The selection sort of cmdsort.c leaves lines.
LEMMA SortedIs ==
  ASSUME NEW lines \in Lines
  PROVE  sorted(lines) \in Lines
<1> DEFINE n == Len(lines)
           S == {l \in Lines : Len(l) = n}
           turn(x, i) == swapped(x, i, least_from(x, i))
           Eq(f) == f = [i \in 0..n |-> IF i = 0 THEN lines ELSE turn(f[i - 1], i)]
           step == [i \in 1..n |-> [x \in S |-> turn(x, i)]]
           after == CHOOSE f : Eq(f)
<1>1. n \in Nat /\ lines \in S
  BY LenProperties DEF Lines
<1>2. sorted(lines) = after[n]
  BY DEF sorted
<1>3. \A i \in 1..n, x \in S : turn(x, i) \in S
  <2> SUFFICES ASSUME NEW i \in 1..n, NEW x \in S PROVE turn(x, i) \in S
    OBVIOUS
  <2>1. x \in Lines /\ Len(x) = n /\ i \in 1..Len(x)
    OBVIOUS
  <2>2. least_from(x, i) \in 1..Len(x)
    <3>1. least_from(x, i) \in i..Len(x)
      BY <2>1, LeastIs
    <3> QED
      BY <3>1, <2>1, <1>1
  <2> HIDE DEF n
  <2> QED
    BY <2>1, <2>2, SwappedIs
<1> HIDE DEF n, S, turn
<1>4. step \in [1..n -> [S -> S]]
  BY <1>3
<1>5. \A i \in 1..n, x \in S : step[i][x] = turn(x, i)
  OBVIOUS
<1> HIDE DEF step
<1>6. PICK h \in [0..n -> S] : Recurs(h, n, lines, step)
  BY <1>1, <1>4, RecursExist
<1>7. Eq(h)
  <2>1. \A i \in 0..n : i # 0 => step[i][h[i - 1]] = turn(h[i - 1], i)
    <3> SUFFICES ASSUME NEW i \in 0..n, i # 0 PROVE step[i][h[i - 1]] = turn(h[i - 1], i)
      OBVIOUS
    <3>1. i \in 1..n /\ i - 1 \in 0..n
      BY <1>1
    <3> QED
      BY <3>1, <1>5, <1>6
  <2> QED
    BY <1>6, <2>1 DEF Recurs
<1>8. Eq(after)
  BY <1>7
<1> HIDE DEF after
<1>9. after[0] \in S
  <2>1. 0 \in 0..n
    BY <1>1
  <2> QED
    BY <2>1, <1>8, <1>1
<1>10. \A i \in 1..n : after[i - 1] \in S => after[i] \in S
  <2> SUFFICES ASSUME NEW i \in 1..n, after[i - 1] \in S PROVE after[i] \in S
    OBVIOUS
  <2>1. i \in 0..n /\ i # 0
    BY <1>1
  <2>2. after[i] = turn(after[i - 1], i)
    BY <2>1, <1>8
  <2> QED
    BY <2>2, <1>3
<1>11. after[n] \in S
  BY <1>1, <1>9, <1>10, RangeStays
<1> QED
  BY <1>2, <1>11 DEF S

\* The words of the messages, and the texts made of few words.
LEMMA WordsAre ==
  /\ NewLine \in Words /\ Said \in Words /\ \A n \in Nat : number_word(n) \in Words
  /\ <<>> \in Text /\ <<NewLine>> \in Text /\ <<Said, NewLine>> \in Text
  /\ \A w \in Words : <<Said, w, NewLine>> \in Text /\ <<w>> \in Text
<1>1. NewLine \in Words /\ Said \in Words /\ \A n \in Nat : number_word(n) \in Words
  <2>1. NewLine \in Words
    BY DEF Words
  <2>2. Said \in Words
    BY DEF Words
  <2>3. \A n \in Nat : number_word(n) \in Words
    BY DEF Words
  <2> QED
    BY <2>1, <2>2, <2>3
<1> QED
  BY <1>1, EmptySeq DEF Text

\* What CAT says is a text.
LEMMA CatIs ==
  ASSUME NEW text \in Text
  PROVE  cat(text) \in Text
<1>1. Append(text, NewLine) \in Text
  BY WordsAre, AppendProperties DEF Text
<1> QED
  BY <1>1, WordsAre DEF cat

\* What GREP says is a text.
LEMMA GrepIs ==
  ASSUME NEW text \in Text, NEW needle \in Words
  PROVE  grep(needle, text) \in Text
<1>1. \A shown : put_shown(lines_of(text), shown) \in Text
  BY LinesAre, ShownIs
<1> QED
  BY <1>1, WordsAre DEF grep

\* What HEAD and TAIL say is a text.
LEMMA HeadIs ==
  ASSUME NEW text \in Text, NEW n
  PROVE  head(n, text) \in Text /\ tail(n, text) \in Text
BY LinesAre, ShownIs DEF head, tail

\* What SORT says is a text.
LEMMA SortIs ==
  ASSUME NEW text \in Text
  PROVE  sort(text) \in Text
<1> DEFINE lines == lines_of(text)
           sorted_lines == sorted(cut_to(SORT_MAX_LINES, lines))
           more == IF Len(lines) > SORT_MAX_LINES THEN <<Said, NewLine>> ELSE <<>>
<1>1. lines \in Lines
  BY LinesAre
<1> HIDE DEF lines
<1>2. SORT_MAX_LINES \in Nat
  BY CommandsAssumption
<1>3. cut_to(SORT_MAX_LINES, lines) \in Lines
  BY <1>1, <1>2, CutIs DEF IsCut, Lines
<1>4. sorted_lines \in Lines
  BY <1>3, SortedIs
<1> HIDE DEF sorted_lines
<1>5. put_shown(sorted_lines, DOMAIN sorted_lines) \in Text
  BY <1>4, ShownIs
<1>6. more \in Text
  BY WordsAre
<1> HIDE DEF more
<1>7. put_shown(sorted_lines, DOMAIN sorted_lines) \o more \in Text
  BY <1>5, <1>6, ConcatProperties DEF Text
<1> QED
  BY <1>7 DEF sort, sorted_lines, lines, more

\* What WC says is a text.
LEMMA WcIs ==
  ASSUME NEW text \in Text, NEW path \in Text
  PROVE  wc(text, path) \in Text
<1> DEFINE places == {i \in DOMAIN text : text[i] = NewLine}
           breaks == Cardinality(places)
           first == number_word(IF text = <<>> THEN 0 ELSE breaks + 1)
           second == number_word(Len(text) - breaks)
           third == number_word(Len(text))
<1>1. Len(text) \in Nat /\ DOMAIN text = 1..Len(text)
  BY LenProperties DEF Text
<1>2. breaks \in Nat /\ breaks <= Len(text)
  <2> DEFINE n == Len(text)
  <2>1. IsFiniteSet(1..n) /\ Cardinality(1..n) = n
    <3>1. n \in Nat
      BY <1>1
    <3> HIDE DEF n
    <3> QED
      BY <3>1, FS_Interval
  <2>2. places \subseteq 1..Len(text)
    BY <1>1
  <2> HIDE DEF places
  <2> QED
    BY <2>1, <2>2, FS_Subset, FS_CardinalityType
<1> HIDE DEF breaks
<1>3. first \in Words /\ second \in Words /\ third \in Words
  <2>1. breaks + 1 \in Nat /\ Len(text) - breaks \in Nat
    BY <1>1, <1>2
  <2> QED
    BY <2>1, <1>1, WordsAre
<1> HIDE DEF first, second, third
<1>4. <<first, second, third>> \in Text
  BY <1>3 DEF Text
<1>5. <<first, second, third>> \o path \in Text
  BY <1>4, ConcatProperties DEF Text
<1>6. (<<first, second, third>> \o path) \o <<NewLine>> \in Text
  BY <1>5, WordsAre, ConcatProperties DEF Text
<1> QED
  BY <1>6 DEF wc, first, second, third, breaks

\* The files and the pipes, as the commands find them.
Pipes == {"a", "b"} \X Levels
FilesOK(fs) == \A name \in DOMAIN fs : fs[name] \in Text
Readable ==
  /\ FilesOK(files) /\ input \in Pipes \cup {Nothing} /\ \A p \in Pipes : pipes[p] \in Text

\* What a filter reads, from a file or from the pipe, is a text.
LEMMA InputIs ==
  ASSUME Readable, NEW path, has_input(path)
  PROVE  cmd_input_text(path) \in Text
<1>1. CASE path = <<>>
  BY <1>1 DEF has_input, cmd_input_text, Readable
<1>2. CASE path # <<>>
  BY <1>2 DEF has_input, cmd_input_text, Readable, FilesOK, a_file
<1> QED
  BY <1>1, <1>2

\* The words after the first are words.
LEMMA RestIs ==
  ASSUME NEW words \in Text, words # <<>>
  PROVE  Tail(words) \in Text /\ words[1] \in Words
<1>1. Len(words) \in Nat \ {0}
  BY EmptySeq DEF Text
<1>2. words[1] \in Words
  BY <1>1, ElementOfSeq DEF Text
<1> QED
  BY <1>2, HeadTailProperties DEF Text

\* So whatever a filter is called with, it says a text.
LEMMA FilterSays ==
  ASSUME Readable, NEW name, NEW rest \in Text
  PROVE  filter_says(name, rest) \in Text
<1>1. CASE (name = "GREP" /\ rest = <<>>) \/ ~has_input(path_of(name, rest))
  <2>1. filter_says(name, rest) = <<>> \o <<Said, NewLine>>
    BY <1>1 DEF filter_says, complaint
  <2>2. <<>> \o <<Said, NewLine>> \in Text
    BY WordsAre, ConcatProperties DEF Text
  <2> QED
    BY <2>1, <2>2
<1>2. CASE ~(name = "GREP" /\ rest = <<>>) /\ has_input(path_of(name, rest))
  <2> DEFINE text == cmd_input_text(path_of(name, rest))
  <2>1. text \in Text /\ filter_says(name, rest) = filtered(name, rest, text)
    BY <1>2, InputIs DEF filter_says
  <2> HIDE DEF text
  <2>2. name = "GREP" => rest[1] \in Words
    BY <1>2, RestIs
  <2>3. filtered(name, rest, text) \in Text
    BY <2>1, <2>2, CatIs, GrepIs, HeadIs, SortIs, WcIs DEF filtered
  <2> QED
    BY <2>1, <2>3
<1> QED
  BY <1>1, <1>2

\* A message is a text.
LEMMA ComplaintIs ==
  ASSUME NEW words \in Text
  PROVE  complaint(words) \in Text
<1>1. words \o <<Said, NewLine>> \in Text
  BY WordsAre, ConcatProperties DEF Text
<1> QED
  BY <1>1 DEF complaint

\* A file written leaves files that are texts.
LEMMA PutIn ==
  ASSUME NEW fs, FilesOK(fs), NEW name, NEW text \in Text
  PROVE  FilesOK(put_in(fs, name, text))
BY DEF FilesOK, put_in

\* And so does a file removed.
LEMMA WithoutIs ==
  ASSUME FilesOK(files), NEW name
  PROVE  FilesOK(without(name))
BY DEF FilesOK, without

\* And so does a write that was refused, with what it had already cleared.
LEMMA NotWritten ==
  ASSUME FilesOK(files), NEW name, NEW text, NEW fs \in not_written(name, text)
  PROVE  FilesOK(fs)
<1>1. fs = files \/ fs = put_in(files, name, <<>>)
  BY DEF not_written, written
<1> QED
  BY <1>1, PutIn, WordsAre

\* What is in a file is a text.
LEMMA FileIs ==
  ASSUME FilesOK(files), NEW path, a_file(path)
  PROVE  files[path[1]] \in Text
BY DEF a_file, FilesOK

\* Every command that changes files leaves files that are texts, refused or not.
LEMMA ChangedIs ==
  ASSUME FilesOK(files), NEW name, NEW rest \in Text, can_change(name, rest)
  PROVE  FilesOK(changed(name, rest)) /\ \A fs \in refusals(name, rest) : FilesOK(fs)
<1>1. CASE name = "RM"
  <2>1. changed(name, rest) = without(rest[1]) /\ refusals(name, rest) = {}
    BY <1>1 DEF changed, refusals
  <2> QED
    BY <2>1, WithoutIs
<1>2. CASE name = "TOUCH"
  <2>1. /\ changed(name, rest) = IF a_file(rest) THEN files ELSE put_in(files, rest[1], <<>>)
        /\ refusals(name, rest) = IF a_file(rest) THEN {} ELSE {files}
    BY <1>2 DEF changed, refusals, written
  <2> QED
    BY <2>1, PutIn, WordsAre
<1>3. CASE name = "WRITE"
  <2>1. /\ changed(name, rest) = put_in(files, rest[1], Tail(rest))
        /\ refusals(name, rest) = not_written(rest[1], Tail(rest))
    BY <1>3 DEF changed, refusals, written
  <2>2. rest # <<>>
    BY <1>3 DEF can_change
  <2>3. Tail(rest) \in Text
    BY <2>2, RestIs
  <2> QED
    BY <2>1, <2>3, PutIn, NotWritten
<1>4. CASE name \notin {"RM", "TOUCH", "WRITE"}
  <2>1. a_file(<<rest[1]>>)
    BY <1>4 DEF can_change
  <2>2. files[<<rest[1]>>[1]] \in Text
    BY <2>1, FileIs
  <2>3. files[rest[1]] \in Text
    BY <2>2
  <2>4. \A fs \in refusals(name, rest) : fs = files
    BY <1>4 DEF refusals
  <2>5. \/ changed(name, rest) = put_in(files, rest[2], files[rest[1]])
        \/ changed(name, rest) = put_in(without(rest[1]), rest[2], files[rest[1]])
    BY <1>4 DEF changed, written
  <2>6. FilesOK(without(rest[1]))
    BY WithoutIs
  <2> QED
    BY <2>3, <2>4, <2>5, <2>6, PutIn
<1> QED
  BY <1>1, <1>2, <1>3, <1>4

\* An answer that is a text, with files that are texts.
Answers(answer) == answer.says \in Text /\ FilesOK(answer.files)

\* An answer is sound when what it says and the files it leaves are.
LEMMA AnswerIs ==
  ASSUME NEW says \in Text, NEW fs, FilesOK(fs), NEW wanted
  PROVE  Answers(Answer(says, fs, wanted))
BY DEF Answers, Answer

\* The answers of the commands that change files are sound.
LEMMA ChangerAnswers ==
  ASSUME FilesOK(files), NEW name, NEW rest \in Text, NEW answer \in changer_answers(name, rest)
  PROVE  Answers(answer)
<1>1. complaint(cut_to(1, rest)) \in Text
  <2>1. cut_to(1, rest) \in Text
    BY CutIs DEF IsCut, Text
  <2> QED
    BY <2>1, ComplaintIs
<1>2. CASE ~can_change(name, rest)
  <2>1. answer = Answer(complaint(cut_to(1, rest)), files, wish)
    BY <1>2 DEF changer_answers
  <2> QED
    BY <2>1, <1>1, AnswerIs
<1>3. CASE can_change(name, rest)
  <2>1. \/ answer = Answer(<<>>, changed(name, rest), wish)
        \/ \E fs \in refusals(name, rest) : answer = Answer(complaint(cut_to(1, rest)), fs, wish)
    BY <1>3 DEF changer_answers
  <2>2. FilesOK(changed(name, rest)) /\ \A fs \in refusals(name, rest) : FilesOK(fs)
    BY <1>3, ChangedIs
  <2> QED
    BY <2>1, <2>2, <1>1, AnswerIs, WordsAre
<1> QED
  BY <1>2, <1>3

\* What a program prints is a text.
LEMMA ProgramSaysIs == ProgramSays \in Text
<1>1. ProgramSays \in Seq(STRING) /\ STRING \subseteq Words
  BY CommandsAssumption DEF Words
<1> QED
  BY <1>1, SeqMonotonic DEF Text

\* So every answer to every command is sound.
LEMMA AnswersAre ==
  ASSUME Readable, NEW words \in Text, NEW answer \in answers(words)
  PROVE  Answers(answer)
<1>1. FilesOK(files)
  BY DEF Readable
<1>2. CASE words = <<>>
  <2>1. answer = Answer(<<>>, files, wish)
    BY <1>2 DEF answers
  <2> QED
    BY <2>1, <1>1, AnswerIs, WordsAre
<1>3. CASE words # <<>>
  <2> DEFINE name == words[1]
             rest == Tail(words)
  <2>1. name \in Words /\ rest \in Text
    BY <1>3, RestIs
  <2>2. \/ \E text \in {Append(rest, NewLine), <<>>, filter_says(name, rest), ProgramSays,
                        complaint(<<name>>)} : answer = Answer(text, files, wish)
        \/ answer = edit_answer(rest)
        \/ answer \in changer_answers(name, rest)
    BY <1>3 DEF answers
  <2> HIDE DEF name, rest
  <2>3. \A text \in {Append(rest, NewLine), <<>>, filter_says(name, rest), ProgramSays,
                     complaint(<<name>>)} : text \in Text
    <3>1. Append(rest, NewLine) \in Text
      BY <2>1, WordsAre, AppendProperties DEF Text
    <3>2. filter_says(name, rest) \in Text
      BY <2>1, FilterSays
    <3>3. complaint(<<name>>) \in Text
      BY <2>1, WordsAre, ComplaintIs
    <3> QED
      BY <3>1, <3>2, <3>3, WordsAre, ProgramSaysIs
  <2>4. answer = edit_answer(rest) => Answers(answer)
    <3>1. complaint(<<>>) \in Text
      BY WordsAre, ComplaintIs
    <3> QED
      BY <3>1, <1>1, WordsAre, AnswerIs DEF edit_answer
  <2> QED
    BY <2>1, <2>2, <2>3, <2>4, <1>1, AnswerIs, ChangerAnswers
<1> QED
  BY <1>2, <1>3

----------------------------------------------------------------------------
(* Lines inside lines (Commands) *)

CommandsSpec == CommandsInit /\ [][CommandsNext]_commands_vars

CallType ==
  [left : Text, target : Text, n : Nat, phase : {"stage", "command", "script", "ran"},
   carried : Pipes \cup {Nothing}, held : Pipes \cup {Nothing}, over : BOOLEAN,
   screen : Levels \cup {Screen}, caller_input : Pipes \cup {Nothing}, script : Int, at : Nat,
   kept : Text, read : Text, said : Text]

\* Where what is printed below the i-th call of `calls' goes: to the innermost that
\* captures, or to the screen.
Aim(calls, to, i) ==
  \/ to = Screen /\ \A j \in 1..(i - 1) : ~captures(calls[j])
  \/ to + 1 \in 1..(i - 1) /\ captures(calls[to + 1]) /\ \A j \in (to + 2)..(i - 1) : ~captures(calls[j])

\* What the i-th call, c, carries to its next stage, holds of what this one says,
\* and runs.
Carries(c, i, pp) ==
  c.carried # Nothing => c.n > 0 /\ c.carried = pipe_of(c.n - 1, i - 1) /\ pp[c.carried] = c.kept
HoldsSaid(c, i, pp) ==
  (captures(c) /\ c.phase # "stage")
    => /\ c.held = pipe_of(c.n, i - 1)
       /\ pp[c.held] = cut_to(VFS_FILE_MAX, c.said)
       /\ c.over = (Len(c.said) > VFS_FILE_MAX)
RunsIts(c, i, sc) == c.phase = "script" => c.script = i - 1 /\ sc[i - 1] = c.read

CallKept(calls, i, pp, sc) ==
  /\ i < Len(calls) => calls[i].phase = "script"
  /\ Carries(calls[i], i, pp) /\ HoldsSaid(calls[i], i, pp) /\ RunsIts(calls[i], i, sc)
  /\ Aim(calls, calls[i].screen, i)

\* How many files of commands are being run.
Scripts(calls) ==
  IF calls = <<>> THEN 0
  ELSE IF calls[Len(calls)].phase = "script" THEN Len(calls) ELSE Len(calls) - 1

CallsKept(calls, d, o, in, pp, sc, r) ==
  /\ calls \in Seq(CallType) /\ Len(calls) <= CMD_MAX_DEPTH /\ d = Len(calls) /\ r = Scripts(calls)
  /\ o \in Levels \cup {Screen} /\ in \in Pipes \cup {Nothing}
  /\ pp \in [Pipes -> Text] /\ sc \in [Levels -> Text]
  /\ \A i \in 1..Len(calls) : CallKept(calls, i, pp, sc)
  /\ calls = <<>> => o = Screen /\ in = Nothing
  /\ calls # <<>> => calls[1].caller_input = Nothing
  /\ (calls # <<>> /\ calls[Len(calls)].phase # "stage") => Aim(calls, o, Len(calls) + 1)

CommandsInv ==
  CallsKept(stack, depth, out, input, pipes, script, running) /\ FilesOK(files)

\* The two pipes of a level are not each other, nor another level's, nor none.
LEMMA LevelsAre ==
  /\ CMD_MAX_DEPTH \in Nat \ {0} /\ VFS_FILE_MAX \in Nat /\ LINE_MAX \in Nat
  /\ \A i \in 1..CMD_MAX_DEPTH : i - 1 \in Levels
  /\ \A l \in Levels : l \in Nat /\ l + 1 \in 1..CMD_MAX_DEPTH
  /\ Screen \notin Levels /\ Screen + 1 = 0
BY CommandsAssumption DEF Levels, Screen

\* Of two numbers one after the other, one is even.
LEMMA LetterIs ==
  ASSUME NEW n \in Nat
  PROVE  (n % 2 = 0) # ((n + 1) % 2 = 0)
OBVIOUS

\* The two pipes of a level are not each other, nor another level's, nor none.
LEMMA PipesAre ==
  ASSUME NEW m \in Nat, NEW n \in Nat, NEW k \in Levels, NEW l \in Levels
  PROVE  /\ pipe_of(n, l) \in Pipes /\ Nothing \notin Pipes
         /\ pipe_of(m, k) = pipe_of(n, l) => k = l
         /\ pipe_of(n + 1, l) # pipe_of(n, l)
<1>1. \/ n % 2 = 0 /\ pipe_of(n, l) = <<"a", l>> /\ pipe_of(n + 1, l) = <<"b", l>>
      \/ n % 2 # 0 /\ pipe_of(n, l) = <<"b", l>> /\ pipe_of(n + 1, l) = <<"a", l>>
  BY LetterIs DEF pipe_of
<1>2. <<"a", l>> \in Pipes /\ <<"b", l>> \in Pipes
  BY DEF Pipes
<1>3. pipe_of(m, k) = <<"a", k>> \/ pipe_of(m, k) = <<"b", k>>
  BY DEF pipe_of
<1>4. <<"a", l>> # <<"b", l>> /\ <<"b", l>> # <<"a", l>>
  OBVIOUS
<1>5. /\ <<"a", k>> = <<"a", l>> => k = l
      /\ <<"a", k>> = <<"b", l>> => k = l
      /\ <<"b", k>> = <<"a", l>> => k = l
      /\ <<"b", k>> = <<"b", l>> => k = l
  OBVIOUS
<1>6. Nothing \notin Pipes
  BY DEF Nothing, Pipes
<1> QED
  BY <1>1, <1>2, <1>3, <1>4, <1>5, <1>6

\* Aim looks only at which of the calls further out capture.
LEMMA AimStays ==
  ASSUME NEW calls, NEW others, NEW to \in Int, NEW i \in Nat, Aim(calls, to, i),
         \A j \in 1..(i - 1) : captures(others[j]) <=> captures(calls[j])
  PROVE  Aim(others, to, i)
<1>1. CASE to = Screen /\ \A j \in 1..(i - 1) : ~captures(calls[j])
  BY <1>1 DEF Aim
<1>2. CASE /\ to + 1 \in 1..(i - 1) /\ captures(calls[to + 1])
           /\ \A j \in (to + 2)..(i - 1) : ~captures(calls[j])
  <2>1. \A j \in (to + 2)..(i - 1) : j \in 1..(i - 1)
    BY <1>2
  <2> QED
    BY <1>2, <2>1 DEF Aim
<1> QED
  BY <1>1, <1>2 DEF Aim

\* One call further in aims at the same, or at the call between if it captures.
LEMMA AimNext ==
  ASSUME NEW calls, NEW to \in Int, NEW i \in Nat \ {0}
  PROVE  /\ Aim(calls, to, i) /\ ~captures(calls[i]) => Aim(calls, to, i + 1)
         /\ captures(calls[i]) => Aim(calls, i - 1, i + 1)
<1>1. ASSUME Aim(calls, to, i), ~captures(calls[i]) PROVE Aim(calls, to, i + 1)
  <2>1. \A j \in Int : j \in 1..((i + 1) - 1) <=> j \in 1..(i - 1) \/ j = i
    OBVIOUS
  <2>2. \A j \in (to + 2)..((i + 1) - 1) : j \in (to + 2)..(i - 1) \/ j = i
    OBVIOUS
  <2>3. CASE to = Screen /\ \A j \in 1..(i - 1) : ~captures(calls[j])
    BY <2>1, <2>3, <1>1 DEF Aim
  <2>4. CASE /\ to + 1 \in 1..(i - 1) /\ captures(calls[to + 1])
             /\ \A j \in (to + 2)..(i - 1) : ~captures(calls[j])
    BY <2>1, <2>2, <2>4, <1>1 DEF Aim
  <2> QED
    BY <1>1, <2>3, <2>4 DEF Aim
<1>2. ASSUME captures(calls[i]) PROVE Aim(calls, i - 1, i + 1)
  <2>1. (i - 1) + 1 = i /\ i \in 1..((i + 1) - 1) /\ ((i - 1) + 2)..((i + 1) - 1) = {}
    OBVIOUS
  <2> QED
    BY <2>1, <1>2 DEF Aim
<1> QED
  BY <1>1, <1>2

\* A call is kept as it is while neither its pipes nor its copy change.
LEMMA CallStays ==
  ASSUME NEW calls, NEW others, NEW pp, NEW qq, NEW sc, NEW tc, NEW i \in 1..CMD_MAX_DEPTH,
         CallKept(calls, i, pp, sc), calls[i] \in CallType, others[i] = calls[i],
         i < Len(others) => calls[i].phase = "script",
         \A j \in 1..(i - 1) : captures(others[j]) <=> captures(calls[j]),
         \A m \in Nat : qq[pipe_of(m, i - 1)] = pp[pipe_of(m, i - 1)],
         tc[i - 1] = sc[i - 1]
  PROVE  CallKept(others, i, qq, tc)
<1> DEFINE c == calls[i]
<1>1. c.n \in Nat /\ c.screen \in Int /\ i \in Nat
  BY LevelsAre DEF CallType, Levels, Screen
<1>2. Carries(c, i, qq)
  <2>1. c.n > 0 => c.n - 1 \in Nat
    BY <1>1
  <2> QED
    BY <2>1 DEF CallKept, Carries
<1>3. HoldsSaid(c, i, qq)
  BY <1>1 DEF CallKept, HoldsSaid
<1>4. RunsIts(c, i, tc)
  BY DEF CallKept, RunsIts
<1>5. Aim(others, c.screen, i)
  BY <1>1, AimStays DEF CallKept
<1> QED
  BY <1>2, <1>3, <1>4, <1>5 DEF CallKept

\* A line that is started is one more call, and the calls around it are as they were.
LEMMA CallStarts ==
  ASSUME NEW calls, NEW d, NEW sc, NEW r, NEW line \in Text,
         CallsKept(calls, d, out, input, pipes, sc, r), d < CMD_MAX_DEPTH,
         calls # <<>> => calls[Len(calls)].phase = "script",
         first_of(ToFile, line) # 0 => is_redirect(line)
  PROVE  CallsKept(Append(calls, NewLineCall(line)), d + 1, out, input, pipes, sc, r)
<1> DEFINE call == NewLineCall(line)
           more == Append(calls, call)
           L == Len(calls)
<1>1. /\ calls \in Seq(CallType) /\ L \in Nat /\ d = L /\ L + 1 <= CMD_MAX_DEPTH
      /\ (calls = <<>> <=> L = 0)
  BY LenProperties, EmptySeq, LevelsAre DEF CallsKept
<1>2. /\ call \in CallType /\ call.phase = "stage" /\ call.carried = Nothing /\ call.n = 0
      /\ call.screen = out /\ call.caller_input = input
  <2>1. out \in Levels \cup {Screen} /\ input \in Pipes \cup {Nothing}
    BY DEF CallsKept
  <2>2. /\ (IF is_redirect(line) THEN cmd_split_redirect(line).command ELSE line) \in Text
        /\ (IF is_redirect(line) THEN cmd_split_redirect(line).target ELSE <<>>) \in Text
    BY RedirectIs, WordsAre
  <2>3. NoScript \in Int /\ <<>> \in Text
    BY WordsAre DEF NoScript
  <2> QED
    BY <2>1, <2>2, <2>3 DEF NewLineCall, CallType
<1> HIDE DEF call
<1>3. /\ more \in Seq(CallType) /\ Len(more) = L + 1 /\ more # <<>>
      /\ (\A i \in 1..L : more[i] = calls[i]) /\ more[L + 1] = call
  BY <1>1, <1>2, AppendProperties
<1> HIDE DEF more
<1>4. ASSUME NEW i \in 1..L PROVE CallKept(more, i, pipes, sc)
  <2>1. i \in 1..CMD_MAX_DEPTH /\ CallKept(calls, i, pipes, sc) /\ calls[i] \in CallType
    BY <1>1, LevelsAre, ElementOfSeq DEF CallsKept
  <2>2. i < Len(more) => calls[i].phase = "script"
    <3>1. CASE i < L
      BY <3>1, <2>1 DEF CallKept
    <3>2. CASE i = L
      BY <3>2, <1>1
    <3> QED
      BY <3>1, <3>2, <1>1
  <2>3. \A j \in 1..(i - 1) : more[j] = calls[j]
    BY <1>1, <1>3
  <2> QED
    BY <1>3, <2>1, <2>2, <2>3, CallStays
<1>5. Aim(more, out, L + 1)
  <2>1. out \in Int
    BY LevelsAre DEF CallsKept, Levels, Screen
  <2>2. CASE calls = <<>>
    <3>1. out = Screen /\ 1..((L + 1) - 1) = {}
      BY <2>2, <1>1 DEF CallsKept
    <3> QED
      BY <3>1 DEF Aim
  <2>3. CASE calls # <<>>
    <3>1. Aim(calls, out, L + 1)
      BY <2>3 DEF CallsKept
    <3>2. \A j \in 1..((L + 1) - 1) : more[j] = calls[j]
      BY <1>1, <1>3
    <3> QED
      BY <1>1, <2>1, <3>1, <3>2, AimStays
  <2> QED
    BY <2>2, <2>3
<1>6. CallKept(more, L + 1, pipes, sc)
  <2>1. Carries(call, L + 1, pipes) /\ HoldsSaid(call, L + 1, pipes) /\ RunsIts(call, L + 1, sc)
    BY <1>2 DEF Carries, HoldsSaid, RunsIts
  <2> QED
    BY <1>1, <1>2, <1>3, <1>5, <2>1 DEF CallKept
<1>7. \A i \in 1..(L + 1) : CallKept(more, i, pipes, sc)
  <2>1. \A i \in 1..(L + 1) : i \in 1..L \/ i = L + 1
    BY <1>1
  <2> QED
    BY <2>1, <1>4, <1>6
<1>8. r = Scripts(more)
  <2>1. Scripts(more) = L
    BY <1>1, <1>2, <1>3 DEF Scripts
  <2>2. Scripts(calls) = L
    BY <1>1 DEF Scripts
  <2> QED
    BY <2>1, <2>2 DEF CallsKept
<1>9. more[1].caller_input = Nothing
  <2>1. CASE L = 0
    BY <2>1, <1>1, <1>2, <1>3 DEF CallsKept
  <2>2. CASE L # 0
    BY <2>2, <1>1, <1>3 DEF CallsKept
  <2> QED
    BY <2>1, <2>2
<1>10. more[Len(more)].phase = "stage"
  BY <1>2, <1>3
<1>11. /\ out \in Levels \cup {Screen} /\ input \in Pipes \cup {Nothing}
       /\ pipes \in [Pipes -> Text] /\ sc \in [Levels -> Text]
  BY DEF CallsKept
<1>12. CallsKept(more, d + 1, out, input, pipes, sc, r)
  BY <1>1, <1>3, <1>7, <1>8, <1>9, <1>10, <1>11 DEF CallsKept
<1> QED
  BY <1>12 DEF more, call

\* Whatever cmd_run makes of a line, refused or started, the calls are kept.
LEMMA LineRuns ==
  ASSUME NEW calls, NEW line \in Text,
         CallsKept(calls, depth, out, input, pipes, script, running),
         calls # <<>> => calls[Len(calls)].phase = "script", cmd_run(calls, line),
         UNCHANGED <<out, input, pipes, script, running>>
  PROVE  CallsKept(stack', depth', out', input', pipes', script', running')
<1>1. depth \in Nat /\ CMD_MAX_DEPTH \in Nat
  BY LenProperties, LevelsAre DEF CallsKept
<1>2. \/ stack' = calls /\ depth' = depth
      \/ /\ depth < CMD_MAX_DEPTH /\ (first_of(ToFile, line) # 0 => is_redirect(line))
         /\ stack' = Append(calls, NewLineCall(line)) /\ depth' = depth + 1
  BY <1>1 DEF cmd_run
<1>3. CASE stack' = calls /\ depth' = depth
  BY <1>3
<1>4. CASE /\ depth < CMD_MAX_DEPTH /\ (first_of(ToFile, line) # 0 => is_redirect(line))
           /\ stack' = Append(calls, NewLineCall(line)) /\ depth' = depth + 1
  <2>1. CallsKept(Append(calls, NewLineCall(line)), depth + 1, out, input, pipes, script, running)
    BY <1>4, CallStarts
  <2> QED
    BY <1>4, <2>1
<1> QED
  BY <1>2, <1>3, <1>4

\* A line typed at the prompt keeps the invariant.
LEMMA LineTyped ==
  ASSUME CommandsInv, TypeLine
  PROVE  CommandsInv'
<1>1. PICK line \in Typed : cmd_run(<<>>, line)
  BY DEF TypeLine
<1>2. line \in Text
  <2>1. line \in Seq(STRING) /\ STRING \subseteq Words
    BY CommandsAssumption DEF Words
  <2> QED
    BY <2>1, SeqMonotonic DEF Text
<1>3. stack = <<>> /\ UNCHANGED <<out, input, pipes, script, running, files>>
  BY DEF TypeLine
<1>4. CallsKept(<<>>, depth, out, input, pipes, script, running)
  BY <1>3 DEF CommandsInv
<1>5. CallsKept(stack', depth', out', input', pipes', script', running')
  BY <1>1, <1>2, <1>3, <1>4, LineRuns
<1> QED
  BY <1>3, <1>5 DEF CommandsInv

\* What a step that changes the innermost call alone has to see to.
LEMMA TopChanges ==
  ASSUME CommandsInv, stack # <<>>, NEW call \in CallType, NEW calls, calls = with_top(call),
         NEW o \in Levels \cup {Screen}, NEW in \in Pipes \cup {Nothing},
         NEW pp \in [Pipes -> Text], NEW sc \in [Levels -> Text], NEW r,
         \A l \in Levels, m \in Nat : l # Level => pp[pipe_of(m, l)] = pipes[pipe_of(m, l)],
         \A l \in Levels : l # Level => sc[l] = script[l],
         call.caller_input = Top.caller_input, call.screen = Top.screen,
         Carries(call, Len(stack), pp), HoldsSaid(call, Len(stack), pp),
         RunsIts(call, Len(stack), sc),
         call.phase # "stage" => Aim(calls, o, Len(stack) + 1),
         r = IF call.phase = "script" THEN Len(stack) ELSE Len(stack) - 1
  PROVE  CallsKept(calls, depth, o, in, pp, sc, r)
<1> DEFINE L == Len(stack)
<1>1. /\ stack \in Seq(CallType) /\ L \in Nat \ {0} /\ L <= CMD_MAX_DEPTH /\ depth = L
      /\ L \in 1..L
  BY LenProperties, EmptySeq DEF CommandsInv, CallsKept
<1>2. /\ calls \in Seq(CallType) /\ Len(calls) = L
      /\ \A j \in 1..L : calls[j] = IF j = L THEN call ELSE stack[j]
  BY <1>1, ExceptSeq DEF with_top
<1>3. calls # <<>>
  BY <1>1, <1>2, EmptySeq
<1>4. ASSUME NEW i \in 1..(L - 1) PROVE CallKept(calls, i, pp, sc)
  <2>1. /\ i \in 1..CMD_MAX_DEPTH /\ i \in 1..L /\ i # L /\ i < L
        /\ CallKept(stack, i, pipes, script) /\ stack[i] \in CallType
    <3>1. /\ i \in 1..CMD_MAX_DEPTH /\ i \in 1..L /\ i # L /\ i < L
      BY <1>1, LevelsAre
    <3>2. CallKept(stack, i, pipes, script)
      BY <3>1 DEF CommandsInv, CallsKept
    <3>3. stack[i] \in CallType
      BY <3>1, <1>1, ElementOfSeq
    <3> QED
      BY <3>1, <3>2, <3>3
  <2>2. stack[i].phase = "script" /\ calls[i] = stack[i]
    BY <2>1, <1>2 DEF CallKept
  <2>3. \A j \in 1..(i - 1) : calls[j] = stack[j]
    BY <2>1, <1>2, <1>1
  <2>4. i - 1 \in Levels /\ i - 1 # Level
    BY <2>1, <1>1, LevelsAre DEF Level
  <2>5. (\A m \in Nat : pp[pipe_of(m, i - 1)] = pipes[pipe_of(m, i - 1)]) /\ sc[i - 1] = script[i - 1]
    BY <2>4
  <2> QED
    BY <2>1, <2>2, <2>3, <2>5, CallStays
<1>5. CallKept(calls, L, pp, sc)
  <2>1. Aim(stack, Top.screen, L) /\ Top \in CallType
    BY <1>1, ElementOfSeq DEF CommandsInv, CallsKept, CallKept, Top
  <2>2. Top.screen \in Int
    BY <2>1, LevelsAre DEF CallType, Levels, Screen
  <2>3. \A j \in 1..(L - 1) : calls[j] = stack[j]
    BY <1>1, <1>2
  <2>4. Aim(calls, call.screen, L)
    BY <1>1, <2>1, <2>2, <2>3, AimStays
  <2>5. calls[L] = call
    BY <1>1, <1>2
  <2> QED
    BY <1>1, <1>2, <2>4, <2>5 DEF CallKept
<1>6. \A i \in 1..L : CallKept(calls, i, pp, sc)
  <2>1. \A i \in 1..L : i \in 1..(L - 1) \/ i = L
    BY <1>1
  <2> QED
    BY <2>1, <1>4, <1>5
<1>7. r = Scripts(calls) /\ calls[L] = call
  BY <1>1, <1>2, <1>3 DEF Scripts
<1>8. calls[1].caller_input = Nothing
  <2>1. stack[1].caller_input = Nothing /\ 1 \in 1..L
    BY <1>1 DEF CommandsInv, CallsKept
  <2> QED
    BY <2>1, <1>2, <1>7 DEF Top
<1>9. calls[Len(calls)].phase # "stage" => Aim(calls, o, Len(calls) + 1)
  BY <1>2, <1>7
<1> HIDE DEF L
<1>10. depth = Len(calls) /\ Len(calls) <= CMD_MAX_DEPTH
  BY <1>1, <1>2 DEF L
<1> QED
  BY <1>2, <1>3, <1>6, <1>7, <1>8, <1>9, <1>10 DEF CallsKept

\* What the invariant says of the innermost call.
LEMMA TopIs ==
  ASSUME CommandsInv, stack # <<>>
  PROVE  /\ stack \in Seq(CallType) /\ Len(stack) \in 1..CMD_MAX_DEPTH /\ Len(stack) \in Nat \ {0}
         /\ Top \in CallType /\ Top = stack[Len(stack)] /\ Level = Len(stack) - 1 /\ Level \in Levels
         /\ depth = Len(stack) /\ running = Scripts(stack)
         /\ running = IF Top.phase = "script" THEN Len(stack) ELSE Len(stack) - 1
         /\ out \in Levels \cup {Screen} /\ input \in Pipes \cup {Nothing}
         /\ pipes \in [Pipes -> Text] /\ script \in [Levels -> Text]
         /\ Carries(Top, Len(stack), pipes) /\ HoldsSaid(Top, Len(stack), pipes)
         /\ RunsIts(Top, Len(stack), script) /\ Aim(stack, Top.screen, Len(stack))
         /\ Top.phase # "stage" => Aim(stack, out, Len(stack) + 1)
<1> DEFINE L == Len(stack)
<1>1. /\ stack \in Seq(CallType) /\ L \in Nat /\ L <= CMD_MAX_DEPTH /\ depth = L
      /\ running = Scripts(stack)
  BY LenProperties DEF CommandsInv, CallsKept
<1>2. L # 0
  BY <1>1, EmptySeq
<1> HIDE DEF L
<1>3. L \in 1..CMD_MAX_DEPTH /\ L \in Nat \ {0} /\ L \in 1..L
  BY <1>1, <1>2, LevelsAre
<1>4. Top = stack[L] /\ Level = L - 1 /\ Level \in Levels
  BY <1>3, LevelsAre DEF Top, Level, L
<1>5. Top \in CallType
  BY <1>1, <1>3, <1>4, ElementOfSeq DEF L
<1>6. CallKept(stack, L, pipes, script)
  BY <1>3 DEF CommandsInv, CallsKept, L
<1>7. running = IF Top.phase = "script" THEN L ELSE L - 1
  BY <1>1, <1>4 DEF Scripts, L
<1>8. /\ Carries(Top, L, pipes) /\ HoldsSaid(Top, L, pipes) /\ RunsIts(Top, L, script)
      /\ Aim(stack, Top.screen, L)
  BY <1>4, <1>6 DEF CallKept
<1>9. Top.phase # "stage" => Aim(stack, out, L + 1)
  BY <1>4 DEF CommandsInv, CallsKept, L
<1>10. /\ out \in Levels \cup {Screen} /\ input \in Pipes \cup {Nothing}
       /\ pipes \in [Pipes -> Text] /\ script \in [Levels -> Text]
  BY DEF CommandsInv, CallsKept
<1> QED
  BY <1>1, <1>3, <1>4, <1>5, <1>7, <1>8, <1>9, <1>10 DEF L

\* While the innermost call captures as it did, what is printed goes where it went.
LEMMA AimTop ==
  ASSUME CommandsInv, stack # <<>>, NEW call \in CallType, captures(call) <=> captures(Top),
         NEW to \in Int, Aim(stack, to, Len(stack) + 1)
  PROVE  Aim(with_top(call), to, Len(stack) + 1)
<1> DEFINE L == Len(stack)
           calls == with_top(call)
<1>1. stack \in Seq(CallType) /\ L \in Nat \ {0} /\ L \in 1..L /\ Top = stack[L]
  BY TopIs
<1>2. \A j \in 1..L : calls[j] = IF j = L THEN call ELSE stack[j]
  BY <1>1, ExceptSeq DEF with_top
<1> HIDE DEF calls
<1>3. \A j \in 1..((L + 1) - 1) : captures(calls[j]) <=> captures(stack[j])
  BY <1>1, <1>2
<1> HIDE DEF L
<1>4. L + 1 \in Nat
  BY <1>1
<1>5. Aim(calls, to, L + 1)
  BY <1>3, <1>4, AimStays DEF L
<1> QED
  BY <1>5 DEF calls, L

\* One that writes to a buffer catches what is printed inside it.
LEMMA AimHere ==
  ASSUME CommandsInv, stack # <<>>, NEW call \in CallType
  PROVE  /\ captures(call) => Aim(with_top(call), Level, Len(stack) + 1)
         /\ ~captures(call) /\ call.screen = Top.screen => Aim(with_top(call), call.screen, Len(stack) + 1)
<1> DEFINE L == Len(stack)
           calls == with_top(call)
<1>1. /\ stack \in Seq(CallType) /\ L \in Nat \ {0} /\ L \in 1..L /\ Top = stack[L] /\ Level = L - 1
      /\ Top \in CallType /\ Aim(stack, Top.screen, L)
  BY TopIs
<1>2. \A j \in 1..L : calls[j] = IF j = L THEN call ELSE stack[j]
  BY <1>1, ExceptSeq DEF with_top
<1> HIDE DEF calls
<1>3. calls[L] = call /\ \A j \in 1..(L - 1) : calls[j] = stack[j]
  BY <1>1, <1>2
<1>4. Top.screen \in Int /\ L \in Nat
  BY <1>1, LevelsAre DEF CallType, Levels, Screen
<1> HIDE DEF L
<1>5. Aim(calls, Top.screen, L)
  BY <1>1, <1>3, <1>4, AimStays
<1>6. captures(call) => Aim(calls, L - 1, L + 1)
  BY <1>1, <1>3, AimNext, 0 \in Int
<1>7. ~captures(call) /\ call.screen = Top.screen => Aim(calls, call.screen, L + 1)
  BY <1>1, <1>3, <1>4, <1>5, AimNext
<1> QED
  BY <1>1, <1>6, <1>7 DEF calls, L

\* What the calls capture, they capture by their line and their file.
LEMMA CapturesAlike ==
  ASSUME NEW c \in CallType, NEW d \in CallType, c.left = d.left, c.target = d.target
  PROVE  captures(c) <=> captures(d)
BY DEF captures, is_last

\* A stage that starts empties the buffer of its own level that it does not read from.
LEMMA StageStarts ==
  ASSUME CommandsInv, StartStage
  PROVE  CommandsInv'
<1> DEFINE L == Len(stack)
           buffer == pipe_of(Top.n, Level)
<1>1. stack # <<>> /\ Top.phase = "stage" /\ input' = Top.carried /\ UNCHANGED <<depth, script, running, files>>
  BY DEF StartStage
<1>2. /\ Top \in CallType /\ L \in Nat \ {0} /\ Level = L - 1 /\ Level \in Levels
      /\ running = L - 1 /\ pipes \in [Pipes -> Text] /\ script \in [Levels -> Text]
      /\ Carries(Top, L, pipes)
  BY <1>1, TopIs
<1>3. /\ Top.n \in Nat /\ Top.carried \in Pipes \cup {Nothing} /\ Top.screen \in Levels \cup {Screen}
  BY <1>2 DEF CallType
<1>4. buffer \in Pipes
  BY <1>2, <1>3, PipesAre
<1>5. CASE captures(Top)
  <2> DEFINE call == [Top EXCEPT !.phase = "command", !.held = buffer, !.over = FALSE, !.said = <<>>]
  <2>1. stack' = with_top(call) /\ pipes' = [pipes EXCEPT ![buffer] = <<>>] /\ out' = Level
    BY <1>5 DEF StartStage
  <2>2. /\ call.phase = "command" /\ call.left = Top.left /\ call.target = Top.target
        /\ call.n = Top.n /\ call.carried = Top.carried /\ call.held = buffer /\ call.over = FALSE
        /\ call.screen = Top.screen /\ call.caller_input = Top.caller_input
        /\ call.kept = Top.kept /\ call.said = <<>>
    BY <1>2 DEF CallType
  <2>3. call \in CallType
    BY <1>2, <1>4, WordsAre DEF CallType
  <2> HIDE DEF call, buffer
  <2>4. pipes' \in [Pipes -> Text] /\ pipes'[buffer] = <<>> /\ \A p \in Pipes : p # buffer => pipes'[p] = pipes[p]
    BY <2>1, <1>2, <1>4, WordsAre
  <2>5. \A l \in Levels, m \in Nat : l # Level => pipes'[pipe_of(m, l)] = pipes[pipe_of(m, l)]
    <3>1. ASSUME NEW l \in Levels, NEW m \in Nat, l # Level PROVE pipe_of(m, l) # buffer /\ pipe_of(m, l) \in Pipes
      BY <3>1, <1>2, <1>3, PipesAre DEF buffer
    <3> QED
      BY <3>1, <2>4
  <2>6. Carries(call, L, pipes')
    <3>1. ASSUME Top.n > 0 PROVE pipe_of(Top.n - 1, L - 1) # buffer /\ pipe_of(Top.n - 1, L - 1) \in Pipes
      <4>1. Top.n - 1 \in Nat /\ (Top.n - 1) + 1 = Top.n
        BY <3>1, <1>3
      <4>2. pipe_of((Top.n - 1) + 1, Level) # pipe_of(Top.n - 1, Level) /\ pipe_of(Top.n - 1, Level) \in Pipes
        BY <4>1, <1>2, PipesAre
      <4> QED
        BY <4>1, <4>2, <1>2 DEF buffer
    <3> QED
      BY <3>1, <2>2, <2>4, <1>2 DEF Carries
  <2>7. HoldsSaid(call, L, pipes')
    <3>1. cut_to(VFS_FILE_MAX, <<>>) = <<>> /\ (Len(<<>>) > VFS_FILE_MAX) = FALSE
      <4>1. Len(<<>>) = 0 /\ VFS_FILE_MAX \in Nat
        BY EmptySeq, LevelsAre
      <4> QED
        BY <4>1 DEF cut_to
    <3> QED
      BY <3>1, <2>2, <2>4, <1>2 DEF HoldsSaid, buffer
  <2>8. RunsIts(call, L, script')
    BY <2>2 DEF RunsIts
  <2>9. Aim(stack', out', L + 1)
    BY <2>1, <2>2, <2>3, <1>1, <1>2, <1>5, CapturesAlike, AimHere
  <2>10. CallsKept(stack', depth', out', input', pipes', script', running')
    BY <1>1, <1>2, <1>3, <2>1, <2>2, <2>3, <2>4, <2>5, <2>6, <2>7, <2>8, <2>9, TopChanges
  <2> QED
    BY <2>10, <1>1 DEF CommandsInv
<1>6. CASE ~captures(Top)
  <2> DEFINE call == [Top EXCEPT !.phase = "command"]
  <2>1. stack' = with_top(call) /\ pipes' = pipes /\ out' = Top.screen
    BY <1>6 DEF StartStage
  <2>2. /\ call.phase = "command" /\ call.left = Top.left /\ call.target = Top.target
        /\ call.n = Top.n /\ call.carried = Top.carried
        /\ call.screen = Top.screen /\ call.caller_input = Top.caller_input /\ call.kept = Top.kept
    BY <1>2 DEF CallType
  <2>3. call \in CallType
    BY <1>2 DEF CallType
  <2> HIDE DEF call, buffer
  <2>4. ~captures(call)
    BY <2>2, <2>3, <1>2, <1>6, CapturesAlike
  <2>5. Carries(call, L, pipes') /\ HoldsSaid(call, L, pipes') /\ RunsIts(call, L, script')
    BY <2>1, <2>2, <2>4, <1>2 DEF Carries, HoldsSaid, RunsIts
  <2>6. Aim(stack', out', L + 1)
    BY <2>1, <2>2, <2>3, <2>4, <1>1, AimHere
  <2>7. CallsKept(stack', depth', out', input', pipes', script', running')
    BY <1>1, <1>2, <1>3, <2>1, <2>2, <2>3, <2>5, <2>6, TopChanges
  <2> QED
    BY <2>7, <1>1 DEF CommandsInv
<1> QED
  BY <1>5, <1>6

\* The fields a script changes as it goes on and ends.
LEMMA CallChanges ==
  ASSUME NEW c \in CallType
  PROVE  /\ [c EXCEPT !.at = @ + 1] \in CallType
         /\ [c EXCEPT !.phase = "ran", !.script = NoScript, !.read = <<>>] \in CallType
         /\ [c EXCEPT !.phase = "ran"] \in CallType
<1>1. NoScript \in Int /\ <<>> \in Text
  BY WordsAre DEF NoScript
<1>2. c.at + 1 \in Nat
  BY DEF CallType
<1>3. [c EXCEPT !.at = @ + 1] \in CallType
  BY <1>2 DEF CallType
<1>4. [c EXCEPT !.phase = "ran", !.script = NoScript, !.read = <<>>] \in CallType
  BY <1>1 DEF CallType
<1>5. [c EXCEPT !.phase = "ran"] \in CallType
  BY DEF CallType
<1> QED
  BY <1>3, <1>4, <1>5

\* The fields the next stage of a line changes.
LEMMA CallGoesOn ==
  ASSUME NEW c \in CallType, NEW left \in Text, NEW p \in Pipes, NEW text \in Text
  PROVE  [c EXCEPT !.phase = "stage", !.left = left, !.n = @ + 1, !.carried = p, !.kept = text] \in CallType
<1>1. c.n + 1 \in Nat
  BY DEF CallType
<1> QED
  BY <1>1 DEF CallType

\* RUN copies its file to the place of its own level, where no script is being read.
LEMMA ScriptOpens ==
  ASSUME CommandsInv, OpenScript
  PROVE  CommandsInv'
<1> DEFINE L == Len(stack)
           text == files[command[2]]
           call == [Top EXCEPT !.phase = "script", !.script = copy_of(running), !.at = 0, !.read = text]
<1>1. /\ stack # <<>> /\ Top.phase = "command" /\ runs_lines(command)
      /\ script' = [script EXCEPT ![copy_of(running)] = text] /\ stack' = with_top(call)
      /\ running' = running + 1 /\ UNCHANGED <<depth, out, input, pipes, files>>
  BY DEF OpenScript
<1>2. /\ Top \in CallType /\ L \in Nat \ {0} /\ Level = L - 1 /\ Level \in Levels
      /\ running = L - 1 /\ pipes \in [Pipes -> Text] /\ script \in [Levels -> Text]
      /\ out \in Levels \cup {Screen} /\ input \in Pipes \cup {Nothing}
      /\ Carries(Top, L, pipes) /\ HoldsSaid(Top, L, pipes) /\ Aim(stack, out, L + 1)
  BY <1>1, TopIs
<1>3. text \in Text
  <2>1. command \in Text /\ command # <<>>
    <3>1. Top.left \in Text
      BY <1>2 DEF CallType
    <3> QED
      BY <1>1, <3>1, PipeIs DEF command, runs_lines
  <2>2. a_file(Tail(command))
    BY <1>1 DEF runs_lines
  <2>3. Len(Tail(command)) = 1 /\ Tail(command)[1] \in DOMAIN files
    BY <2>2 DEF a_file
  <2>4. Tail(command)[1] = command[2]
    <3>1. command \in Seq(Words)
      BY <2>1 DEF Text
    <3>2. Len(Tail(command)) \in Nat /\ \A i \in 1..Len(Tail(command)) : Tail(command)[i] = command[i + 1]
      BY <2>1, <3>1, HeadTailProperties, LenProperties
    <3>3. 1 \in 1..Len(Tail(command)) /\ 1 + 1 = 2
      BY <2>3
    <3> QED
      BY <3>2, <3>3
  <2> QED
    BY <2>3, <2>4 DEF CommandsInv, FilesOK
<1> HIDE DEF text
<1>4. copy_of(running) = Level
  BY <1>2 DEF copy_of
<1>5. /\ call.phase = "script" /\ call.left = Top.left /\ call.target = Top.target
      /\ call.n = Top.n /\ call.carried = Top.carried /\ call.held = Top.held /\ call.over = Top.over
      /\ call.screen = Top.screen /\ call.caller_input = Top.caller_input
      /\ call.kept = Top.kept /\ call.said = Top.said /\ call.read = text /\ call.script = Level
  BY <1>2, <1>4 DEF CallType
<1>6. call \in CallType
  <2>1. Level \in Int
    BY <1>2
  <2> QED
    BY <1>2, <1>3, <1>4, <2>1 DEF CallType
<1> HIDE DEF call
<1>7. /\ script' \in [Levels -> Text] /\ script'[Level] = text
      /\ \A l \in Levels : l # Level => script'[l] = script[l]
  BY <1>1, <1>2, <1>3, <1>4
<1>8. captures(call) <=> captures(Top)
  BY <1>2, <1>5, <1>6, CapturesAlike
<1>9. Carries(call, L, pipes) /\ HoldsSaid(call, L, pipes) /\ RunsIts(call, L, script')
  BY <1>1, <1>2, <1>5, <1>7, <1>8 DEF Carries, HoldsSaid, RunsIts
<1>10. Aim(stack', out, L + 1)
  <2>1. out \in Int
    BY <1>2, LevelsAre DEF Levels, Screen
  <2> QED
    BY <2>1, <1>1, <1>2, <1>6, <1>8, AimTop
<1>11. CallsKept(stack', depth, out, input, pipes, script', running')
  <2>1. running' = L
    BY <1>1, <1>2
  <2> HIDE DEF L
  <2>2. stack' = with_top(call) /\ stack # <<>> /\ call.phase = "script"
    BY <1>1, <1>5
  <2> QED
    BY <2>1, <2>2, <1>2, <1>5, <1>6, <1>7, <1>9, <1>10, TopChanges DEF L
<1> QED
  BY <1>1, <1>11 DEF CommandsInv

\* The next line of a script is started inside it, or passed over.
LEMMA ScriptGoesOn ==
  ASSUME CommandsInv, NextLine
  PROVE  CommandsInv'
<1> DEFINE L == Len(stack)
           lines == lines_of(script[Top.script])
           line == cut_to(LINE_MAX, lines[Top.at + 1])
           call == [Top EXCEPT !.at = @ + 1]
           calls == with_top(call)
<1>1. /\ stack # <<>> /\ Top.phase = "script" /\ Top.at < Len(lines)
      /\ (stack' = calls /\ UNCHANGED depth) \/ cmd_run(calls, line)
      /\ UNCHANGED <<out, input, pipes, script, running, files>>
  BY DEF NextLine
<1>2. /\ Top \in CallType /\ L \in Nat \ {0} /\ Level = L - 1 /\ Level \in Levels
      /\ running = L /\ pipes \in [Pipes -> Text] /\ script \in [Levels -> Text]
      /\ out \in Levels \cup {Screen} /\ input \in Pipes \cup {Nothing} /\ stack \in Seq(CallType)
      /\ Carries(Top, L, pipes) /\ HoldsSaid(Top, L, pipes) /\ RunsIts(Top, L, script)
      /\ Aim(stack, out, L + 1)
  BY <1>1, TopIs
<1>3. line \in Text
  <2>1. script[Top.script] \in Text
    BY <1>1, <1>2 DEF RunsIts
  <2>2. lines \in Lines
    BY <2>1, LinesAre
  <2>3. Top.at \in Nat
    BY <1>2 DEF CallType
  <2> HIDE DEF lines
  <2>4. Top.at + 1 \in 1..Len(lines)
    BY <1>1, <2>2, <2>3, LenProperties DEF Lines
  <2>5. lines[Top.at + 1] \in Text
    BY <2>2, <2>4, ElementOfSeq DEF Lines
  <2>6. lines[Top.at + 1] \in Seq(Words) /\ LINE_MAX \in Nat
    BY <2>5, LevelsAre DEF Text
  <2>7. IsCut(line, LINE_MAX, lines[Top.at + 1], Words)
    BY <2>6, CutIs
  <2> QED
    BY <2>7 DEF IsCut, Text
<1> HIDE DEF line, lines
<1>4. /\ call.phase = "script" /\ call.left = Top.left /\ call.target = Top.target
      /\ call.n = Top.n /\ call.carried = Top.carried /\ call.held = Top.held /\ call.over = Top.over
      /\ call.screen = Top.screen /\ call.caller_input = Top.caller_input
      /\ call.kept = Top.kept /\ call.said = Top.said /\ call.read = Top.read /\ call.script = Top.script
  BY <1>1, <1>2 DEF CallType
<1>5. call \in CallType
  BY <1>2, CallChanges
<1> HIDE DEF call
<1>6. captures(call) <=> captures(Top)
  BY <1>2, <1>4, <1>5, CapturesAlike
<1>7. Carries(call, L, pipes) /\ HoldsSaid(call, L, pipes) /\ RunsIts(call, L, script)
  BY <1>1, <1>2, <1>4, <1>6 DEF Carries, HoldsSaid, RunsIts
<1>8. Aim(calls, out, L + 1)
  <2>1. out \in Int
    BY <1>2, LevelsAre DEF Levels, Screen
  <2> QED
    BY <2>1, <1>1, <1>2, <1>5, <1>6, AimTop
<1>9. calls # <<>> /\ calls[Len(calls)].phase = "script"
  <2>1. Len(calls) = L /\ calls[L] = call /\ calls \in Seq(CallType)
    <3>1. L \in 1..L
      BY <1>2
    <3> QED
      BY <3>1, <1>2, <1>5, ExceptSeq DEF with_top
  <2> QED
    BY <2>1, <1>2, <1>4, EmptySeq
<1> HIDE DEF calls
<1>10. CallsKept(calls, depth, out, input, pipes, script, running)
  BY <1>1, <1>2, <1>4, <1>5, <1>7, <1>8, TopChanges DEF calls
<1>11. CASE stack' = calls /\ UNCHANGED depth
  BY <1>1, <1>10, <1>11 DEF CommandsInv
<1>12. CASE cmd_run(calls, line)
  <2>1. CallsKept(stack', depth', out', input', pipes', script', running')
    BY <1>1, <1>3, <1>9, <1>10, <1>12, LineRuns
  <2> QED
    BY <2>1, <1>1 DEF CommandsInv
<1> QED
  BY <1>1, <1>11, <1>12

\* At the end of a script the line that ran it goes on.
LEMMA ScriptEnds ==
  ASSUME CommandsInv, EndScript
  PROVE  CommandsInv'
<1> DEFINE L == Len(stack)
           call == [Top EXCEPT !.phase = "ran", !.script = NoScript, !.read = <<>>]
<1>1. /\ stack # <<>> /\ Top.phase = "script" /\ stack' = with_top(call)
      /\ running' = running - 1 /\ UNCHANGED <<depth, out, input, pipes, script, files>>
  BY DEF EndScript
<1>2. /\ Top \in CallType /\ L \in Nat \ {0} /\ running = L
      /\ pipes \in [Pipes -> Text] /\ script \in [Levels -> Text]
      /\ out \in Levels \cup {Screen} /\ input \in Pipes \cup {Nothing}
      /\ Carries(Top, L, pipes) /\ HoldsSaid(Top, L, pipes) /\ Aim(stack, out, L + 1)
  BY <1>1, TopIs
<1>3. /\ call.phase = "ran" /\ call.left = Top.left /\ call.target = Top.target
      /\ call.n = Top.n /\ call.carried = Top.carried /\ call.held = Top.held /\ call.over = Top.over
      /\ call.screen = Top.screen /\ call.caller_input = Top.caller_input
      /\ call.kept = Top.kept /\ call.said = Top.said
  BY <1>2 DEF CallType
<1>4. call \in CallType
  BY <1>2, CallChanges
<1> HIDE DEF call
<1>5. captures(call) <=> captures(Top)
  BY <1>2, <1>3, <1>4, CapturesAlike
<1>6. Carries(call, L, pipes) /\ HoldsSaid(call, L, pipes) /\ RunsIts(call, L, script)
  BY <1>1, <1>2, <1>3, <1>5 DEF Carries, HoldsSaid, RunsIts
<1>7. Aim(stack', out, L + 1)
  <2>1. out \in Int
    BY <1>2, LevelsAre DEF Levels, Screen
  <2> QED
    BY <2>1, <1>1, <1>2, <1>4, <1>5, AimTop
<1>8. CallsKept(stack', depth, out, input, pipes, script, running')
  BY <1>1, <1>2, <1>3, <1>4, <1>6, <1>7, TopChanges
<1> QED
  BY <1>1, <1>8 DEF CommandsInv

\* The next stage carries what the last one left in its buffer.
LEMMA StageFollows ==
  ASSUME CommandsInv, NextStage
  PROVE  CommandsInv'
<1> DEFINE L == Len(stack)
           call == [Top EXCEPT !.phase = "stage", !.left = cmd_split_pipe(@).rest, !.n = @ + 1,
                               !.carried = Top.held, !.kept = pipes[Top.held]]
<1>1. /\ stack # <<>> /\ Top.phase = "ran" /\ ~is_last(Top) /\ stack' = with_top(call)
      /\ UNCHANGED <<depth, out, input, pipes, script, running, files>>
  BY DEF NextStage
<1>2. /\ Top \in CallType /\ L \in Nat \ {0} /\ Level = L - 1 /\ Level \in Levels /\ running = L - 1
      /\ pipes \in [Pipes -> Text] /\ script \in [Levels -> Text]
      /\ out \in Levels \cup {Screen} /\ input \in Pipes \cup {Nothing}
      /\ HoldsSaid(Top, L, pipes)
  BY <1>1, TopIs
<1>3. Top.n \in Nat /\ Top.left \in Text
  BY <1>2 DEF CallType
<1>4. Top.held = pipe_of(Top.n, L - 1)
  BY <1>1, <1>2 DEF HoldsSaid, captures
<1>5. Top.held \in Pipes /\ pipes[Top.held] \in Text
  BY <1>2, <1>3, <1>4, PipesAre
<1>6. cmd_split_pipe(Top.left).rest \in Text
  BY <1>3, PipeIs
<1>7. /\ call.phase = "stage" /\ call.n = Top.n + 1 /\ call.carried = Top.held
      /\ call.screen = Top.screen /\ call.caller_input = Top.caller_input /\ call.kept = pipes[Top.held]
  BY <1>2 DEF CallType
<1>8. call \in CallType
  BY <1>2, <1>5, <1>6, CallGoesOn
<1> HIDE DEF call
<1>9. Carries(call, L, pipes) /\ HoldsSaid(call, L, pipes) /\ RunsIts(call, L, script)
  <2>1. call.n > 0 /\ call.n - 1 = Top.n
    BY <1>3, <1>7
  <2> QED
    BY <2>1, <1>4, <1>7 DEF Carries, HoldsSaid, RunsIts
<1>10. CallsKept(stack', depth, out, input, pipes, script, running)
  BY <1>1, <1>2, <1>7, <1>8, <1>9, TopChanges
<1> QED
  BY <1>1, <1>10 DEF CommandsInv

\* What one call is after another, when only how far it is has changed, or what it heard.
Alike(d, c) ==
  /\ d.left = c.left /\ d.target = c.target /\ d.n = c.n /\ d.carried = c.carried /\ d.held = c.held
  /\ d.screen = c.screen /\ d.caller_input = c.caller_input /\ d.kept = c.kept
  /\ d.script = c.script /\ d.read = c.read

\* What a call is when its command has run.
LEMMA CallRan ==
  ASSUME NEW c \in CallType
  PROVE  /\ [c EXCEPT !.phase = "ran"] \in CallType /\ Alike([c EXCEPT !.phase = "ran"], c)
         /\ [c EXCEPT !.phase = "ran"].phase = "ran" /\ [c EXCEPT !.phase = "ran"].said = c.said
         /\ [c EXCEPT !.phase = "ran"].over = c.over
<1>1. [c EXCEPT !.phase = "ran"] \in CallType
  BY DEF CallType
<1>2. Alike([c EXCEPT !.phase = "ran"], c)
  BY DEF CallType, Alike
<1>3. /\ [c EXCEPT !.phase = "ran"].phase = "ran" /\ [c EXCEPT !.phase = "ran"].said = c.said
      /\ [c EXCEPT !.phase = "ran"].over = c.over
  BY DEF CallType
<1> QED
  BY <1>1, <1>2, <1>3

\* What a call is when something more was said to it.
LEMMA CallHears ==
  ASSUME NEW c \in CallType, NEW said \in Text
  PROVE  /\ [c EXCEPT !.said = said] \in CallType /\ Alike([c EXCEPT !.said = said], c)
         /\ [c EXCEPT !.said = said].phase = c.phase /\ [c EXCEPT !.said = said].said = said
         /\ [c EXCEPT !.said = said].over = c.over
<1>1. [c EXCEPT !.said = said] \in CallType
  BY DEF CallType
<1>2. Alike([c EXCEPT !.said = said], c)
  BY DEF CallType, Alike
<1>3. /\ [c EXCEPT !.said = said].phase = c.phase /\ [c EXCEPT !.said = said].said = said
      /\ [c EXCEPT !.said = said].over = c.over
  BY DEF CallType
<1> QED
  BY <1>1, <1>2, <1>3

\* What a call is when something did not fit.
LEMMA CallOver ==
  ASSUME NEW c \in CallType, NEW past \in BOOLEAN
  PROVE  /\ [c EXCEPT !.over = past] \in CallType /\ Alike([c EXCEPT !.over = past], c)
         /\ [c EXCEPT !.over = past].phase = c.phase /\ [c EXCEPT !.over = past].said = c.said
         /\ [c EXCEPT !.over = past].over = past
<1>1. [c EXCEPT !.over = past] \in CallType
  BY DEF CallType
<1>2. Alike([c EXCEPT !.over = past], c)
  BY DEF CallType, Alike
<1>3. /\ [c EXCEPT !.over = past].phase = c.phase /\ [c EXCEPT !.over = past].said = c.said
      /\ [c EXCEPT !.over = past].over = past
  BY DEF CallType
<1> QED
  BY <1>1, <1>2, <1>3

\* Calls that differ in how far they are capture alike.
LEMMA AlikeCaptures ==
  ASSUME NEW c \in CallType, NEW d \in CallType, Alike(d, c)
  PROVE  captures(d) <=> captures(c)
BY CapturesAlike DEF Alike

\* A buffer has had room for all that came, or it knows.
LEMMA OverIs ==
  ASSUME NEW said \in Text, NEW says \in Text
  PROVE  /\ said \o says \in Text /\ cut_to(VFS_FILE_MAX, said) \in Text
         /\ cut_to(VFS_FILE_MAX, cut_to(VFS_FILE_MAX, said) \o says) = cut_to(VFS_FILE_MAX, said \o says)
         /\ (Len(said) > VFS_FILE_MAX \/ Len(cut_to(VFS_FILE_MAX, said) \o says) > VFS_FILE_MAX)
              = (Len(said \o says) > VFS_FILE_MAX)
<1> DEFINE n == VFS_FILE_MAX
           c == cut_to(n, said)
<1>1. said \in Seq(Words) /\ says \in Seq(Words) /\ n \in Nat
  BY LevelsAre DEF Text
<1>2. IsCut(c, n, said, Words)
  BY <1>1, CutIs
<1>3. cut_to(n, c \o says) = cut_to(n, said \o says)
  BY <1>1, CutAgain
<1> HIDE DEF c, n
<1>4. c \in Seq(Words) /\ Len(c) = IF Len(said) <= n THEN Len(said) ELSE n
  BY <1>2 DEF IsCut
<1>5. /\ said \o says \in Seq(Words) /\ Len(said \o says) = Len(said) + Len(says)
      /\ Len(c \o says) = Len(c) + Len(says)
      /\ Len(said) \in Nat /\ Len(says) \in Nat
  BY <1>1, <1>4, ConcatProperties, LenProperties
<1>6. (Len(said) > n \/ Len(c \o says) > n) = (Len(said \o says) > n)
  BY <1>1, <1>4, <1>5
<1> QED
  BY <1>3, <1>4, <1>5, <1>6 DEF c, n, Text

\* c, having heard what is said, is d, and its buffers pp are qq.
HeardMore(d, c, says, pp, qq) ==
  /\ d.said = c.said \o says
  /\ d.over = (c.over \/ Len(pp[c.held] \o says) > VFS_FILE_MAX)
  /\ qq = [pp EXCEPT ![c.held] = cut_to(VFS_FILE_MAX, @ \o says)]

Elsewhere(pp, qq, level) ==
  \A l \in Levels, m \in Nat : l # level => qq[pipe_of(m, l)] = pp[pipe_of(m, l)]

\* The call that hears has all it was told in the buffer, cut to the room there is.
LEMMA ReaderHears ==
  ASSUME NEW c \in CallType, NEW d \in CallType, NEW i \in 1..CMD_MAX_DEPTH,
         NEW pp \in [Pipes -> Text], NEW qq, NEW sc, NEW says \in Text,
         Carries(c, i, pp), HoldsSaid(c, i, pp), RunsIts(c, i, sc), captures(c), c.phase # "stage",
         Alike(d, c), d.phase \in {c.phase, "ran"}, HeardMore(d, c, says, pp, qq)
  PROVE  /\ qq \in [Pipes -> Text]
         /\ Carries(d, i, qq) /\ HoldsSaid(d, i, qq) /\ RunsIts(d, i, sc)
         /\ Elsewhere(pp, qq, i - 1)
<1> DEFINE buffer == c.held
<1>1. /\ c.n \in Nat /\ c.said \in Text /\ i - 1 \in Levels
      /\ buffer = pipe_of(c.n, i - 1) /\ pp[buffer] = cut_to(VFS_FILE_MAX, c.said)
      /\ c.over = (Len(c.said) > VFS_FILE_MAX)
  BY LevelsAre DEF CallType, HoldsSaid
<1>2. buffer \in Pipes
  BY <1>1, PipesAre
<1> HIDE DEF buffer
<1>3. cut_to(VFS_FILE_MAX, c.said \o says) \in Text
  <2>1. c.said \o says \in Text
    BY <1>1, OverIs
  <2> QED
    BY <2>1, OverIs, WordsAre
<1>4. cut_to(VFS_FILE_MAX, pp[buffer] \o says) = cut_to(VFS_FILE_MAX, c.said \o says)
  BY <1>1, OverIs
<1>5. qq = [pp EXCEPT ![buffer] = cut_to(VFS_FILE_MAX, c.said \o says)]
  BY <1>4 DEF buffer, HeardMore
<1>6. /\ qq \in [Pipes -> Text] /\ qq[buffer] = cut_to(VFS_FILE_MAX, c.said \o says)
      /\ \A p \in Pipes : p # buffer => qq[p] = pp[p]
  BY <1>2, <1>3, <1>5
<1>7. \A l \in Levels, m \in Nat : l # i - 1 => qq[pipe_of(m, l)] = pp[pipe_of(m, l)]
  <2>1. ASSUME NEW l \in Levels, NEW m \in Nat, l # i - 1 PROVE pipe_of(m, l) # buffer /\ pipe_of(m, l) \in Pipes
    BY <2>1, <1>1, PipesAre
  <2> QED
    BY <2>1, <1>6
<1>8. Carries(d, i, qq)
  <2>1. ASSUME c.n > 0 PROVE pipe_of(c.n - 1, i - 1) # buffer /\ pipe_of(c.n - 1, i - 1) \in Pipes
    <3>1. c.n - 1 \in Nat /\ (c.n - 1) + 1 = c.n
      BY <2>1, <1>1
    <3>2. pipe_of((c.n - 1) + 1, i - 1) # pipe_of(c.n - 1, i - 1) /\ pipe_of(c.n - 1, i - 1) \in Pipes
      BY <3>1, <1>1, PipesAre
    <3> QED
      BY <3>1, <3>2, <1>1
  <2> QED
    BY <2>1, <1>6 DEF Carries, Alike
<1>9. HoldsSaid(d, i, qq)
  <2>1. d.over = (Len(d.said) > VFS_FILE_MAX)
    <3>1. d.over = (Len(c.said) > VFS_FILE_MAX \/ Len(cut_to(VFS_FILE_MAX, c.said) \o says) > VFS_FILE_MAX)
      BY <1>1 DEF buffer, HeardMore
    <3>2. d.said = c.said \o says
      BY DEF HeardMore
    <3> QED
      BY <3>1, <3>2, <1>1, OverIs
  <2>2. d.held = buffer /\ d.n = c.n
    BY DEF Alike, buffer
  <2> QED
    BY <2>1, <2>2, <1>1, <1>6 DEF HoldsSaid, HeardMore
<1>10. RunsIts(d, i, sc)
  <2>1. d.phase = "script" => c.phase = "script"
    OBVIOUS
  <2> QED
    BY <2>1 DEF RunsIts, Alike
<1> QED
  BY <1>6, <1>7, <1>8, <1>9, <1>10 DEF Elsewhere

\* The answers to the command of the innermost call are sound.
LEMMA CommandAnswers ==
  ASSUME CommandsInv, stack # <<>>, NEW answer \in answers(command)
  PROVE  answer.says \in Text /\ FilesOK(answer.files)
<1>1. Top.left \in Text /\ pipes \in [Pipes -> Text] /\ input \in Pipes \cup {Nothing} /\ FilesOK(files)
  BY TopIs DEF CallType, CommandsInv
<1>2. Readable
  BY <1>1 DEF Readable
<1>3. command \in Text
  BY <1>1, PipeIs DEF command
<1> QED
  BY <1>2, <1>3, AnswersAre DEF Answers

\* Who hears: nobody, or the one that `out' says.
LEMMA ReaderIs ==
  ASSUME CommandsInv, stack # <<>>, Top.phase # "stage"
  PROVE  \/ out = Screen /\ Readers = {} /\ \A j \in 1..Len(stack) : ~captures(stack[j])
         \/ /\ out \in Levels /\ out # Screen /\ reader = out + 1 /\ reader \in 1..Len(stack) /\ Readers # {}
            /\ captures(stack[reader]) /\ \A j \in 1..Len(stack) : j > reader => ~captures(stack[j])
<1> DEFINE L == Len(stack)
<1>1. /\ L \in Nat \ {0} /\ Aim(stack, out, L + 1) /\ out \in Levels \cup {Screen} /\ stack \in Seq(CallType)
  BY TopIs
<1>2. Readers = {i \in 1..L : captures(stack[i])}
  BY <1>1, LenProperties DEF Readers
<1> HIDE DEF L
<1>3. CASE out = Screen /\ \A j \in 1..((L + 1) - 1) : ~captures(stack[j])
  BY <1>1, <1>2, <1>3 DEF L
<1>4. CASE /\ out + 1 \in 1..((L + 1) - 1) /\ captures(stack[out + 1])
           /\ \A j \in (out + 2)..((L + 1) - 1) : ~captures(stack[j])
  <2> DEFINE r == out + 1
  <2>1. out \in Int /\ Screen + 1 = 0
    BY <1>1, LevelsAre DEF Levels, Screen
  <2>2. r \in 1..L /\ out # Screen /\ captures(stack[r])
    BY <2>1, <1>1, <1>4
  <2>3. \A j \in 1..L : j > r => ~captures(stack[j])
    <3>1. \A j \in 1..L : j > r => j \in (out + 2)..((L + 1) - 1)
      BY <2>1, <1>1
    <3> QED
      BY <3>1, <1>4
  <2> HIDE DEF r
  <2>4. r \in Readers /\ \A j \in Readers : j <= r
    BY <2>2, <2>3, <1>1, <1>2
  <2>5. \A i \in Readers : (\A j \in Readers : j <= i) => i = r
    BY <2>4, <1>1, <1>2
  <2>6. reader = r
    BY <2>4, <2>5 DEF reader
  <2> QED
    BY <2>2, <2>3, <2>4, <2>6, <1>1 DEF r, L
<1> QED
  BY <1>1, <1>3, <1>4 DEF Aim

\* What is printed to the screen disturbs no call.
LEMMA NobodyHears ==
  ASSUME CommandsInv, RunCommand, Readers = {}, out = Screen
  PROVE  CallsKept(stack', depth', out', input', pipes', script', running')
<1> DEFINE L == Len(stack)
           call == [Top EXCEPT !.phase = "ran"]
<1>1. /\ stack # <<>> /\ Top.phase = "command" /\ stack' = with_top(call) /\ pipes' = pipes
      /\ UNCHANGED <<depth, out, input, script, running>>
  BY DEF RunCommand, printed_to
<1>2. /\ Top \in CallType /\ L \in Nat \ {0} /\ running = L - 1
      /\ pipes \in [Pipes -> Text] /\ script \in [Levels -> Text]
      /\ out \in Levels \cup {Screen} /\ input \in Pipes \cup {Nothing}
      /\ Carries(Top, L, pipes) /\ HoldsSaid(Top, L, pipes) /\ Aim(stack, out, L + 1)
  BY <1>1, TopIs
<1>3. call \in CallType /\ Alike(call, Top) /\ call.phase = "ran" /\ call.said = Top.said /\ call.over = Top.over
  BY <1>2, CallRan
<1> HIDE DEF call
<1>4. captures(call) <=> captures(Top)
  BY <1>2, <1>3, AlikeCaptures
<1>5. Carries(call, L, pipes) /\ HoldsSaid(call, L, pipes) /\ RunsIts(call, L, script)
  BY <1>1, <1>2, <1>3, <1>4 DEF Carries, HoldsSaid, RunsIts, Alike
<1>6. Aim(stack', out, L + 1)
  <2>1. out \in Int
    BY <1>2, LevelsAre DEF Levels, Screen
  <2> QED
    BY <2>1, <1>1, <1>2, <1>3, <1>4, AimTop
<1>7. call.caller_input = Top.caller_input /\ call.screen = Top.screen
  BY <1>3 DEF Alike
<1>8. CallsKept(stack', depth, out, input, pipes, script, running)
  BY <1>1, <1>2, <1>3, <1>5, <1>6, <1>7, TopChanges
<1> QED
  BY <1>1, <1>8

\* What the calls are after a command has printed to the one that reads it.
Hears(calls, says) ==
  /\ calls \in Seq(CallType) /\ Len(calls) = Len(stack)
  /\ \A j \in 1..Len(stack) :
       /\ calls[j] \in CallType /\ Alike(calls[j], stack[j])
       /\ calls[j].phase = IF j = Len(stack) THEN "ran" ELSE stack[j].phase
       /\ j # reader => calls[j].said = stack[j].said /\ calls[j].over = stack[j].over
  /\ calls[reader].said = stack[reader].said \o says
  /\ calls[reader].over
       = (stack[reader].over \/ Len(pipes[stack[reader].held] \o says) > VFS_FILE_MAX)

\* What cmd_print does to the calls is that the one `out' names hears it.
LEMMA SomebodyHears ==
  ASSUME CommandsInv, stack # <<>>, NEW says \in Text, out # Screen, Readers # {},
         reader \in 1..Len(stack), reader = out + 1
  PROVE  Hears(printed_to([with_top([Top EXCEPT !.phase = "ran"]) EXCEPT ![reader].said = @ \o says], says), says)
<1> DEFINE L == Len(stack)
           r == reader
           finished_call == [Top EXCEPT !.phase = "ran"]
           ended == with_top(finished_call)
           said == ended[r].said \o says
           x == ended[r]
           e == [x EXCEPT !.said = said]
           heard == [ended EXCEPT ![r] = e]
           past == heard[r].over \/ Len(pipes[heard[r].held] \o says) > VFS_FILE_MAX
           y == heard[r]
           f == [y EXCEPT !.over = past]
           calls == [heard EXCEPT ![r] = f]
<1>1. /\ stack \in Seq(CallType) /\ L \in Nat \ {0} /\ L \in 1..L /\ Top \in CallType /\ Top = stack[L]
  BY TopIs
<1>2. printed_to([ended EXCEPT ![r].said = @ \o says], says) = calls
  BY DEF printed_to
<1>3. finished_call \in CallType /\ Alike(finished_call, Top) /\ finished_call.phase = "ran" /\ finished_call.said = Top.said /\ finished_call.over = Top.over
  BY <1>1, CallRan
<1> HIDE DEF finished_call
<1>4. ended \in Seq(CallType) /\ Len(ended) = L /\ \A j \in 1..L : ended[j] = IF j = L THEN finished_call ELSE stack[j]
  BY <1>1, <1>3, ExceptSeq DEF with_top
<1> HIDE DEF ended
<1>5. ended[r] \in CallType /\ r \in 1..L /\ Alike(ended[r], stack[r])
      /\ ended[r].said = stack[r].said /\ ended[r].over = stack[r].over
      /\ ended[r].phase = IF r = L THEN "ran" ELSE stack[r].phase
  <2>1. ended[r] \in CallType
    BY <1>4, ElementOfSeq
  <2>2. CASE r = L
    BY <2>1, <2>2, <1>1, <1>3, <1>4
  <2>3. CASE r # L
    BY <2>1, <2>3, <1>1, <1>4 DEF Alike
  <2> QED
    BY <2>2, <2>3
<1>6. said \in Text
  BY <1>5, OverIs DEF CallType
<1> HIDE DEF said
<1>7. /\ e \in CallType /\ Alike(e, ended[r]) /\ e.phase = ended[r].phase /\ e.said = said
      /\ e.over = ended[r].over
  <2>1. x \in CallType /\ x = ended[r]
    BY <1>5
  <2> HIDE DEF x
  <2>2. /\ e \in CallType /\ Alike(e, x) /\ e.phase = x.phase /\ e.said = said /\ e.over = x.over
    BY <2>1, <1>6, CallHears
  <2> QED
    BY <2>1, <2>2
<1> HIDE DEF e
<1>8. heard \in Seq(CallType) /\ Len(heard) = L /\ \A j \in 1..L : heard[j] = IF j = r THEN e ELSE ended[j]
  BY <1>4, <1>5, <1>7, ExceptSeq
<1> HIDE DEF heard
<1>9. heard[r] = e
  BY <1>5, <1>8
<1>10. past \in BOOLEAN
  <2>1. heard[r].over \in BOOLEAN
    BY <1>7, <1>9 DEF CallType
  <2> QED
    BY <2>1
<1>11. past = (stack[r].over \/ Len(pipes[stack[r].held] \o says) > VFS_FILE_MAX)
  BY <1>5, <1>7, <1>9 DEF Alike
<1> HIDE DEF past
<1>12. /\ f \in CallType /\ Alike(f, e) /\ f.phase = e.phase /\ f.said = e.said /\ f.over = past
  <2>1. y \in CallType /\ y = e
    BY <1>7, <1>9
  <2> HIDE DEF y
  <2>2. /\ f \in CallType /\ Alike(f, y) /\ f.phase = y.phase /\ f.said = y.said /\ f.over = past
    BY <2>1, <1>10, CallOver
  <2> QED
    BY <2>1, <2>2
<1> HIDE DEF f
<1>13. calls \in Seq(CallType) /\ Len(calls) = L /\ \A j \in 1..L : calls[j] = IF j = r THEN f ELSE heard[j]
  BY <1>5, <1>8, <1>12, ExceptSeq
<1> HIDE DEF calls
<1>14. calls[r] = f /\ Alike(f, stack[r])
  BY <1>5, <1>7, <1>12, <1>13 DEF Alike
<1>15. ASSUME NEW j \in 1..L
       PROVE  /\ calls[j] \in CallType /\ Alike(calls[j], stack[j])
              /\ calls[j].phase = IF j = L THEN "ran" ELSE stack[j].phase
              /\ j # r => calls[j].said = stack[j].said /\ calls[j].over = stack[j].over
  <2>1. CASE j = r
    BY <2>1, <1>5, <1>7, <1>12, <1>14
  <2>2. CASE j # r
    <3>1. calls[j] = ended[j] /\ calls[j] \in CallType
      BY <2>2, <1>8, <1>13, ElementOfSeq
    <3>2. CASE j = L
      BY <3>1, <3>2, <1>1, <1>3, <1>4
    <3>3. CASE j # L
      BY <3>1, <3>3, <1>1, <1>4 DEF Alike
    <3> QED
      BY <3>2, <3>3
  <2> QED
    BY <2>1, <2>2
<1>16. calls[r].said = stack[r].said \o says /\ calls[r].over = past
  BY <1>5, <1>7, <1>12, <1>14 DEF said
<1>17. Hears(calls, says)
  BY <1>11, <1>13, <1>15, <1>16 DEF Hears
<1> QED
  BY <1>2, <1>17 DEF calls, ended, finished_call

\* What was printed reached its reader, and every other call is as it was.
LEMMA HeardIsKept ==
  ASSUME CommandsInv, stack # <<>>, Top.phase = "command", NEW says \in Text, NEW calls, NEW pp,
         Hears(calls, says), reader \in 1..Len(stack), captures(stack[reader]),
         \A j \in 1..Len(stack) : j > reader => ~captures(stack[j]),
         HeardMore(calls[reader], stack[reader], says, pipes, pp)
  PROVE  CallsKept(calls, depth, out, input, pp, script, running)
<1> DEFINE L == Len(stack)
           r == reader
<1>1. /\ stack \in Seq(CallType) /\ L \in Nat \ {0} /\ L \in 1..CMD_MAX_DEPTH /\ L <= CMD_MAX_DEPTH
      /\ depth = L /\ running = L - 1
      /\ out \in Levels \cup {Screen} /\ input \in Pipes \cup {Nothing}
      /\ pipes \in [Pipes -> Text] /\ script \in [Levels -> Text] /\ Top = stack[L]
      /\ Aim(stack, out, L + 1) /\ RunsIts(Top, L, script)
  BY TopIs
<1>2. /\ calls \in Seq(CallType) /\ Len(calls) = L /\ calls # <<>>
      /\ \A j \in 1..L :
           /\ calls[j] \in CallType /\ Alike(calls[j], stack[j])
           /\ calls[j].phase = IF j = L THEN "ran" ELSE stack[j].phase
           /\ j # r => calls[j].said = stack[j].said /\ calls[j].over = stack[j].over
  BY <1>1, EmptySeq DEF Hears
<1>4. ASSUME NEW j \in 1..L
      PROVE  /\ j \in 1..CMD_MAX_DEPTH /\ stack[j] \in CallType /\ CallKept(stack, j, pipes, script)
             /\ stack[j].phase = IF j = L THEN "command" ELSE "script"
             /\ captures(calls[j]) <=> captures(stack[j])
  <2>1. j \in 1..CMD_MAX_DEPTH /\ stack[j] \in CallType
    BY <1>1, LevelsAre, ElementOfSeq
  <2>2. CallKept(stack, j, pipes, script)
    BY DEF CommandsInv, CallsKept
  <2>3. stack[j].phase = IF j = L THEN "command" ELSE "script"
    <3>1. j < L \/ j = L
      BY <1>1
    <3> QED
      BY <3>1, <2>2, <1>1 DEF CallKept
  <2>4. captures(calls[j]) <=> captures(stack[j])
    BY <2>1, <1>2, AlikeCaptures
  <2> QED
    BY <2>1, <2>2, <2>3, <2>4
<1>5. /\ pp \in [Pipes -> Text]
      /\ Carries(calls[r], r, pp) /\ HoldsSaid(calls[r], r, pp) /\ RunsIts(calls[r], r, script)
      /\ Elsewhere(pipes, pp, r - 1)
  <2> DEFINE c == stack[r]
             d == calls[r]
  <2>1. /\ c \in CallType /\ d \in CallType /\ r \in 1..CMD_MAX_DEPTH /\ captures(c) /\ c.phase # "stage"
        /\ Alike(d, c) /\ d.phase \in {c.phase, "ran"}
    BY <1>2, <1>4
  <2>2. Carries(c, r, pipes) /\ HoldsSaid(c, r, pipes) /\ RunsIts(c, r, script)
    BY <1>4 DEF CallKept
  <2>3. HeardMore(d, c, says, pipes, pp)
    OBVIOUS
  <2> HIDE DEF c, d, r
  <2>4. /\ pp \in [Pipes -> Text]
        /\ Carries(d, r, pp) /\ HoldsSaid(d, r, pp) /\ RunsIts(d, r, script)
        /\ Elsewhere(pipes, pp, r - 1)
    <3>1. pipes \in [Pipes -> Text]
      BY <1>1
    <3> HIDE DEF L
    <3> QED
      BY <2>1, <2>2, <2>3, <3>1, ReaderHears
  <2> QED
    BY <2>4 DEF d, r
<1>6. ASSUME NEW j \in 1..L PROVE CallKept(calls, j, pp, script)
  <2>1. Aim(calls, calls[j].screen, j)
    <3>1. Aim(stack, stack[j].screen, j) /\ calls[j].screen = stack[j].screen
      BY <1>2, <1>4 DEF CallKept, Alike
    <3>2. stack[j].screen \in Int /\ j \in Nat
      BY <1>4, LevelsAre DEF CallType, Levels, Screen
    <3>3. \A k \in 1..(j - 1) : captures(calls[k]) <=> captures(stack[k])
      BY <1>1, <1>4
    <3> QED
      BY <3>1, <3>2, <3>3, AimStays
  <2>2. j < Len(calls) => calls[j].phase = "script"
    BY <1>1, <1>2, <1>4
  <2>3. CASE j = r
    BY <2>1, <2>2, <2>3, <1>5 DEF CallKept
  <2>4. CASE j # r
    <3>1. \A m \in Nat : pp[pipe_of(m, j - 1)] = pipes[pipe_of(m, j - 1)]
      <4>1. j - 1 \in Levels /\ j - 1 # r - 1
        BY <2>4, <1>4, LevelsAre
      <4> QED
        BY <4>1, <1>5 DEF Elsewhere
    <3>2. Carries(stack[j], j, pipes) /\ HoldsSaid(stack[j], j, pipes) /\ RunsIts(stack[j], j, script)
      BY <1>4 DEF CallKept
    <3>3. /\ Alike(calls[j], stack[j]) /\ calls[j].said = stack[j].said /\ calls[j].over = stack[j].over
          /\ calls[j].phase = IF j = L THEN "ran" ELSE stack[j].phase
          /\ stack[j].n \in Nat /\ stack[j].phase # "stage"
      BY <2>4, <1>2, <1>4 DEF CallType
    <3>4. Carries(calls[j], j, pp)
      <4>1. stack[j].n > 0 => stack[j].n - 1 \in Nat
        BY <3>3
      <4> QED
        BY <4>1, <3>1, <3>2, <3>3 DEF Carries, Alike
    <3>5. HoldsSaid(calls[j], j, pp)
      BY <3>1, <3>2, <3>3, <1>4 DEF HoldsSaid, Alike
    <3>6. RunsIts(calls[j], j, script)
      BY <3>2, <3>3 DEF RunsIts, Alike
    <3> QED
      BY <2>1, <2>2, <3>4, <3>5, <3>6 DEF CallKept
  <2> QED
    BY <2>3, <2>4
<1>7. Aim(calls, out, L + 1)
  <2>1. out \in Int /\ L + 1 \in Nat
    BY <1>1, LevelsAre DEF Levels, Screen
  <2>2. \A k \in 1..((L + 1) - 1) : captures(calls[k]) <=> captures(stack[k])
    BY <1>1, <1>4
  <2> QED
    BY <2>1, <2>2, <1>1, AimStays
<1>8. running = Scripts(calls)
  <2>1. calls[L].phase = "ran"
    BY <1>1, <1>2
  <2> QED
    BY <2>1, <1>1, <1>2 DEF Scripts
<1>9. calls[1].caller_input = Nothing
  <2>1. 1 \in 1..L
    BY <1>1
  <2>2. stack[1].caller_input = Nothing
    BY DEF CommandsInv, CallsKept
  <2> QED
    BY <2>1, <2>2, <1>2 DEF Alike
<1>10. \A i \in 1..Len(calls) : CallKept(calls, i, pp, script)
  BY <1>2, <1>6
<1>11. Aim(calls, out, Len(calls) + 1) /\ depth = Len(calls) /\ Len(calls) <= CMD_MAX_DEPTH
  BY <1>1, <1>2, <1>7
<1>12. pp \in [Pipes -> Text]
  BY <1>5
<1> HIDE DEF L, r
<1> QED
  BY <1>1, <1>2, <1>8, <1>9, <1>10, <1>11, <1>12 DEF CallsKept

\* A command that runs keeps the invariant, whoever hears it.
LEMMA CommandRuns ==
  ASSUME CommandsInv, RunCommand
  PROVE  CommandsInv'
<1> DEFINE ended == with_top([Top EXCEPT !.phase = "ran"])
           heard(answer) == IF Readers = {} THEN ended ELSE [ended EXCEPT ![reader].said = @ \o answer.says]
<1>1. /\ stack # <<>> /\ Top.phase = "command" /\ UNCHANGED <<depth, out, input, script, running>>
  BY DEF RunCommand
<1>2. PICK answer \in answers(command) :
        /\ stack' = printed_to(heard(answer), answer.says)
        /\ pipes' = IF out = Screen THEN pipes
                    ELSE [pipes EXCEPT ![stack[out + 1].held] = cut_to(VFS_FILE_MAX, @ \o answer.says)]
        /\ files' = answer.files
  BY DEF RunCommand
<1> DEFINE says == answer.says
<1>3. says \in Text /\ FilesOK(files')
  BY <1>1, <1>2, CommandAnswers
<1>4. CASE out = Screen /\ Readers = {} /\ \A j \in 1..Len(stack) : ~captures(stack[j])
  <2>1. CallsKept(stack', depth', out', input', pipes', script', running')
    BY <1>4, NobodyHears
  <2> QED
    BY <2>1, <1>3 DEF CommandsInv
<1>5. CASE /\ out \in Levels /\ out # Screen /\ reader = out + 1 /\ reader \in 1..Len(stack) /\ Readers # {}
           /\ captures(stack[reader]) /\ \A j \in 1..Len(stack) : j > reader => ~captures(stack[j])
  <2>1. stack' = printed_to([ended EXCEPT ![reader].said = @ \o says], says)
    BY <1>2, <1>5
  <2>2. pipes' = [pipes EXCEPT ![stack[reader].held] = cut_to(VFS_FILE_MAX, @ \o says)]
    BY <1>2, <1>5
  <2> HIDE DEF says
  <2>3. Hears(stack', says)
    BY <1>1, <1>3, <1>5, <2>1, SomebodyHears
  <2>4. HeardMore(stack'[reader], stack[reader], says, pipes, pipes')
    BY <2>2, <2>3 DEF HeardMore, Hears
  <2>5. CallsKept(stack', depth, out, input, pipes', script, running)
    BY <1>1, <1>3, <1>5, <2>3, <2>4, HeardIsKept
  <2> QED
    BY <2>5, <1>1, <1>3 DEF CommandsInv
<1> QED
  BY <1>1, <1>4, <1>5, ReaderIs

\* What Front of a sequence is, place by place.
LEMMA FrontIs ==
  ASSUME NEW S, NEW s \in Seq(S), s # <<>>
  PROVE  /\ Front(s) \in Seq(S) /\ Len(Front(s)) = Len(s) - 1
         /\ \A i \in 1..(Len(s) - 1) : Front(s)[i] = s[i]
<1> DEFINE n == Len(s) - 1
           f == SubSeq(s, 1, n)
<1>1. n \in Nat /\ \A i \in 1..n : s[i] \in S
  BY EmptySeq, LenProperties, ElementOfSeq
<1>2. Front(s) = f
  BY DEF Front
<1> HIDE DEF n
<1>3. /\ f \in Seq(S) /\ Len(f) = IF 1 <= n THEN n - 1 + 1 ELSE 0
      /\ \A i \in 1..(n - 1 + 1) : f[i] = s[1 + i - 1]
  BY <1>1, SubSeqProperties
<1> HIDE DEF f
<1>4. n - 1 + 1 = n /\ \A i \in 1..n : 1 + i - 1 = i
  BY <1>1
<1>5. Len(f) = n /\ \A i \in 1..n : f[i] = s[i]
  BY <1>1, <1>3, <1>4
<1> QED
  BY <1>2, <1>3, <1>5 DEF n

\* A text without its last newline is a text.
LEMMA TrimmedIs ==
  ASSUME NEW text \in Text
  PROVE  trimmed(text) \in Text
<1>1. text # <<>> => Front(text) \in Seq(Words)
  BY FrontIs DEF Text
<1> QED
  BY <1>1 DEF trimmed, Text

\* What a line writes to its file leaves files that are texts.
LEMMA EndWrites ==
  ASSUME CommandsInv, EndLine
  PROVE  FilesOK(files')
<1>1. /\ stack # <<>> /\ Top.phase = "ran"
      /\ files' \in IF Top.target = <<>> THEN {files}
                    ELSE LET text == trimmed(pipes[Top.held])
                         IN  {written(Top.target[1], text)} \cup not_written(Top.target[1], text)
  BY DEF EndLine
<1>2. /\ Top \in CallType /\ pipes \in [Pipes -> Text] /\ HoldsSaid(Top, Len(stack), pipes)
      /\ Level = Len(stack) - 1 /\ Level \in Levels /\ FilesOK(files)
  BY <1>1, TopIs DEF CommandsInv
<1>3. CASE Top.target = <<>>
  BY <1>1, <1>2, <1>3
<1>4. CASE Top.target # <<>>
  <2> DEFINE text == trimmed(pipes[Top.held])
  <2>1. Top.held = pipe_of(Top.n, Level) /\ Top.n \in Nat
    BY <1>1, <1>2, <1>4 DEF HoldsSaid, captures, CallType
  <2>2. pipes[Top.held] \in Text
    BY <2>1, <1>2, PipesAre
  <2>3. text \in Text
    BY <2>2, TrimmedIs
  <2> HIDE DEF text
  <2>4. files' = written(Top.target[1], text) \/ files' \in not_written(Top.target[1], text)
    BY <1>1, <1>4 DEF text
  <2>5. FilesOK(written(Top.target[1], text))
    BY <2>3, <1>2, PutIn DEF written
  <2> QED
    BY <2>4, <2>5, <1>2, NotWritten
<1> QED
  BY <1>3, <1>4

\* A line that ends gives back its caller's sink, input and depth.
LEMMA LineEnds ==
  ASSUME CommandsInv, EndLine
  PROVE  CommandsInv'
<1> DEFINE L == Len(stack)
           fewer == Front(stack)
<1>1. /\ stack # <<>> /\ Top.phase = "ran" /\ stack' = fewer /\ depth' = depth - 1
      /\ out' = Top.screen /\ input' = Top.caller_input /\ UNCHANGED <<pipes, script, running>>
  BY DEF EndLine, caller_out
<1>2. /\ stack \in Seq(CallType) /\ L \in Nat \ {0} /\ L \in 1..CMD_MAX_DEPTH /\ L <= CMD_MAX_DEPTH
      /\ depth = L /\ running = L - 1 /\ Top \in CallType /\ Top = stack[L]
      /\ pipes \in [Pipes -> Text] /\ script \in [Levels -> Text] /\ Aim(stack, Top.screen, L)
  BY <1>1, TopIs
<1>3. Top.screen \in Levels \cup {Screen} /\ Top.caller_input \in Pipes \cup {Nothing}
  BY <1>2 DEF CallType
<1>4. fewer \in Seq(CallType) /\ Len(fewer) = L - 1 /\ \A i \in 1..(L - 1) : fewer[i] = stack[i]
  BY <1>1, <1>2, FrontIs
<1> HIDE DEF fewer
<1>5. fewer = <<>> <=> L = 1
  BY <1>2, <1>4, EmptySeq
<1>6. ASSUME NEW i \in 1..(L - 1)
      PROVE  CallKept(fewer, i, pipes, script) /\ fewer[i].phase = "script"
  <2>1. i \in 1..CMD_MAX_DEPTH /\ i \in 1..L /\ i < L /\ i \in Nat
    BY <1>2, LevelsAre
  <2>2. CallKept(stack, i, pipes, script) /\ stack[i] \in CallType
    BY <2>1, <1>2, ElementOfSeq DEF CommandsInv, CallsKept
  <2>3. stack[i].phase = "script" /\ fewer[i] = stack[i]
    BY <2>1, <2>2, <1>4 DEF CallKept
  <2>4. \A j \in 1..(i - 1) : captures(fewer[j]) <=> captures(stack[j])
    BY <2>1, <1>2, <1>4
  <2> QED
    BY <2>1, <2>2, <2>3, <2>4, CallStays
<1>7. L = 1 => Top.screen = Screen /\ Top.caller_input = Nothing
  <2>1. stack[1].caller_input = Nothing
    BY <1>1 DEF CommandsInv, CallsKept
  <2>2. L = 1 => Top.screen = Screen
    BY <1>2 DEF Aim
  <2> QED
    BY <2>1, <2>2, <1>2
<1>8. L # 1 => Aim(fewer, Top.screen, (L - 1) + 1) /\ fewer[1].caller_input = Nothing
  <2>1. Aim(fewer, Top.screen, L)
    <3>1. Top.screen \in Int /\ L \in Nat
      BY <1>2, <1>3, LevelsAre DEF Levels, Screen
    <3>2. \A j \in 1..(L - 1) : captures(fewer[j]) <=> captures(stack[j])
      BY <1>4
    <3> QED
      BY <3>1, <3>2, <1>2, AimStays
  <2>2. stack[1].caller_input = Nothing
    BY <1>1 DEF CommandsInv, CallsKept
  <2>3. L # 1 => 1 \in 1..(L - 1)
    BY <1>2
  <2>4. (L - 1) + 1 = L
    BY <1>2
  <2> QED
    BY <2>1, <2>2, <2>3, <2>4, <1>4
<1>9. running = Scripts(fewer)
  <2>1. CASE L = 1
    BY <2>1, <1>2, <1>5 DEF Scripts
  <2>2. CASE L # 1
    <3>1. L - 1 \in 1..(L - 1)
      BY <2>2, <1>2
    <3>2. fewer[L - 1].phase = "script" /\ Len(fewer) = L - 1
      BY <3>1, <1>4, <1>6
    <3> QED
      BY <3>2, <2>2, <1>2, <1>5 DEF Scripts
  <2> QED
    BY <2>1, <2>2
<1>10. depth' = Len(fewer) /\ Len(fewer) <= CMD_MAX_DEPTH
  BY <1>1, <1>2, <1>4, LevelsAre
<1>11. /\ \A i \in 1..Len(fewer) : CallKept(fewer, i, pipes, script)
       /\ fewer = <<>> => Top.screen = Screen /\ Top.caller_input = Nothing
       /\ fewer # <<>> => fewer[1].caller_input = Nothing
       /\ fewer # <<>> => Aim(fewer, Top.screen, Len(fewer) + 1)
  BY <1>4, <1>5, <1>6, <1>7, <1>8
<1> HIDE DEF L
<1>12. CallsKept(fewer, depth', Top.screen, Top.caller_input, pipes, script, running)
  BY <1>2, <1>3, <1>4, <1>9, <1>10, <1>11 DEF CallsKept
<1>13. FilesOK(files')
  BY EndWrites
<1> QED
  BY <1>1, <1>12, <1>13 DEF CommandsInv

\* The invariant holds before anything is typed.
LEMMA CommandsStart ==
  ASSUME CommandsInit
  PROVE  CommandsInv
<1>1. FilesOK(files)
  <2>1. ASSUME NEW name \in DOMAIN files PROVE files[name] \in Text
    <3>1. files[name] \in Seq(STRING) /\ STRING \subseteq Words
      BY <2>1, CommandsAssumption DEF CommandsInit, Words
    <3> QED
      BY <3>1, SeqMonotonic DEF Text
  <2> QED
    BY <2>1 DEF FilesOK
<1>2. pipes \in [Pipes -> Text] /\ script \in [Levels -> Text]
  BY WordsAre DEF CommandsInit, Pipes
<1>3. /\ stack \in Seq(CallType) /\ Len(stack) = 0 /\ Len(stack) <= CMD_MAX_DEPTH /\ stack = <<>>
      /\ \A i \in 1..Len(stack) : CallKept(stack, i, pipes, script)
  <2>1. stack \in Seq(CallType) /\ Len(stack) = 0 /\ stack = <<>>
    BY EmptySeq DEF CommandsInit
  <2> QED
    BY <2>1, LevelsAre
<1>4. running = Scripts(stack) /\ depth = 0 /\ out = Screen /\ input = Nothing
  BY DEF CommandsInit, Scripts
<1>5. CallsKept(stack, depth, out, input, pipes, script, running)
  BY <1>2, <1>3, <1>4 DEF CallsKept
<1> QED
  BY <1>1, <1>5 DEF CommandsInv

\* Every step keeps the invariant: one case for each action.
LEMMA CommandsStep ==
  ASSUME CommandsInv, CommandsNext
  PROVE  CommandsInv'
<1>1. CASE TypeLine
  BY <1>1, LineTyped
<1>2. CASE StartStage
  BY <1>2, StageStarts
<1>3. CASE RunCommand
  BY <1>3, CommandRuns
<1>4. CASE OpenScript
  BY <1>4, ScriptOpens
<1>5. CASE NextLine
  BY <1>5, ScriptGoesOn
<1>6. CASE EndScript
  BY <1>6, ScriptEnds
<1>7. CASE NextStage
  BY <1>7, StageFollows
<1>8. CASE EndLine
  BY <1>8, LineEnds
<1> QED
  BY <1>1, <1>2, <1>3, <1>4, <1>5, <1>6, <1>7, <1>8 DEF CommandsNext

\* A step that changes nothing here keeps it.
LEMMA CommandsStutter ==
  ASSUME CommandsInv, UNCHANGED commands_vars
  PROVE  CommandsInv'
BY DEF CommandsInv, commands_vars

\* So it holds of every behaviour.
LEMMA CallsAreKept == CommandsSpec => []CommandsInv
<1>1. CommandsInit => CommandsInv
  BY CommandsStart
<1>2. CommandsInv /\ [CommandsNext]_commands_vars => CommandsInv'
  BY CommandsStep, CommandsStutter
<1> QED
  BY <1>1, <1>2, PTL DEF CommandsSpec

\* The invariant says that what is carried and what is run are as they were.
LEMMA BuffersKept ==
  ASSUME CommandsInv
  PROVE  BuffersAreTheirOwn
<1>1. ASSUME NEW i \in DOMAIN stack
      PROVE  /\ stack[i].carried # Nothing => pipes[stack[i].carried] = stack[i].kept
             /\ stack[i].phase = "script" => script[stack[i].script] = stack[i].read
  <2>1. i \in 1..Len(stack)
    BY <1>1, LenProperties DEF CommandsInv, CallsKept
  <2>2. Carries(stack[i], i, pipes) /\ RunsIts(stack[i], i, script)
    BY <2>1 DEF CommandsInv, CallsKept, CallKept
  <2> QED
    BY <2>2 DEF Carries, RunsIts
<1> QED
  BY <1>1 DEF BuffersAreTheirOwn

\* All of the calls but perhaps the innermost are at a script.
LEMMA ScriptsCounted ==
  ASSUME CommandsInv
  PROVE  running = Cardinality({i \in DOMAIN stack : stack[i].phase = "script"})
<1> DEFINE L == Len(stack)
           S == {i \in DOMAIN stack : stack[i].phase = "script"}
           n == Scripts(stack)
<1>1. /\ stack \in Seq(CallType) /\ L \in Nat /\ DOMAIN stack = 1..L /\ (stack = <<>> <=> L = 0)
      /\ running = n
  BY EmptySeq, LenProperties DEF CommandsInv, CallsKept
<1>2. \A i \in 1..L : i < L => stack[i].phase = "script"
  BY DEF CommandsInv, CallsKept, CallKept
<1>3. n \in Nat /\ S = 1..n
  <2>1. CASE L = 0
    BY <2>1, <1>1 DEF Scripts
  <2>2. CASE L # 0 /\ stack[L].phase = "script"
    <3>1. n = L
      BY <2>2, <1>1 DEF Scripts
    <3>2. \A i \in 1..L : stack[i].phase = "script"
      BY <2>2, <1>1, <1>2
    <3> QED
      BY <3>1, <3>2, <1>1
  <2>3. CASE L # 0 /\ stack[L].phase # "script"
    <3>1. n = L - 1
      BY <2>3, <1>1 DEF Scripts
    <3> QED
      BY <3>1, <2>3, <1>1, <1>2
  <2> QED
    BY <2>1, <2>2, <2>3
<1> HIDE DEF n, S
<1>4. Cardinality(1..n) = n
  <2>1. Cardinality(1..n) = IF 1 > n THEN 0 ELSE n - 1 + 1
    BY <1>3, FS_Interval
  <2> QED
    BY <2>1, <1>3
<1> QED
  BY <1>1, <1>3, <1>4 DEF S

\* The invariant says what a line that captures holds, and what is counted.
LEMMA OutputKept ==
  ASSUME CommandsInv
  PROVE  OutputGoesToItsReader
<1>1. /\ depth = Len(stack) /\ (stack = <<>> => out = Screen /\ input = Nothing)
  BY DEF CommandsInv, CallsKept
<1>2. ASSUME NEW i \in DOMAIN stack, captures(stack[i]), stack[i].phase # "stage"
      PROVE  /\ pipes[stack[i].held] = cut_to(VFS_FILE_MAX, stack[i].said)
             /\ stack[i].over = (Len(stack[i].said) > VFS_FILE_MAX)
  <2>1. i \in 1..Len(stack)
    BY <1>2, LenProperties DEF CommandsInv, CallsKept
  <2>2. HoldsSaid(stack[i], i, pipes)
    BY <2>1 DEF CommandsInv, CallsKept, CallKept
  <2> QED
    BY <2>2, <1>2 DEF HoldsSaid
<1> QED
  BY <1>1, <1>2, ScriptsCounted DEF OutputGoesToItsReader

\* However lines run files of lines that run others, in pipelines or out of them, a
\* line finds what it carries to its next stage and the file it runs as they were: the
\* pipes and the script copies of the levels of cmd.c and cmdrun.c do not get into each
\* other's way, for any depth, any files and any lines.
THEOREM LinesKeepTheirBuffers == CommandsSpec => []BuffersAreTheirOwn
BY CallsAreKept, BuffersKept, PTL

\* What a command prints is in the buffer of the innermost line that captures it, all
\* of it that fits and in order, and a line that lost some knows; depth and running
\* count what is open, and nothing is left of a line once it ends (cmd.c, cmdout.c,
\* cmdrun.c), for any depth, any files and any room.
THEOREM OutputReachesItsReader == CommandsSpec => []OutputGoesToItsReader
BY CallsAreKept, OutputKept, PTL

----------------------------------------------------------------------------
(* The terminal (Terminal) *)

TerminalSpec == TerminalInit /\ [][ScreenNext \/ HistoryNext \/ NamesNext]_terminal_vars

Row == [Columns -> Glyphs \cup {Blank}]
GridRows == 0..(TERM_MAX_ROWS - 1)
RingPlaces == 0..(TERM_BACK - 1)
Line == {line \in Seq(Glyphs) : Len(line) < TERM_INPUT_MAX}

TermType ==
  [cells : [GridRows -> Row], row : Nat, column : Nat,
   cols : 1..TERM_MAX_COLS, rows : 1..TERM_MAX_ROWS,
   input : Line, history : Seq(Line), history_at : Nat,
   back : [RingPlaces -> Row], back_count : 0..TERM_BACK, back_next : RingPlaces, back_view : Nat]

\* The ring of t holds `rows', the last of them one place before the next.
Ring(t, rows) ==
  /\ rows \in Seq(Row) /\ Len(rows) = t.back_count
  /\ \A up \in 1..t.back_count : t.back[ring_place(t, up)] = rows[Len(rows) - up + 1]

\* What output leaves alone, and what everything but a scroll leaves alone.
SameLine(u, t) ==
  /\ u.input = t.input /\ u.history = t.history /\ u.history_at = t.history_at
  /\ u.cols = t.cols /\ u.rows = t.rows
SameRing(u, t) == u.back = t.back /\ u.back_count = t.back_count /\ u.back_next = t.back_next

\* The sizes of terminal.h and termback.h, as the assumption on the constants gives
\* them.
LEMMA TermSizes ==
  /\ TERM_MAX_COLS \in Nat \ {0} /\ TERM_MAX_ROWS \in Nat \ {0} /\ TERM_BACK \in Nat \ {0}
  /\ TERM_HISTORY \in Nat \ {0} /\ TERM_INPUT_MAX \in Nat \ {0, 1} /\ TERM_MAX_ROWS <= TERM_BACK
BY TerminalAssumption

\* The place of the ring that is `up' lines back, without the remainder.
LEMMA RingPlaceIs ==
  ASSUME NEW t \in TermType, NEW up \in 1..TERM_BACK
  PROVE  /\ ring_place(t, up) = IF up <= t.back_next THEN t.back_next - up ELSE t.back_next + TERM_BACK - up
         /\ ring_place(t, up) \in RingPlaces
<1> DEFINE B == TERM_BACK
           n == t.back_next
           a == n + B - up
<1>1. B \in Nat \ {0} /\ n \in 0..(B - 1) /\ up \in 1..B
  BY TermSizes DEF TermType, RingPlaces
<1>2. ring_place(t, up) = a % B
  BY DEF ring_place
<1> HIDE DEF B, n
<1>3. a \in Nat /\ a < 2 * B
  BY <1>1
<1> HIDE DEF a
<1>4. a % B = IF a < B THEN a ELSE a - B
  BY <1>1, <1>3, OnceRound DEF Once
<1>5. ring_place(t, up) = IF up <= n THEN n - up ELSE n + B - up
  BY <1>1, <1>2, <1>3, <1>4 DEF a
<1> QED
  BY <1>1, <1>5 DEF B, n, RingPlaces

\* The place after one of the ring.
LEMMA RingPlaceAfter ==
  ASSUME NEW n \in RingPlaces
  PROVE  /\ (n + 1) % TERM_BACK = IF n = TERM_BACK - 1 THEN 0 ELSE n + 1
         /\ (n + 1) % TERM_BACK \in RingPlaces
<1> DEFINE B == TERM_BACK
           a == n + 1
<1>1. B \in Nat \ {0} /\ n \in 0..(B - 1)
  BY TermSizes DEF RingPlaces
<1> HIDE DEF B
<1>2. a \in Nat /\ a < 2 * B
  BY <1>1
<1> HIDE DEF a
<1>3. a % B = IF a < B THEN a ELSE a - B
  BY <1>1, <1>2, OnceRound DEF Once
<1>4. a % B = IF n = B - 1 THEN 0 ELSE n + 1
  BY <1>1, <1>3 DEF a
<1>5. a % B \in 0..(B - 1)
  BY <1>1, <1>4
<1> QED
  BY <1>4, <1>5 DEF a, B, RingPlaces

\* The lines kept of a list are its last ones.
LEMMA LastOnes ==
  ASSUME NEW S, NEW list \in Seq(S), NEW n \in Nat
  PROVE  /\ last(n, list) \in Seq(S) /\ Len(last(n, list)) = IF Len(list) <= n THEN Len(list) ELSE n
         /\ \A i \in 1..Len(last(n, list)) : last(n, list)[i] = list[Len(list) - Len(last(n, list)) + i]
<1>1. Len(list) \in Nat
  BY LenProperties
<1>2. CASE Len(list) <= n
  <2>1. last(n, list) = list
    BY <1>2 DEF last
  <2> QED
    BY <1>1, <1>2, <2>1
<1>3. CASE ~(Len(list) <= n)
  <2> DEFINE m == Len(list) - n + 1
             L == Len(list)
             cut == SubSeq(list, m, L)
  <2>1. last(n, list) = cut
    BY <1>3 DEF last
  <2>2. m \in Int /\ L \in Int /\ \A i \in m..L : list[i] \in S
    <3>1. \A i \in m..L : i \in 1..L
      BY <1>1, <1>3
    <3> QED
      BY <3>1, <1>1, ElementOfSeq
  <2>3. /\ cut \in Seq(S) /\ Len(cut) = IF m <= L THEN L - m + 1 ELSE 0
        /\ \A i \in 1..(L - m + 1) : cut[i] = list[m + i - 1]
    BY <2>2, SubSeqProperties
  <2> HIDE DEF cut
  <2>4. Len(cut) = n /\ L - m + 1 = n /\ \A i \in 1..n : m + i - 1 = L - n + i
    BY <1>1, <1>3, <2>3
  <2> QED
    BY <1>3, <2>1, <2>3, <2>4
<1> QED
  BY <1>2, <1>3

\* What leaves the ring, its count, its next place and the view alone leaves it holding
\* the same rows.
LEMMA RingStays ==
  ASSUME NEW t, NEW u, NEW rows, Ring(t, rows), SameRing(u, t)
  PROVE  Ring(u, rows)
BY DEF Ring, SameRing, ring_place

\* A newline, or the end of a line, moves where output goes and no more.
LEMMA WrappedIs ==
  ASSUME NEW t \in TermType
  PROVE  /\ term_newline(t) \in TermType /\ SameLine(term_newline(t), t) /\ SameRing(term_newline(t), t)
         /\ term_newline(t).cells = t.cells /\ term_newline(t).back_view = t.back_view
         /\ wrapped(t) \in TermType /\ SameLine(wrapped(t), t) /\ SameRing(wrapped(t), t)
         /\ wrapped(t).cells = t.cells /\ wrapped(t).back_view = t.back_view
<1> DEFINE u == term_newline(t)
           down == t.row + 1
<1>0. down \in Nat /\ u = [t EXCEPT !.column = 0, !.row = down]
  BY DEF term_newline, TermType
<1> HIDE DEF down
<1>1. u \in TermType
  <2>1. [t EXCEPT !.column = 0, !.row = down] \in TermType
    BY <1>0 DEF TermType
  <2> QED
    BY <1>0, <2>1
<1>2. SameLine(u, t)
  BY DEF term_newline, TermType, SameLine
<1>3. SameRing(u, t) /\ u.cells = t.cells /\ u.back_view = t.back_view
  BY DEF term_newline, TermType, SameRing
<1> HIDE DEF u
<1>4. wrapped(t) = u \/ wrapped(t) = t
  BY DEF wrapped, u
<1>5. SameLine(t, t) /\ SameRing(t, t)
  BY DEF SameLine, SameRing
<1> QED
  BY <1>1, <1>2, <1>3, <1>4, <1>5 DEF u

\* The row at the top of the grid is a row, blank past the width of the window.
LEMMA TopRowIs ==
  ASSUME NEW t \in TermType
  PROVE  top_row(t) \in Row
<1>1. 0 \in GridRows
  BY TermSizes DEF GridRows
<1>2. t.cells[0] \in Row
  BY <1>1 DEF TermType
<1> QED
  BY <1>2 DEF top_row, Row

\* The fields termback_keep changes.
LEMMA KeepIs ==
  ASSUME NEW t \in TermType
  PROVE  /\ termback_keep(t) \in TermType /\ SameLine(termback_keep(t), t)
         /\ termback_keep(t).cells = t.cells /\ termback_keep(t).row = t.row /\ termback_keep(t).column = t.column
         /\ termback_keep(t).back_count = IF t.back_count < TERM_BACK THEN t.back_count + 1 ELSE t.back_count
         /\ termback_keep(t).back = [t.back EXCEPT ![t.back_next] = top_row(t)]
         /\ termback_keep(t).back_next = (t.back_next + 1) % TERM_BACK
         /\ termback_keep(t).back_view = view_after(t, termback_keep(t).back_count)
<1> DEFINE count == IF t.back_count < TERM_BACK THEN t.back_count + 1 ELSE t.back_count
           back == [t.back EXCEPT ![t.back_next] = top_row(t)]
           next == (t.back_next + 1) % TERM_BACK
           view == view_after(t, count)
           u == [t EXCEPT !.back = back, !.back_next = next, !.back_count = count, !.back_view = view]
<1>1. termback_keep(t) = u
  BY DEF termback_keep, TermType
<1>2. count \in 0..TERM_BACK
  BY TermSizes DEF TermType
<1>3. back \in [RingPlaces -> Row] /\ next \in RingPlaces
  BY TopRowIs, RingPlaceAfter DEF TermType
<1>4. view \in Nat
  BY DEF view_after, TermType
<1> HIDE DEF count, back, next, view
<1>5. u \in TermType
  BY <1>2, <1>3, <1>4 DEF TermType
<1>6. SameLine(u, t)
  BY DEF TermType, SameLine
<1>7. u.cells = t.cells /\ u.row = t.row /\ u.column = t.column
  BY DEF TermType
<1>8. u.back_count = count /\ u.back = back /\ u.back_next = next /\ u.back_view = view
  BY DEF TermType
<1> QED
  BY <1>1, <1>5, <1>6, <1>7, <1>8 DEF count, back, next, view

\* A row kept goes where the newest is, and every other moves one line back.
LEMMA KeepPlaces ==
  ASSUME NEW t \in TermType, NEW u, u = termback_keep(t)
  PROVE  /\ u.back[ring_place(u, 1)] = top_row(t)
         /\ \A up \in 1..(TERM_BACK - 1) :
              u.back[ring_place(u, up + 1)] = t.back[ring_place(t, up)]
<1> DEFINE B == TERM_BACK
           row == top_row(t)
<1>1. /\ u \in TermType /\ u.back = [t.back EXCEPT ![t.back_next] = row]
      /\ u.back_next = IF t.back_next = B - 1 THEN 0 ELSE t.back_next + 1
  BY KeepIs, RingPlaceAfter DEF TermType
<1>2. B \in Nat \ {0} /\ t.back_next \in 0..(B - 1) /\ t.back \in [RingPlaces -> Row] /\ row \in Row
  BY TermSizes, TopRowIs DEF TermType, RingPlaces
<1> HIDE DEF row
<1>3. u.back[ring_place(u, 1)] = row
  <2>1. ring_place(u, 1) = IF 1 <= u.back_next THEN u.back_next - 1 ELSE u.back_next + B - 1
    <3>1. 1 \in 1..TERM_BACK
      BY <1>2
    <3> QED
      BY <1>1, <3>1, RingPlaceIs
  <2>2. ring_place(u, 1) = t.back_next
    BY <1>1, <1>2, <2>1
  <2> QED
    BY <1>1, <1>2, <2>2 DEF RingPlaces
<1>4. ASSUME NEW up \in 1..(B - 1) PROVE u.back[ring_place(u, up + 1)] = t.back[ring_place(t, up)]
  <2>1. up + 1 \in 1..TERM_BACK /\ up \in 1..TERM_BACK
    BY <1>2
  <2> DEFINE more == up + 1
  <2>2. ring_place(u, more) = IF more <= u.back_next THEN u.back_next - more ELSE u.back_next + B - more
    BY <1>1, <2>1, RingPlaceIs
  <2>3. /\ ring_place(t, up) = IF up <= t.back_next THEN t.back_next - up ELSE t.back_next + B - up
        /\ ring_place(t, up) \in RingPlaces
    BY <2>1, RingPlaceIs
  <2>4. ring_place(u, more) = ring_place(t, up) /\ ring_place(t, up) # t.back_next
    BY <1>1, <1>2, <2>2, <2>3
  <2> QED
    BY <1>1, <1>2, <2>3, <2>4
<1> QED
  BY <1>3, <1>4 DEF row

\* The ring that keeps a row holds it after the others, the oldest gone if it was full.
LEMMA KeepRing ==
  ASSUME NEW t \in TermType, NEW rows, Ring(t, rows)
  PROVE  Ring(termback_keep(t), last(TERM_BACK, Append(rows, top_row(t))))
<1> DEFINE u == termback_keep(t)
           B == TERM_BACK
           row == top_row(t)
           more == Append(rows, row)
           new == last(B, more)
           L == Len(rows)
<1>1. B \in Nat \ {0} /\ t.back_count \in 0..B /\ t.back_next \in 0..(B - 1) /\ t.back \in [RingPlaces -> Row]
  BY TermSizes DEF TermType, RingPlaces
<1>2. rows \in Seq(Row) /\ L = t.back_count /\ row \in Row
  BY TopRowIs DEF Ring
<1>3. /\ more \in Seq(Row) /\ Len(more) = L + 1 /\ more[L + 1] = row
      /\ \A i \in 1..L : more[i] = rows[i]
  BY <1>2, AppendProperties
<1> HIDE DEF more, row, L
<1>4. /\ new \in Seq(Row) /\ Len(new) = IF Len(more) <= B THEN Len(more) ELSE B
      /\ \A i \in 1..Len(new) : new[i] = more[Len(more) - Len(new) + i]
  BY <1>1, <1>3, LastOnes
<1>5. /\ u \in TermType /\ u.back = [t.back EXCEPT ![t.back_next] = row]
      /\ u.back_next = IF t.back_next = B - 1 THEN 0 ELSE t.back_next + 1
      /\ u.back_count = IF t.back_count < B THEN t.back_count + 1 ELSE t.back_count
  BY KeepIs, RingPlaceAfter DEF TermType, row
<1> HIDE DEF new, u
<1>6. Len(new) = u.back_count
  BY <1>1, <1>2, <1>3, <1>4, <1>5
<1>7. ASSUME NEW up \in 1..u.back_count PROVE u.back[ring_place(u, up)] = new[Len(new) - up + 1]
  <2>1. up \in 1..B /\ up \in Nat
    BY <1>1, <1>5
  <2>2. /\ u.back[ring_place(u, 1)] = row
        /\ \A back \in 1..(B - 1) : u.back[ring_place(u, back + 1)] = t.back[ring_place(t, back)]
    BY KeepPlaces DEF u, row
  <2>3. new[Len(new) - up + 1] = more[L + 2 - up]
    <3> DEFINE n == Len(new)
               m == Len(more)
    <3>0. n \in Nat /\ up \in 1..n /\ m = L + 1 /\ L \in Nat
      <4>1. n = u.back_count
        BY <1>6
      <4>2. L \in Nat
        BY <1>1, <1>2
      <4>3. m = L + 1
        BY <1>3
      <4>4. u.back_count \in Nat
        BY <1>5 DEF TermType
      <4> QED
        BY <4>1, <4>2, <4>3, <4>4
    <3> HIDE DEF n, m
    <3>1. n - up + 1 \in 1..n /\ m - n + (n - up + 1) = L + 2 - up
      BY <3>0
    <3> USE DEF n, m
    <3> QED
      BY <3>1, <1>4
  <2>4. CASE up = 1
    <3>1. L + 2 - up = L + 1
      BY <1>1, <1>2, <2>4
    <3> QED
      BY <2>2, <2>3, <2>4, <3>1, <1>3
  <2>5. CASE up # 1
    <3>1. up - 1 \in 1..(B - 1) /\ up - 1 \in 1..t.back_count /\ (up - 1) + 1 = up
      BY <2>1, <2>5, <1>1, <1>5
    <3>2. u.back[ring_place(u, up)] = t.back[ring_place(t, up - 1)]
      BY <3>1, <2>2
    <3>3. t.back[ring_place(t, up - 1)] = rows[L - (up - 1) + 1]
      BY <3>1 DEF Ring, L
    <3>4. L - (up - 1) + 1 = L + 2 - up /\ L + 2 - up \in 1..L
      BY <1>1, <1>2, <2>1, <3>1
    <3> QED
      BY <3>2, <3>3, <3>4, <2>3, <1>3
  <2> QED
    BY <2>4, <2>5
<1>8. Ring(u, new)
  BY <1>4, <1>6, <1>7 DEF Ring
<1> QED
  BY <1>8 DEF u, new, more, row

\* Leaving the line being edited and the history alone passes from step to step.
LEMMA LineSame ==
  ASSUME NEW t, NEW u, NEW v, SameLine(v, u), SameLine(u, t)
  PROVE  SameLine(v, t)
BY DEF SameLine

\* term.c scroll keeps the types, leaves the line alone, and the ring is as
\* termback_keep leaves it.
LEMMA ScrollIs ==
  ASSUME NEW t \in TermType
  PROVE  scroll(t) \in TermType /\ SameLine(scroll(t), t) /\ SameRing(scroll(t), termback_keep(t))
<1> DEFINE k == termback_keep(t)
           moved(y) == [x \in Columns |-> IF x < t.cols THEN k.cells[y + 1][x] ELSE k.cells[y][x]]
           cells == [y \in DOMAIN k.cells |->
                       CASE y + 1 < t.rows -> moved(y) [] y + 1 = t.rows -> BlankRow [] OTHER -> k.cells[y]]
           u == [k EXCEPT !.cells = cells]
<1>1. k \in TermType /\ SameLine(k, t)
  BY KeepIs
<1>2. scroll(t) = u
  BY <1>1 DEF scroll, TermType
<1>3. k.cells \in [GridRows -> Row] /\ t.rows \in 1..TERM_MAX_ROWS
  BY <1>1 DEF TermType
<1> HIDE DEF k
<1>4. ASSUME NEW y \in GridRows, y + 1 < t.rows PROVE moved(y) \in Row
  <2>1. y + 1 \in GridRows
    BY <1>3, <1>4, TermSizes DEF GridRows
  <2>2. k.cells[y + 1] \in Row /\ k.cells[y] \in Row
    BY <1>3, <2>1
  <2> QED
    BY <2>2 DEF Row
<1>5. BlankRow \in Row
  BY DEF BlankRow, Row
<1> HIDE DEF moved
<1>6. cells \in [GridRows -> Row]
  <2>1. DOMAIN k.cells = GridRows
    BY <1>3
  <2>2. ASSUME NEW y \in GridRows
        PROVE  (CASE y + 1 < t.rows -> moved(y) [] y + 1 = t.rows -> BlankRow [] OTHER -> k.cells[y]) \in Row
    BY <1>3, <1>4, <1>5
  <2> QED
    BY <2>1, <2>2
<1> HIDE DEF cells
<1>7. u \in TermType /\ SameRing(u, k)
  BY <1>1, <1>6 DEF TermType, SameRing
<1>8. SameLine(u, k)
  BY <1>1 DEF TermType, SameLine
<1> HIDE DEF u
<1> QED
  BY <1>1, <1>2, <1>7, <1>8, LineSame DEF k

\* Room for a character: a full grid scrolls and the ring keeps its top row.
LEMMA MakeRoomIs ==
  ASSUME NEW t \in TermType, NEW rows, Ring(t, rows)
  PROVE  /\ make_room(t) \in TermType /\ SameLine(make_room(t), t)
         /\ Ring(make_room(t), IF full(t) THEN last(TERM_BACK, Append(rows, top_row(t))) ELSE rows)
<1>1. CASE full(t)
  <2> DEFINE s == scroll(t)
             spot == t.rows - 1
             u == [s EXCEPT !.row = spot]
             new == last(TERM_BACK, Append(rows, top_row(t)))
  <2>1. s \in TermType /\ SameLine(s, t) /\ SameRing(s, termback_keep(t))
    BY ScrollIs
  <2>2. Ring(termback_keep(t), new)
    BY KeepRing
  <2> HIDE DEF new
  <2>3. Ring(s, new)
    BY <2>1, <2>2, RingStays
  <2>4. spot \in Nat
    BY TermSizes DEF TermType
  <2>5. make_room(t) = u
    BY <1>1 DEF make_room
  <2> HIDE DEF s, spot
  <2>6. u \in TermType /\ SameRing(u, s)
    BY <2>1, <2>4 DEF TermType, SameRing
  <2>7. SameLine(u, s)
    BY <2>1 DEF TermType, SameLine
  <2> HIDE DEF u
  <2>8. SameLine(u, t) /\ Ring(u, new)
    BY <2>1, <2>3, <2>6, <2>7, LineSame, RingStays
  <2> QED
    BY <1>1, <2>5, <2>6, <2>8 DEF new
<1>2. CASE ~full(t)
  <2>1. make_room(t) = t /\ SameLine(t, t)
    BY <1>2 DEF make_room, SameLine
  <2> QED
    BY <1>2, <2>1
<1> QED
  BY <1>1, <1>2

\* One character: the ring holds the rows that have left the grid with it.
LEMMA PutIs ==
  ASSUME NEW t \in TermType, NEW rows, Ring(t, rows), NEW ch \in Glyphs \cup {Blank, Newline}
  PROVE  /\ put(t, ch) \in TermType /\ SameLine(put(t, ch), t)
         /\ Ring(put(t, ch), left_after(t, rows, ch))
<1>1. CASE ch = Newline
  <2>1. put(t, ch) = term_newline(t) /\ left_after(t, rows, ch) = rows
    BY <1>1 DEF put, left_after
  <2> QED
    BY <2>1, WrappedIs, RingStays
<1>2. CASE ch # Newline
  <2> DEFINE w == wrapped(t)
             spot == make_room(w)
             cells == [spot.cells EXCEPT ![spot.row] = [spot.cells[spot.row] EXCEPT ![spot.column] = ch]]
             column == spot.column + 1
             u == [spot EXCEPT !.cells = cells, !.column = column]
             new == left_after(t, rows, ch)
  <2>1. w \in TermType /\ SameLine(w, t) /\ SameRing(w, t) /\ w.cells = t.cells
    BY WrappedIs
  <2>2. new = IF full(w) THEN last(TERM_BACK, Append(rows, top_row(w))) ELSE rows
    BY <1>2, <2>1 DEF left_after, top_row, SameLine
  <2> HIDE DEF w, new
  <2>3. Ring(w, rows)
    BY <2>1, RingStays
  <2>4. spot \in TermType /\ SameLine(spot, w) /\ Ring(spot, new)
    BY <2>1, <2>2, <2>3, MakeRoomIs
  <2>5. put(t, ch) = u
    BY <1>2, <2>4 DEF put, printed, TermType, w
  <2> HIDE DEF spot
  <2>6. cells \in [GridRows -> Row]
    <3>1. spot.cells \in [GridRows -> Row] /\ ch \in Glyphs \cup {Blank}
      BY <1>2, <2>4 DEF TermType
    <3> DEFINE line == [spot.cells[spot.row] EXCEPT ![spot.column] = ch]
    <3>2. ASSUME spot.row \in GridRows PROVE line \in Row
      <4>1. spot.cells[spot.row] \in Row
        BY <3>1, <3>2
      <4> QED
        BY <3>1, <4>1 DEF Row
    <3> HIDE DEF line
    <3>3. [spot.cells EXCEPT ![spot.row] = line] \in [GridRows -> Row]
      BY <3>1, <3>2
    <3> QED
      BY <3>3 DEF line
  <2>7. column \in Nat
    BY <2>4 DEF TermType
  <2> HIDE DEF cells, column
  <2>8. u \in TermType /\ SameRing(u, spot)
    BY <2>4, <2>6, <2>7 DEF TermType, SameRing
  <2>9. SameLine(u, spot)
    BY <2>4 DEF TermType, SameLine
  <2> HIDE DEF u
  <2>10. SameLine(u, t) /\ Ring(u, new)
    BY <2>1, <2>4, <2>8, <2>9, LineSame, RingStays
  <2> QED
    BY <2>5, <2>8, <2>10 DEF new
<1> QED
  BY <1>1, <1>2

\* A set of numbers none above n has a greatest one.
LEMMA GreatestNat ==
  ASSUME NEW n \in Nat, NEW S \in SUBSET (0..n), S # {}
  PROVE  \E i \in S : \A j \in S : j <= i
<1> DEFINE D == {k \in Nat : n - k \in S}
<1>1. PICK i \in S : TRUE
  OBVIOUS
<1>2. i \in 0..n /\ n - i \in Nat /\ n - (n - i) = i
  BY <1>1
<1>3. D \in SUBSET Nat /\ D # {}
  BY <1>1, <1>2
<1>4. PICK k \in D : \A m \in D : k <= m
  BY <1>3, LeastNat
<1>5. ASSUME NEW j \in S PROVE j <= n - k
  <2>1. j \in 0..n /\ n - j \in Nat /\ n - (n - j) = j
    OBVIOUS
  <2>2. n - j \in D
    BY <2>1
  <2>3. k \in Nat /\ k <= n - j
    BY <1>4, <2>2
  <2> QED
    BY <2>1, <2>3
<1>6. n - k \in S
  BY <1>4
<1> QED
  BY <1>5, <1>6

\* The last place of a character in a line, 0 if it has none.
LEMMA LastOf ==
  ASSUME NEW S, NEW line \in Seq(S), NEW ch
  PROVE  /\ last_of(ch, line) \in 0..Len(line)
         /\ last_of(ch, line) # 0 => line[last_of(ch, line)] = ch
         /\ \A j \in 1..Len(line) : line[j] = ch => j <= last_of(ch, line)
<1> DEFINE spot == {i \in DOMAIN line : line[i] = ch}
           n == Len(line)
           Greatest(i) == i \in spot /\ \A j \in spot : j <= i
           k == CHOOSE i \in spot : \A j \in spot : j <= i
<1>1. n \in Nat /\ DOMAIN line = 1..n
  BY LenProperties
<1>2. last_of(ch, line) = IF spot = {} THEN 0 ELSE k
  BY DEF last_of
<1>3. CASE spot = {}
  BY <1>1, <1>2, <1>3
<1>4. CASE spot # {}
  <2>1. spot \in SUBSET (0..n)
    BY <1>1
  <2>2. \E i \in spot : \A j \in spot : j <= i
    BY <1>1, <1>4, <2>1, GreatestNat
  <2>3. k \in spot /\ \A j \in spot : j <= k
    BY <2>2
  <2>4. last_of(ch, line) = k
    BY <1>2, <1>4
  <2> QED
    BY <1>1, <2>3, <2>4
<1> QED
  BY <1>3, <1>4

\* What a part of a line is.
IsPart(p, line, from, to, S) ==
  p \in Seq(S) /\ Len(p) = to - from /\ \A i \in 1..(to - from) : p[i] = line[from + i]

\* A piece of a line holds the characters of the line in their order.
LEMMA PieceIs ==
  ASSUME NEW S, NEW line \in Seq(S), NEW to \in 0..Len(line), NEW from \in 0..to
  PROVE  IsPart(SubSeq(line, from + 1, to), line, from, to, S)
<1> DEFINE p == SubSeq(line, from + 1, to)
           m == from + 1
<1>1. Len(line) \in Nat
  BY LenProperties
<1>2. m \in Int /\ to \in Int /\ from \in Int
  BY <1>1
<1>3. \A i \in m..to : line[i] \in S
  <2> TAKE i \in m..to
  <2>1. i \in 1..Len(line)
    BY <1>1
  <2> QED
    BY <2>1, ElementOfSeq
<1>4. /\ p \in Seq(S) /\ Len(p) = IF m <= to THEN to - m + 1 ELSE 0
      /\ \A i \in 1..(to - m + 1) : p[i] = line[m + i - 1]
  BY <1>2, <1>3, SubSeqProperties
<1>5. to - m + 1 = to - from /\ \A i \in 1..(to - from) : m + i - 1 = from + i
  BY <1>2
<1> HIDE DEF p
<1>6. Len(p) = to - from
  BY <1>1, <1>2, <1>4
<1> QED
  BY <1>4, <1>5, <1>6 DEF IsPart

\* A beginning agrees with what it begins.
LEMMA PrefixIs ==
  ASSUME NEW S, NEW p \in Seq(S), NEW q \in Seq(S)
  PROVE  IsPrefix(p, q) <=> Len(p) <= Len(q) /\ \A i \in 1..Len(p) : p[i] = q[i]
<1>1. Len(p) \in Nat /\ Len(q) \in Nat
  BY LenProperties
<1>2. SubSeq(p, 1, Len(p)) = p
  BY SubSeqFull
<1> SUFFICES ASSUME Len(p) <= Len(q)
             PROVE  SubSeq(q, 1, Len(p)) = p <=> \A i \in 1..Len(p) : p[i] = q[i]
  BY <1>2 DEF IsPrefix
<1> DEFINE c == SubSeq(q, 1, Len(p))
<1>3. IsPart(c, q, 0, Len(p), S)
  <2>1. Len(p) \in 0..Len(q) /\ 0 \in 0..Len(p) /\ 0 + 1 = 1
    BY <1>1
  <2> QED
    BY <2>1, PieceIs
<1> HIDE DEF c
<1>4. c \in Seq(S) /\ Len(c) = Len(p) /\ \A i \in 1..Len(p) : c[i] = q[i]
  BY <1>1, <1>3 DEF IsPart
<1>5. c = p <=> \A i \in 1..Len(p) : c[i] = p[i]
  BY <1>4, SeqEqual
<1> QED
  BY <1>4, <1>5 DEF c

\* The place of the word being typed, and of its last part, in the line.
LEMMA WordIs ==
  ASSUME NEW line \in Seq(Glyphs)
  PROVE  /\ last_of(Blank, line) \in 0..Len(line)
         /\ IsPart(word(line), line, last_of(Blank, line), Len(line), Glyphs)
         /\ last_of(Slash, word(line)) \in 0..Len(word(line))
         /\ kept(line) \in 0..Len(line)
         /\ IsPart(partial(line), line, kept(line), Len(line), Glyphs)
<1> DEFINE b == last_of(Blank, line)
           n == Len(line)
           w == word(line)
           s == last_of(Slash, w)
           k == kept(line)
<1>1. n \in Nat /\ b \in 0..n
  BY LenProperties, LastOf
<1>2. w = SubSeq(line, b + 1, n)
  BY DEF word
<1>3. k = b + s /\ partial(line) = SubSeq(line, k + 1, n)
  BY DEF kept, partial
<1> HIDE DEF b, w, k
<1>4. IsPart(w, line, b, n, Glyphs)
  <2>1. n \in 0..Len(line) /\ b \in 0..n
    BY <1>1
  <2> QED
    BY <1>2, <2>1, PieceIs
<1>5. w \in Seq(Glyphs) /\ Len(w) = n - b
  BY <1>4 DEF IsPart
<1>6. s \in 0..Len(w)
  BY <1>5, LastOf
<1> HIDE DEF s
<1>7. k \in 0..n
  BY <1>1, <1>3, <1>5, <1>6
<1>8. IsPart(partial(line), line, k, n, Glyphs)
  <2>1. n \in 0..Len(line) /\ k \in 0..n
    BY <1>1, <1>7
  <2> QED
    BY <1>3, <2>1, PieceIs
<1> QED
  BY <1>1, <1>4, <1>6, <1>7, <1>8 DEF b, w, k, s

\* The names that begin as the word does are finitely many words of the glyphs.
LEMMA NamesAre ==
  ASSUME NEW line
  PROVE  /\ begins_with(line) \subseteq Seq(Glyphs) /\ IsFiniteSet(begins_with(line))
         /\ \A name \in begins_with(line) : IsPrefix(partial(line), name)
<1>1. CASE where_to_look(line) \notin DOMAIN Entries
  <2>1. begins_with(line) = {}
    BY <1>1 DEF begins_with
  <2> QED
    BY <2>1, FS_EmptySet
<1>2. CASE where_to_look(line) \in DOMAIN Entries
  <2> DEFINE all == Entries[where_to_look(line)]
             some == {name \in all : IsPrefix(partial(line), name)}
  <2>1. begins_with(line) = some
    BY <1>2 DEF begins_with
  <2>2. IsFiniteSet(all) /\ all \subseteq Seq(Glyphs)
    BY <1>2, TerminalAssumption
  <2>3. IsFiniteSet(some)
    <3> HIDE DEF all
    <3> QED
      BY <2>2, FS_Subset
  <2> QED
    BY <2>1, <2>2, <2>3
<1> QED
  BY <1>1, <1>2

\* What all of some names begin with.
Common(names) == {p \in Seq(Glyphs) : \A name \in names : IsPrefix(p, name)}

\* The prefixes that the names share are those of each of them.
LEMMA CommonIs ==
  ASSUME NEW names \in SUBSET Seq(Glyphs), names # {}
  PROVE  CommonPrefixes(names) = Common(names)
<1> DEFINE P == UNION {Prefixes(seq) : seq \in names}
<1>1. CommonPrefixes(names) = {p \in P : \A name \in names : IsPrefix(p, name)}
  BY DEF CommonPrefixes
<1>2. P \subseteq Seq(Glyphs)
  <2> SUFFICES ASSUME NEW seq \in names, NEW p \in Prefixes(seq) PROVE p \in Seq(Glyphs)
    OBVIOUS
  <2>1. PICK l \in 0..Len(seq) : p = SubSeq(seq, 1, l)
    BY DEF Prefixes
  <2>2. seq \in Seq(Glyphs) /\ 0 \in 0..l /\ 0 + 1 = 1
    BY LenProperties
  <2>3. IsPart(p, seq, 0, l, Glyphs)
    BY <2>1, <2>2, PieceIs
  <2> QED
    BY <2>3 DEF IsPart
<1>3. ASSUME NEW p \in Common(names) PROVE p \in P
  <2>1. PICK name \in names : TRUE
    OBVIOUS
  <2>2. p \in Seq(Glyphs) /\ name \in Seq(Glyphs) /\ IsPrefix(p, name)
    BY <2>1, <1>3 DEF Common
  <2>3. Len(p) \in 0..Len(name)
    BY <2>2, LenProperties DEF IsPrefix
  <2>4. p = SubSeq(name, 1, Len(p))
    BY <2>2, SubSeqFull DEF IsPrefix
  <2>5. p \in Prefixes(name)
    BY <2>3, <2>4 DEF Prefixes
  <2> QED
    BY <2>1, <2>5
<1> HIDE DEF P
<1> QED
  BY <1>1, <1>2, <1>3 DEF Common

\* What some names have in common is the longest of what they begin with.
LEMMA SharedIs ==
  ASSUME NEW names \in SUBSET Seq(Glyphs), names # {}
  PROVE  /\ shared_beginning(names) \in Common(names)
         /\ \A p \in Common(names) : Len(p) <= Len(shared_beginning(names))
<1> DEFINE C == Common(names)
           s == CHOOSE longest \in C : \A other \in C : Len(other) <= Len(longest)
           L == {n \in Nat : \E p \in C : Len(p) = n}
<1>1. shared_beginning(names) = s
  BY CommonIs DEF shared_beginning, LongestCommonPrefix
<1>2. PICK name \in names : TRUE
  OBVIOUS
<1>3. name \in Seq(Glyphs) /\ Len(name) \in Nat
  BY <1>2, LenProperties
<1>4. ASSUME NEW p \in C PROVE Len(p) \in Nat /\ Len(p) <= Len(name)
  <2>1. p \in Seq(Glyphs) /\ IsPrefix(p, name)
    BY <1>2 DEF Common
  <2> QED
    BY <2>1, LenProperties DEF IsPrefix
<1>5. <<>> \in C
  <2> DEFINE none == <<>>
  <2>1. none \in Seq(Glyphs) /\ Len(none) = 0
    BY EmptySeq
  <2> HIDE DEF none
  <2>2. ASSUME NEW q \in names PROVE IsPrefix(none, q)
    <3>1. q \in Seq(Glyphs) /\ Len(q) \in Nat
      BY LenProperties
    <3>2. Len(none) <= Len(q) /\ \A i \in 1..Len(none) : none[i] = q[i]
      BY <2>1, <3>1
    <3> QED
      BY <2>1, <3>1, <3>2, PrefixIs
  <2>3. none \in C
    BY <2>1, <2>2 DEF Common
  <2> QED
    BY <2>3 DEF none
<1> HIDE DEF C
<1>6. L \in SUBSET (0..Len(name)) /\ L # {}
  BY <1>3, <1>4, <1>5
<1>7. PICK n \in L : \A m \in L : m <= n
  <2> HIDE DEF L
  <2> QED
    BY <1>3, <1>6, GreatestNat
<1>8. PICK p \in C : Len(p) = n
  BY <1>7
<1>9. \A other \in C : Len(other) <= Len(p)
  BY <1>4, <1>7, <1>8
<1>10. s \in C /\ \A other \in C : Len(other) <= Len(s)
  BY <1>8, <1>9
<1> QED
  BY <1>1, <1>10 DEF C

\* The line a name is finished in is a line of glyphs, short enough.
LEMMA CompleteIs ==
  ASSUME NEW line \in Seq(Glyphs), begins_with(line) # {}
  PROVE  cmd_complete(line) \in Seq(Glyphs)
<1> DEFINE names == begins_with(line)
           front == SubSeq(line, 1, kept(line))
           shared == shared_beginning(names)
           slash == slash_after(line, names)
           whole == front \o shared \o slash
<1>1. IsPart(front, line, 0, kept(line), Glyphs)
  <2>1. kept(line) \in 0..Len(line) /\ 0 \in 0..kept(line) /\ 0 + 1 = 1
    BY WordIs
  <2> QED
    BY <2>1, PieceIs
<1>2. front \in Seq(Glyphs)
  BY <1>1 DEF IsPart
<1>3. shared \in Seq(Glyphs)
  <2>1. names \in SUBSET Seq(Glyphs) /\ names # {}
    BY NamesAre
  <2>2. shared \in Common(names)
    <3> HIDE DEF names
    <3> QED
      BY <2>1, SharedIs
  <2> QED
    BY <2>2 DEF Common
<1>4. slash \in Seq(Glyphs)
  <2>1. Slash \in Glyphs
    BY TerminalAssumption
  <2>2. <<Slash>> \in Seq(Glyphs)
    BY <2>1
  <2>3. slash = <<>> \/ slash = <<Slash>>
    BY DEF slash_after
  <2> QED
    BY <2>2, <2>3, EmptySeq
<1>5. cmd_complete(line) = cut_to_fit(whole)
  BY DEF cmd_complete
<1> HIDE DEF front, shared, slash
<1>6. whole \in Seq(Glyphs)
  BY <1>2, <1>3, <1>4, ConcatProperties
<1> HIDE DEF whole
<1> DEFINE n == IF Len(whole) < TERM_INPUT_MAX THEN Len(whole) ELSE TERM_INPUT_MAX - 1
<1>7. n \in 0..Len(whole) /\ 0 \in 0..n /\ 0 + 1 = 1
  BY <1>6, TermSizes, LenProperties
<1>8. cut_to_fit(whole) = SubSeq(whole, 1, n)
  BY DEF cut_to_fit
<1> HIDE DEF n
<1>9. IsPart(SubSeq(whole, 1, n), whole, 0, n, Glyphs)
  BY <1>6, <1>7, PieceIs
<1> QED
  BY <1>5, <1>8, <1>9 DEF IsPart

\* The list of the names is text the terminal can print.
Printable == Glyphs \cup {Blank, Newline}

\* A finite set written as a sequence is a sequence of its members.
LEMMA SetListed ==
  ASSUME NEW T, NEW S \in SUBSET T, IsFiniteSet(S)
  PROVE  SetToSeq(S) \in Seq(T)
<1>1. Cardinality(S) \in Nat /\ ExistsBijection(1..Cardinality(S), S)
  BY FS_CardinalityType
<1> DEFINE n == Cardinality(S)
<1>2. PICK f \in [1..n -> S] : IsInjective(f)
  BY <1>1 DEF ExistsBijection, Bijection, Injection, IsInjective
<1>3. SetToSeq(S) \in [1..n -> S]
  BY <1>2 DEF SetToSeq
<1> QED
  BY <1>1, <1>3

\* What cmdtab_show lists can be printed.
LEMMA ListingIs ==
  ASSUME NEW line \in Seq(Glyphs)
  PROVE  listing(line) \in Seq(Printable)
<1> DEFINE slash(name) == IF is_directory(line, name) THEN <<Slash>> ELSE <<>>
           shown(name) == name \o slash(name) \o <<Newline>>
           names == begins_with(line)
           all == {shown(name) : name \in names}
           texts == SetToSeq(all)
           T == Seq(Printable)
<1>1. names \subseteq Seq(Glyphs) /\ IsFiniteSet(names)
  BY NamesAre
<1>2. Glyphs \subseteq Printable /\ Newline \in Printable /\ Slash \in Printable
  BY TerminalAssumption DEF Printable
<1>3. <<Newline>> \in T /\ <<Slash>> \in T /\ <<>> \in T
  BY <1>2, EmptySeq
<1>4. \A s \in Seq(Glyphs) : s \in T
  BY <1>2, SeqMonotonic
<1>5. \A s, u \in T : s \o u \in T
  BY ConcatProperties
<1> HIDE DEF T
<1>6. listing(line) = Prompt \o line \o <<Newline>> \o FlattenSeq(texts)
  BY DEF listing
<1>7. \A name \in names : shown(name) \in T
  <2> TAKE name \in names
  <2>1. name \in T /\ slash(name) \in T
    BY <1>1, <1>3, <1>4
  <2> QED
    BY <2>1, <1>3, <1>5
<1> HIDE DEF names, shown
<1>8. all \in SUBSET T /\ IsFiniteSet(all)
  <2> DEFINE f == [name \in names |-> shown(name)]
  <2>1. f \in Surjection(names, all)
    BY DEF Surjection
  <2>2. all \in SUBSET T
    BY <1>7
  <2> HIDE DEF f
  <2> HIDE DEF all
  <2> QED
    BY <1>1, <2>1, <2>2, FS_Surjection
<1> HIDE DEF all
<1>9. texts \in Seq(T)
  BY <1>8, SetListed
<1> HIDE DEF texts
<1>10. FlattenSeq(texts) \in T
  BY <1>9, FlattenIs DEF T
<1>11. Prompt \in T /\ line \in T
  BY <1>4, TerminalAssumption
<1>12. Prompt \o line \o <<Newline>> \o FlattenSeq(texts) \in T
  <2> DEFINE f == FlattenSeq(texts)
             a == Prompt \o line
             b == a \o <<Newline>>
  <2>1. a \in T
    BY <1>5, <1>11
  <2>2. b \in T
    <3> HIDE DEF a
    <3> QED
      BY <2>1, <1>3, <1>5
  <2> HIDE DEF b, f
  <2>3. b \o f \in T
    BY <2>2, <1>10, <1>5 DEF f
  <2> QED
    BY <2>3 DEF b, f
<1> QED
  BY <1>6, <1>12 DEF T

\* The view is on a line there is.
ViewOK(t) == t.back_view <= t.back_count

\* What scroll does to the view, to the count of the ring and to each row of the grid.
LEMMA ScrollFields ==
  ASSUME NEW t \in TermType
  PROVE  /\ scroll(t).back_view = view_after(t, scroll(t).back_count)
         /\ scroll(t).back_count = IF t.back_count < TERM_BACK THEN t.back_count + 1 ELSE t.back_count
         /\ \A y \in GridRows :
              scroll(t).cells[y] =
                CASE y + 1 < t.rows ->
                       [x \in Columns |-> IF x < t.cols THEN t.cells[y + 1][x] ELSE t.cells[y][x]]
                  [] y + 1 = t.rows -> BlankRow
                  [] OTHER -> t.cells[y]
<1> DEFINE k == termback_keep(t)
           new(c, y) == CASE y + 1 < t.rows -> [x \in Columns |-> IF x < t.cols THEN c[y + 1][x] ELSE c[y][x]]
                          [] y + 1 = t.rows -> BlankRow
                          [] OTHER -> c[y]
           cells(c) == [y \in DOMAIN c |-> new(c, y)]
<1>1. k \in TermType /\ k.cells = t.cells /\ DOMAIN t.cells = GridRows
  BY KeepIs DEF TermType
<1>2. /\ k.back_count = IF t.back_count < TERM_BACK THEN t.back_count + 1 ELSE t.back_count
      /\ k.back_view = view_after(t, k.back_count)
  BY KeepIs
<1>3. scroll(t) = [k EXCEPT !.cells = cells(@)]
  BY DEF scroll
<1> HIDE DEF k, new
<1>4. scroll(t).cells = cells(t.cells)
  BY <1>1, <1>3 DEF TermType
<1>5. scroll(t).back_view = k.back_view /\ scroll(t).back_count = k.back_count
  BY <1>1, <1>3 DEF TermType
<1>6. \A y \in GridRows : scroll(t).cells[y] = new(t.cells, y)
  BY <1>1, <1>4
<1> QED
  BY <1>2, <1>5, <1>6 DEF new

\* Where a character goes, and what it leaves alone.
LEMMA PutFields ==
  ASSUME NEW t \in TermType, NEW ch \in Glyphs \cup {Blank, Newline}, ch # Newline,
         NEW spot, spot = make_room(wrapped(t))
  PROVE  /\ spot \in TermType
         /\ put(t, ch).back_view = spot.back_view /\ SameRing(put(t, ch), spot)
         /\ \A y \in GridRows : y # spot.row => put(t, ch).cells[y] = spot.cells[y]
<1> DEFINE rows == [i \in 1..t.back_count |-> t.back[ring_place(t, t.back_count - i + 1)]]
<1>1. Ring(t, rows)
  <2>1. t.back_count \in 0..TERM_BACK /\ t.back \in [RingPlaces -> Row] /\ t.back_count \in Nat
    BY TermSizes DEF TermType
  <2>2. ASSUME NEW i \in 1..t.back_count PROVE t.back[ring_place(t, t.back_count - i + 1)] \in Row
    <3>1. t.back_count - i + 1 \in 1..TERM_BACK
      BY <2>1, TermSizes
    <3> QED
      BY <2>1, <3>1, RingPlaceIs
  <2>3. rows \in [1..t.back_count -> Row]
    BY <2>2
  <2>4. rows \in Seq(Row) /\ Len(rows) = t.back_count
    <3> DEFINE n == t.back_count
    <3>1. n \in Nat /\ rows \in [1..n -> Row]
      BY <2>1, <2>3
    <3> HIDE DEF n, rows
    <3>2. rows \in Seq(Row) /\ Len(rows) = n
      BY <3>1
    <3> QED
      BY <3>2 DEF n
  <2>5. ASSUME NEW up \in 1..t.back_count PROVE rows[t.back_count - up + 1] = t.back[ring_place(t, up)]
    <3>1. t.back_count - up + 1 \in 1..t.back_count /\ t.back_count - (t.back_count - up + 1) + 1 = up
      BY <2>1
    <3> QED
      BY <3>1
  <2> HIDE DEF rows
  <2> QED
    BY <2>4, <2>5 DEF Ring
<1> HIDE DEF rows
<1>2. wrapped(t) \in TermType /\ Ring(wrapped(t), rows)
  BY <1>1, WrappedIs, RingStays
<1>3. spot \in TermType
  BY <1>2, MakeRoomIs
<1>4. put(t, ch) = [spot EXCEPT !.cells[spot.row][spot.column] = ch, !.column = @ + 1]
  BY DEF put, printed
<1> DEFINE line == [spot.cells[spot.row] EXCEPT ![spot.column] = ch]
           cells == [spot.cells EXCEPT ![spot.row] = line]
           column == spot.column + 1
           u == [spot EXCEPT !.cells = cells, !.column = column]
<1>5. put(t, ch) = u
  BY <1>3, <1>4 DEF TermType
<1> HIDE DEF line, column
<1>6. \A y \in GridRows : y # spot.row => cells[y] = spot.cells[y]
  BY <1>3 DEF TermType
<1> HIDE DEF cells
<1>7. u.back_view = spot.back_view /\ SameRing(u, spot) /\ u.cells = cells
  BY <1>3 DEF TermType, SameRing
<1> QED
  BY <1>3, <1>5, <1>6, <1>7

\* Room for a character, made or not, keeps the view on a line there is.
LEMMA RoomView ==
  ASSUME NEW t \in TermType, ViewOK(t)
  PROVE  ViewOK(make_room(t))
<1> DEFINE s == scroll(t)
<1>1. s \in TermType
  BY ScrollIs
<1>2. /\ s.back_view = view_after(t, s.back_count)
      /\ s.back_count = IF t.back_count < TERM_BACK THEN t.back_count + 1 ELSE t.back_count
  BY ScrollFields
<1>3. t.back_view \in Nat /\ t.back_count \in Nat /\ t.back_view <= t.back_count
  BY TermSizes DEF TermType, ViewOK
<1>4. make_room(t) = IF full(t) THEN [s EXCEPT !.row = t.rows - 1] ELSE t
  BY DEF make_room
<1> HIDE DEF s
<1>5. [s EXCEPT !.row = t.rows - 1].back_view = s.back_view
      /\ [s EXCEPT !.row = t.rows - 1].back_count = s.back_count
  BY <1>1 DEF TermType
<1>6. s.back_view <= s.back_count
  BY <1>2, <1>3 DEF view_after
<1> QED
  BY <1>4, <1>5, <1>6 DEF ViewOK

\* term_put keeps the view within the rows that the ring holds.
LEMMA PutView ==
  ASSUME NEW t \in TermType, ViewOK(t), NEW ch \in Glyphs \cup {Blank, Newline}
  PROVE  ViewOK(put(t, ch))
<1>1. CASE ch = Newline
  <2>1. put(t, ch) = term_newline(t)
    BY <1>1 DEF put
  <2>2. SameRing(term_newline(t), t) /\ term_newline(t).back_view = t.back_view
    BY WrappedIs
  <2> QED
    BY <2>1, <2>2 DEF ViewOK, SameRing
<1>2. CASE ch # Newline
  <2> DEFINE w == wrapped(t)
             spot == make_room(w)
  <2>1. w \in TermType /\ SameRing(w, t) /\ w.back_view = t.back_view
    BY WrappedIs
  <2>2. ViewOK(w)
    BY <2>1 DEF ViewOK, SameRing
  <2>3. put(t, ch).back_view = spot.back_view /\ put(t, ch).back_count = spot.back_count
    BY <1>2, PutFields DEF SameRing
  <2> HIDE DEF w
  <2>4. ViewOK(spot)
    BY <2>1, <2>2, RoomView
  <2> QED
    BY <2>3, <2>4 DEF ViewOK
<1> QED
  BY <1>1, <1>2

\* What a text leaves on the grid and of the rows that left it.
Shown(after, t) ==
  after.t \in TermType /\ SameLine(after.t, t) /\ ViewOK(after.t) /\ Ring(after.t, after.left)

\* A text that is printed character by character keeps the types and the view, and the
\* ring holds the rows that left.
LEMMA PrintedAllIs ==
  ASSUME NEW t \in TermType, NEW rows, Ring(t, rows), ViewOK(t), NEW text \in Seq(Printable)
  PROVE  Shown(printed_all(t, rows, text), t)
<1> DEFINE n == Len(text)
           S == {x \in [t : TermType, left : Seq(Row)] : Shown(x, t)}
           start == [t |-> t, left |-> rows]
           next(x, ch) == [t |-> put(x.t, ch), left |-> left_after(x.t, x.left, ch)]
           Eq(f) == f = [i \in 0..n |-> IF i = 0 THEN start
                                        ELSE [t |-> put(f[i - 1].t, text[i]),
                                              left |-> left_after(f[i - 1].t, f[i - 1].left, text[i])]]
           step == [i \in 1..n |-> [x \in S |-> next(x, text[i])]]
           after == CHOOSE f : Eq(f)
<1>1. n \in Nat /\ \A i \in 1..n : text[i] \in Printable
  BY LenProperties
<1>2. printed_all(t, rows, text) = after[n]
  BY DEF printed_all
<1>3. start \in S
  <2>1. rows \in Seq(Row) /\ SameLine(t, t)
    BY DEF Ring, SameLine
  <2> QED
    BY <2>1 DEF Shown
<1>4. ASSUME NEW x \in S, NEW ch \in Printable PROVE next(x, ch) \in S
  <2> DEFINE p == put(x.t, ch)
             l == left_after(x.t, x.left, ch)
  <2>1. x.t \in TermType /\ SameLine(x.t, t) /\ ViewOK(x.t) /\ Ring(x.t, x.left)
    BY DEF Shown
  <2>2. p \in TermType /\ SameLine(p, x.t) /\ Ring(p, l) /\ ViewOK(p)
    BY <2>1, PutIs, PutView DEF Printable
  <2> HIDE DEF p, l
  <2>3. SameLine(p, t) /\ l \in Seq(Row)
    BY <2>1, <2>2, LineSame DEF Ring
  <2>4. [t |-> p, left |-> l] \in S
    BY <2>2, <2>3 DEF Shown
  <2> QED
    BY <2>4 DEF p, l
<1> HIDE DEF n, S, start
<1>5. step \in [1..n -> [S -> S]] /\ \A i \in 1..n, x \in S : step[i][x] = next(x, text[i])
  BY <1>1, <1>4
<1> HIDE DEF step
<1>6. PICK f \in [0..n -> S] : Recurs(f, n, start, step)
  BY <1>1, <1>3, <1>5, RecursExist
<1>7. Eq(f)
  <2>1. \A i \in 0..n : f[i] = IF i = 0 THEN start ELSE next(f[i - 1], text[i])
    <3> TAKE i \in 0..n
    <3>1. f[i] = IF i = 0 THEN start ELSE step[i][f[i - 1]]
      BY <1>6 DEF Recurs
    <3>2. i # 0 => i \in 1..n /\ i - 1 \in 0..n
      BY <1>1
    <3> HIDE DEF next
    <3> QED
      BY <3>1, <3>2, <1>5
  <2>2. f = [i \in 0..n |-> f[i]]
    OBVIOUS
  <2> QED
    BY <2>1, <2>2
<1>8. Eq(after)
  BY <1>7
<1> HIDE DEF after
<1>9. \A k \in 0..n : after[k] \in S
  <2>1. after[0] \in S
    BY <1>1, <1>3, <1>8
  <2>2. \A k \in 1..n : after[k - 1] \in S => after[k] \in S
    <3> SUFFICES ASSUME NEW k \in 1..n, after[k - 1] \in S PROVE after[k] \in S
      OBVIOUS
    <3>1. k \in 0..n /\ k # 0
      BY <1>1
    <3>2. after[k] = next(after[k - 1], text[k])
      BY <1>8, <3>1
    <3> HIDE DEF next
    <3> QED
      BY <3>2, <1>1, <1>4
  <2> HIDE DEF Eq
  <2> QED
    BY <1>1, <2>1, <2>2, RangeStays
<1>10. after[n] \in S
  BY <1>1, <1>9
<1> QED
  BY <1>2, <1>10 DEF S

\* The lines that were run are those remembered.
Remembered(t, lines) == t.history = lines /\ Len(lines) <= TERM_HISTORY

TermOK(t, rows, lines) ==
  t \in TermType /\ Ring(t, rows) /\ ViewOK(t) /\ Remembered(t, lines)

TermInv == TermOK(term, paper, ran)

\* A line is one of the lines there may be.
LEMMA LineFits ==
  ASSUME NEW line
  PROVE  line \in Line <=> line \in Seq(Glyphs) /\ Len(line) < TERM_INPUT_MAX
BY DEF Line

\* The empty line is a line.
LEMMA EmptyLine == <<>> \in Line
<1>1. <<>> \in Seq(Glyphs) /\ Len(<<>>) = 0
  BY EmptySeq
<1> QED
  BY <1>1, TermSizes DEF Line

\* A step that leaves the ring and the history alone.
LEMMA TermKept ==
  ASSUME NEW t, NEW u \in TermType, NEW rows, NEW lines, TermOK(t, rows, lines),
         SameRing(u, t), u.history = t.history, ViewOK(u)
  PROVE  TermOK(u, rows, lines)
<1>1. Ring(u, rows)
  BY RingStays DEF TermOK
<1> QED
  BY <1>1 DEF TermOK, Remembered

\* Back at the bottom, and with a line of its own.
with_line(t, line, spot) == [termback_to_bottom(t) EXCEPT !.input = line, !.history_at = spot]

\* Going to the bottom and setting the line and the place in the history keeps the
\* types and leaves the ring and the history alone.
LEMMA BottomIs ==
  ASSUME NEW t \in TermType, NEW line \in Line, NEW spot \in Nat
  PROVE  /\ with_line(t, line, spot) \in TermType /\ SameRing(with_line(t, line, spot), t)
         /\ with_line(t, line, spot).history = t.history /\ ViewOK(with_line(t, line, spot))
<1> DEFINE b == [t EXCEPT !.back_view = 0]
           u == [b EXCEPT !.input = line, !.history_at = spot]
<1>1. termback_to_bottom(t) = b
  BY DEF termback_to_bottom
<1>2. b \in TermType
  BY DEF TermType
<1>3. u \in TermType
  BY <1>2 DEF TermType
<1>4. SameRing(u, t) /\ u.history = t.history /\ u.back_view = 0
  BY DEF TermType, SameRing
<1>5. u.back_count \in Nat
  BY <1>3, TermSizes DEF TermType
<1>6. ViewOK(u)
  BY <1>4, <1>5 DEF ViewOK
<1>7. with_line(t, line, spot) = u
  BY <1>1 DEF with_line
<1> HIDE DEF u
<1> QED
  BY <1>3, <1>4, <1>6, <1>7

\* term_resize keeps the invariant.
LEMMA ResizeKeeps ==
  ASSUME NEW t \in TermType, NEW rows, NEW lines, TermOK(t, rows, lines), NEW cols \in Nat, NEW high \in Nat
  PROVE  TermOK(term_resize(t, cols, high), rows, lines)
<1> DEFINE w == clamp(cols, 1, TERM_MAX_COLS)
           h == clamp(high, 1, TERM_MAX_ROWS)
           r == IF t.row >= h THEN h - 1 ELSE t.row
           c == IF t.column >= w THEN w - 1 ELSE t.column
           u == [t EXCEPT !.cols = w, !.rows = h, !.row = r, !.column = c]
<1>1. w \in 1..TERM_MAX_COLS /\ h \in 1..TERM_MAX_ROWS
  BY TermSizes DEF clamp
<1>2. term_resize(t, cols, high) = u
  BY DEF term_resize, TermType
<1> HIDE DEF w, h
<1>3. r \in Nat /\ c \in Nat
  BY <1>1, TermSizes DEF TermType
<1> HIDE DEF r, c
<1>4. u \in TermType
  BY <1>1, <1>3 DEF TermType
<1>5. SameRing(u, t) /\ u.history = t.history /\ u.back_view = t.back_view
  BY DEF TermType, SameRing
<1> HIDE DEF u
<1>6. ViewOK(u)
  BY <1>5 DEF ViewOK, TermOK, SameRing
<1> QED
  BY <1>2, <1>4, <1>5, <1>6, TermKept

\* term_clear keeps the invariant.
LEMMA ClearKeeps ==
  ASSUME NEW t \in TermType, NEW rows, NEW lines, TermOK(t, rows, lines)
  PROVE  TermOK(term_clear(t), rows, lines)
<1> DEFINE u == [t EXCEPT !.cells = blank_grid, !.row = 0, !.column = 0, !.back_view = 0]
<1>1. blank_grid \in [GridRows -> Row]
  BY DEF blank_grid, BlankRow, GridRows, Row
<1>2. term_clear(t) = u
  BY DEF term_clear, termback_to_bottom, TermType
<1>3. u \in TermType
  BY <1>1 DEF TermType
<1>4. SameRing(u, t) /\ u.history = t.history /\ u.back_view = 0
  BY DEF TermType, SameRing
<1> HIDE DEF u
<1>5. u.back_count \in Nat
  BY <1>3, TermSizes DEF TermType
<1>6. ViewOK(u)
  BY <1>4, <1>5 DEF ViewOK
<1> QED
  BY <1>2, <1>3, <1>4, <1>6, TermKept

\* termback_scroll keeps the invariant.
LEMMA PageKeeps ==
  ASSUME NEW t \in TermType, NEW rows, NEW lines, TermOK(t, rows, lines), NEW pages \in {1, -1}
  PROVE  TermOK(termback_scroll(t, pages), rows, lines)
<1> DEFINE lead == IF t.rows > 1 THEN t.rows - 1 ELSE 1
           v == clamp(t.back_view + lead * pages, 0, t.back_count)
           u == [t EXCEPT !.back_view = v]
<1>1. termback_scroll(t, pages) = u
  BY DEF termback_scroll, TermType
<1>2. lead \in Nat /\ t.back_view \in Nat /\ t.back_count \in Nat
  BY TermSizes DEF TermType
<1> HIDE DEF lead
<1>3. lead * pages \in Int
  <2>1. CASE pages = 1
    BY <2>1, <1>2
  <2>2. CASE pages = -1
    BY <2>2, <1>2
  <2> QED
    BY <2>1, <2>2
<1>4. v \in Nat /\ v <= t.back_count
  <2> DEFINE moved == t.back_view + lead * pages
  <2>1. moved \in Int
    BY <1>2, <1>3
  <2> HIDE DEF moved
  <2>2. clamp(moved, 0, t.back_count) \in Nat /\ clamp(moved, 0, t.back_count) <= t.back_count
    BY <1>2, <2>1 DEF clamp
  <2> QED
    BY <2>2 DEF moved
<1> HIDE DEF v
<1>5. u \in TermType
  BY <1>4 DEF TermType
<1>6. SameRing(u, t) /\ u.history = t.history /\ u.back_view = v
  BY DEF TermType, SameRing
<1> HIDE DEF u
<1>7. ViewOK(u)
  BY <1>4, <1>6 DEF ViewOK, SameRing
<1> QED
  BY <1>1, <1>5, <1>6, <1>7, TermKept

\* A key for the line, with the line and the place in the history it leaves.
LEMMA KeyKeeps ==
  ASSUME NEW t \in TermType, NEW rows, NEW lines, TermOK(t, rows, lines),
         NEW line \in Line, NEW spot \in Nat
  PROVE  TermOK(with_line(t, line, spot), rows, lines)
<1> DEFINE u == with_line(t, line, spot)
<1>1. u \in TermType /\ SameRing(u, t) /\ u.history = t.history /\ ViewOK(u)
  BY BottomIs
<1> HIDE DEF u
<1>2. TermOK(u, rows, lines)
  BY <1>1, TermKept
<1> QED
  BY <1>2 DEF u

\* A key that only edits the line is with_line at the same place of the history.
LEMMA KeyOnly ==
  ASSUME NEW t \in TermType, NEW line
  PROVE  [termback_to_bottom(t) EXCEPT !.input = line] = with_line(t, line, t.history_at)
BY DEF termback_to_bottom, with_line, TermType

\* Going back to the bottom leaves the line and the place in the history, which have
\* their types.
LEMMA LineHeld ==
  ASSUME NEW t \in TermType
  PROVE  /\ termback_to_bottom(t) = with_line(t, t.input, t.history_at)
         /\ t.history_at \in Nat /\ t.input \in Line
BY DEF termback_to_bottom, with_line, TermType

\* term_backspace keeps the invariant.
LEMMA BackspaceKeeps ==
  ASSUME NEW t \in TermType, NEW rows, NEW lines, TermOK(t, rows, lines)
  PROVE  TermOK(term_backspace(t), rows, lines)
<1> DEFINE line == IF t.input = <<>> THEN <<>> ELSE Front(t.input)
           u == with_line(t, line, t.history_at)
<1>1. t.input \in Seq(Glyphs) /\ Len(t.input) < TERM_INPUT_MAX
  BY DEF TermType, Line
<1>2. line \in Line
  <2>1. CASE t.input = <<>>
    BY <2>1, EmptyLine
  <2>2. CASE t.input # <<>>
    <3> DEFINE s == t.input
               n == Len(s) - 1
    <3>1. Len(s) \in Nat \ {0}
      BY <1>1, <2>2, EmptySeq
    <3>2. n \in 0..Len(s) /\ 0 \in 0..n /\ 0 + 1 = 1
      BY <3>1
    <3>3. IsPart(SubSeq(s, 1, n), s, 0, n, Glyphs)
      BY <1>1, <3>2, PieceIs
    <3>4. Front(s) = SubSeq(s, 1, n)
      BY DEF Front
    <3>5. Front(s) \in Seq(Glyphs) /\ Len(Front(s)) < TERM_INPUT_MAX
      BY <1>1, <3>1, <3>3, <3>4, TermSizes DEF IsPart
    <3> QED
      BY <2>2, <3>5 DEF Line
  <2> QED
    BY <2>1, <2>2
<1>3. term_backspace(t) = [termback_to_bottom(t) EXCEPT !.input = line]
  BY DEF term_backspace, with_input
<1> HIDE DEF line
<1>4. term_backspace(t) = u
  BY <1>3, KeyOnly
<1> QED
  BY <1>2, <1>4, LineHeld, KeyKeeps

\* term_type keeps the invariant, whether the character fits or not.
LEMMA TypeKeeps ==
  ASSUME NEW t \in TermType, NEW rows, NEW lines, TermOK(t, rows, lines), NEW ch
  PROVE  TermOK(term_type(t, ch), rows, lines)
<1> DEFINE line == Append(t.input, ch)
           b == termback_to_bottom(t)
<1>1. CASE Len(t.input) + 1 >= TERM_INPUT_MAX \/ ch \notin Glyphs
  <2>1. term_type(t, ch) = b
    BY <1>1 DEF term_type
  <2> QED
    BY <2>1, LineHeld, KeyKeeps
<1>2. CASE ~(Len(t.input) + 1 >= TERM_INPUT_MAX \/ ch \notin Glyphs)
  <2>1. t.input \in Seq(Glyphs) /\ Len(t.input) \in Nat /\ ch \in Glyphs
    BY <1>2, LenProperties DEF TermType, Line
  <2>2. line \in Seq(Glyphs) /\ Len(line) = Len(t.input) + 1
    BY <2>1, AppendProperties
  <2>3. line \in Line
    BY <1>2, <2>1, <2>2, TermSizes DEF Line
  <2>4. Len(t.history) \in Nat
    BY LenProperties DEF TermType
  <2>5. term_type(t, ch) = with_line(t, line, Len(t.history))
    BY <1>2 DEF term_type, with_line, termback_to_bottom, TermType
  <2> HIDE DEF line
  <2> QED
    BY <2>3, <2>4, <2>5, KeyKeeps
<1> QED
  BY <1>1, <1>2

\* The line remembered is the last of those that were run.
LEMMA RememberedIs ==
  ASSUME NEW S, NEW lines \in Seq(S), Len(lines) <= TERM_HISTORY, NEW line \in S
  PROVE  /\ remembered(lines, line) = last(TERM_HISTORY, Append(lines, line))
         /\ remembered(lines, line) \in Seq(S) /\ Len(remembered(lines, line)) <= TERM_HISTORY
<1> DEFINE n == Len(lines)
           H == TERM_HISTORY
           all == Append(lines, line)
<1>1. n \in Nat /\ H \in Nat \ {0}
  BY TermSizes, LenProperties
<1>2. /\ all \in Seq(S) /\ Len(all) = n + 1 /\ all[n + 1] = line
      /\ \A i \in 1..n : all[i] = lines[i]
  BY AppendProperties
<1>3. CASE n # H
  <2>1. remembered(lines, line) = all
    BY <1>3 DEF remembered
  <2>2. last(H, all) = all
    BY <1>1, <1>2, <1>3 DEF last
  <2> QED
    BY <1>1, <1>2, <1>3, <2>1, <2>2
<1>4. CASE n = H
  <2> DEFINE r == Append(Tail(lines), line)
             l == last(H, all)
  <2>1. remembered(lines, line) = r
    BY <1>4 DEF remembered
  <2>2. lines # <<>>
    BY <1>1, <1>4, EmptySeq
  <2>3. /\ Tail(lines) \in Seq(S) /\ Len(Tail(lines)) = n - 1
        /\ \A i \in 1..(n - 1) : Tail(lines)[i] = lines[i + 1]
    BY <2>2, HeadTailProperties
  <2>4. /\ r \in Seq(S) /\ Len(r) = n /\ r[n] = line
        /\ \A i \in 1..(n - 1) : r[i] = lines[i + 1]
    <3>1. /\ r \in Seq(S) /\ Len(r) = (n - 1) + 1 /\ r[(n - 1) + 1] = line
          /\ \A i \in 1..(n - 1) : r[i] = Tail(lines)[i]
      BY <2>3, AppendProperties
    <3>2. (n - 1) + 1 = n
      BY <1>1
    <3> QED
      BY <3>1, <3>2, <2>3
  <2>5. /\ l \in Seq(S) /\ Len(l) = n
        /\ \A i \in 1..n : l[i] = all[i + 1]
    <3>0. H \in Nat
      BY <1>1
    <3>1. /\ l \in Seq(S) /\ Len(l) = IF Len(all) <= H THEN Len(all) ELSE H
          /\ \A i \in 1..Len(l) : l[i] = all[Len(all) - Len(l) + i]
      BY <1>2, <3>0, LastOnes
    <3> HIDE DEF all, l
    <3>2. Len(l) = n /\ Len(all) = n + 1
      BY <1>1, <1>2, <1>4, <3>1
    <3>3. \A i \in 1..n : Len(all) - Len(l) + i = i + 1
      BY <1>1, <3>2
    <3> QED
      BY <3>1, <3>2, <3>3
  <2> HIDE DEF r, l, all, H
  <2>6. \A i \in 1..n : r[i] = l[i]
    <3> TAKE i \in 1..n
    <3>1. CASE i = n
      BY <1>1, <1>2, <2>4, <2>5, <3>1
    <3>2. CASE i # n
      <4>1. i \in 1..(n - 1) /\ i + 1 \in 1..n
        BY <1>1, <3>2
      <4> QED
        BY <4>1, <1>2, <2>4, <2>5
    <3> QED
      BY <3>1, <3>2
  <2>7. r = l
    BY <2>4, <2>5, <2>6, SeqEqual
  <2> QED
    BY <1>1, <1>4, <2>1, <2>4, <2>7 DEF l, H, all
<1> QED
  BY <1>3, <1>4

\* term_enter keeps the invariant: the line is added to the lines run before unless it
\* is empty.
LEMMA EnterKeeps ==
  ASSUME NEW t \in TermType, NEW rows, NEW lines, TermOK(t, rows, lines)
  PROVE  TermOK(term_enter(t), rows,
                IF t.input = <<>> THEN lines ELSE last(TERM_HISTORY, Append(lines, t.input)))
<1> DEFINE new == IF t.input = <<>> THEN lines ELSE last(TERM_HISTORY, Append(lines, t.input))
           history == IF t.input = <<>> THEN t.history ELSE remembered(t.history, t.input)
           spot == Len(history)
           none == <<>>
           b == with_line(t, none, spot)
           u == [b EXCEPT !.history = history]
<1>1. t.history \in Seq(Line) /\ t.input \in Line /\ t.history = lines /\ Len(lines) <= TERM_HISTORY
  BY DEF TermType, TermOK, Remembered
<1>2. history = new /\ history \in Seq(Line) /\ Len(history) <= TERM_HISTORY
  BY <1>1, RememberedIs
<1>3. term_enter(t) = [termback_to_bottom(t) EXCEPT !.history = history, !.history_at = Len(history), !.input = <<>>]
  BY DEF term_enter
<1> HIDE DEF history
<1>4. spot \in Nat
  BY <1>2, LenProperties
<1>5. term_enter(t) = u
  BY <1>3 DEF with_line, termback_to_bottom, TermType
<1>6. none \in Line
  BY EmptyLine
<1> HIDE DEF spot, none
<1>7. TermOK(b, rows, lines)
  BY <1>4, <1>6, KeyKeeps
<1>8. b \in TermType /\ Ring(b, rows) /\ ViewOK(b)
  BY <1>7 DEF TermOK
<1> HIDE DEF b
<1>9. u \in TermType /\ SameRing(u, b) /\ u.back_view = b.back_view /\ u.history = history
  BY <1>2, <1>8 DEF TermType, SameRing
<1> HIDE DEF u
<1>10. Ring(u, rows) /\ ViewOK(u)
  BY <1>8, <1>9, RingStays DEF ViewOK, SameRing
<1> QED
  BY <1>2, <1>5, <1>9, <1>10 DEF TermOK, Remembered

\* term_history_step keeps the invariant.
LEMMA ArrowKeeps ==
  ASSUME NEW t \in TermType, NEW rows, NEW lines, TermOK(t, rows, lines), NEW back
  PROVE  TermOK(term_history_step(t, back), rows, lines)
<1> DEFINE spot == IF back THEN t.history_at - 1 ELSE t.history_at + 1
           n == Len(t.history)
           line == IF spot = n THEN <<>> ELSE t.history[spot + 1]
           u == [t EXCEPT !.history_at = spot, !.input = line]
<1>1. t.history \in Seq(Line) /\ n \in Nat /\ t.history_at \in Nat
  BY LenProperties DEF TermType
<1>2. CASE spot < 0 \/ spot > n
  <2>1. term_history_step(t, back) = t
    BY <1>2 DEF term_history_step
  <2> QED
    BY <2>1
<1>3. CASE ~(spot < 0 \/ spot > n)
  <2>1. spot \in Nat /\ spot <= n
    BY <1>1, <1>3
  <2>2. term_history_step(t, back) = u
    BY <1>3 DEF term_history_step
  <2> HIDE DEF spot
  <2>3. line \in Line
    <3>1. CASE spot = n
      BY <3>1, EmptyLine
    <3>2. CASE spot # n
      <4>1. spot + 1 \in 1..n
        BY <1>1, <2>1, <3>2
      <4> QED
        BY <4>1, <3>2, <1>1, ElementOfSeq
    <3> QED
      BY <3>1, <3>2
  <2> HIDE DEF line
  <2>4. u \in TermType
    BY <2>1, <2>3 DEF TermType
  <2>5. SameRing(u, t) /\ u.history = t.history /\ u.back_view = t.back_view
    BY DEF TermType, SameRing
  <2> HIDE DEF u
  <2>6. ViewOK(u)
    BY <2>5 DEF ViewOK, TermOK, SameRing
  <2> QED
    BY <2>2, <2>4, <2>5, <2>6, TermKept
<1> QED
  BY <1>2, <1>3

\* A character of output keeps the invariant, with the row that it pushes out of the
\* grid.
LEMMA OutputKeeps ==
  ASSUME NEW t \in TermType, NEW rows, NEW lines, TermOK(t, rows, lines), NEW ch \in Inks \cup {Newline}
  PROVE  TermOK(put(t, ch), left_after(t, rows, ch), lines)
<1>1. ch \in Glyphs \cup {Blank, Newline}
  BY TerminalAssumption
<1>2. put(t, ch) \in TermType /\ SameLine(put(t, ch), t) /\ Ring(put(t, ch), left_after(t, rows, ch))
  BY <1>1, PutIs DEF TermOK
<1>3. ViewOK(put(t, ch))
  BY <1>1, PutView DEF TermOK
<1> QED
  BY <1>2, <1>3 DEF TermOK, Remembered, SameLine

\* What Tab prints and the line it leaves, for the names it found.
LEMMA TabKeeps ==
  ASSUME NEW t \in TermType, NEW rows, NEW lines, TermOK(t, rows, lines), begins_with(t.input) # {},
         NEW shown \in {<<>>, listing(t.input)}, NEW after, after = printed_all(t, rows, shown)
  PROVE  TermOK(term_set_input(after.t, cmd_complete(t.input)), after.left, lines)
<1> DEFINE line == cmd_complete(t.input)
           a == after.t
<1>1. t.input \in Seq(Glyphs)
  BY DEF TermType, Line
<1>2. shown \in Seq(Printable)
  BY <1>1, ListingIs, EmptySeq
<1>3. a \in TermType /\ SameLine(a, t) /\ ViewOK(a) /\ Ring(a, after.left)
  BY <1>2, PrintedAllIs DEF TermOK, Shown
<1>4. line \in Seq(Glyphs)
  BY <1>1, CompleteIs
<1> HIDE DEF line, a
<1>5. TermOK(a, after.left, lines)
  BY <1>3 DEF TermOK, Remembered, SameLine
<1>6. CASE Len(line) + 1 >= TERM_INPUT_MAX
  <2>1. term_set_input(a, line) = a
    BY <1>6 DEF term_set_input
  <2> QED
    BY <2>1, <1>5 DEF line, a
<1>7. CASE ~(Len(line) + 1 >= TERM_INPUT_MAX)
  <2>1. line \in Line
    BY <1>4, <1>7, TermSizes, LenProperties DEF Line
  <2>2. term_set_input(a, line) = with_line(a, line, a.history_at)
    BY <1>3, <1>7, KeyOnly DEF term_set_input, with_input
  <2>3. a.history_at \in Nat
    BY <1>3, LineHeld
  <2>4. TermOK(with_line(a, line, a.history_at), after.left, lines)
    BY <1>3, <1>5, <2>1, <2>3, KeyKeeps
  <2> QED
    BY <2>2, <2>4 DEF line, a
<1> QED
  BY <1>6, <1>7

\* The terminal starts in the invariant.
LEMMA TermStarts == TerminalInit => TermInv
<1> SUFFICES ASSUME TerminalInit PROVE TermInv
  OBVIOUS
<1> DEFINE t == term_init(TERM_MAX_COLS, TERM_MAX_ROWS)
           cells == blank_grid
           back == [i \in RingPlaces |-> BlankRow]
           none == <<>>
           cols == clamp(TERM_MAX_COLS, 1, TERM_MAX_COLS)
           rows == clamp(TERM_MAX_ROWS, 1, TERM_MAX_ROWS)
           u == [cells |-> cells, row |-> 0, column |-> 0, cols |-> cols, rows |-> rows,
                 input |-> none, history |-> none, history_at |-> 0,
                 back |-> back, back_count |-> 0, back_next |-> 0, back_view |-> 0]
<1>1. cols \in 1..TERM_MAX_COLS /\ rows \in 1..TERM_MAX_ROWS
  BY TermSizes DEF clamp
<1>2. t = u
  BY DEF term_init, RingPlaces
<1>3. BlankRow \in Row
  BY DEF BlankRow, Row
<1>4. cells \in [GridRows -> Row] /\ back \in [RingPlaces -> Row]
  BY <1>3 DEF blank_grid, GridRows
<1>5. none \in Line /\ none \in Seq(Line) /\ none \in Seq(Row) /\ Len(none) = 0
  BY EmptyLine, EmptySeq
<1>6. 0 \in RingPlaces /\ 0 \in 0..TERM_BACK
  BY TermSizes DEF RingPlaces
<1>7. term = t /\ paper = none /\ ran = none
  BY DEF TerminalInit
<1> HIDE DEF t, cells, back, none, cols, rows
<1>8. u \in TermType
  BY <1>1, <1>4, <1>5, <1>6 DEF TermType
<1>9. u.back_count = 0 /\ u.back_view = 0 /\ u.history = none
  OBVIOUS
<1> HIDE DEF u
<1>10. Ring(u, none)
  BY <1>5, <1>9 DEF Ring
<1>11. ViewOK(u) /\ Remembered(u, none)
  BY <1>5, <1>9, TermSizes DEF ViewOK, Remembered
<1> QED
  BY <1>2, <1>7, <1>8, <1>10, <1>11 DEF TermInv, TermOK

TerminalNext == ScreenNext \/ HistoryNext \/ NamesNext

\* A key for the line or a byte of output, a size, a page or a name finished: each keeps all of it.
LEMMA TermSteps == TermInv /\ [TerminalNext]_terminal_vars => TermInv'
<1> SUFFICES ASSUME TermInv, [TerminalNext]_terminal_vars PROVE TermOK(term', paper', ran')
  BY DEF TermInv
<1>0. term \in TermType /\ TermOK(term, paper, ran)
  BY DEF TermInv, TermOK
<1>1. ASSUME NEW ch \in Inks \cup {Newline}, Output(ch) PROVE TermOK(term', paper', ran')
  BY <1>0, <1>1, OutputKeeps DEF Output
<1>2. CASE Resize
  <2>1. PICK size \in Sizes : term' = term_resize(term, size[1], size[2])
    BY <1>2 DEF Resize
  <2>2. size[1] \in Nat /\ size[2] \in Nat
    BY <2>1, TerminalAssumption
  <2> QED
    BY <1>0, <1>2, <2>1, <2>2, ResizeKeeps DEF Resize
<1>3. CASE Clear
  BY <1>0, <1>3, ClearKeeps DEF Clear
<1>4. CASE Page
  BY <1>0, <1>4, PageKeeps DEF Page
<1>5. CASE Backspace
  BY <1>0, <1>5, BackspaceKeeps DEF Backspace
<1>6. ASSUME NEW keys, Type(keys) PROVE TermOK(term', paper', ran')
  BY <1>0, <1>6, TypeKeeps DEF Type
<1>7. CASE Enter
  BY <1>0, <1>7, EnterKeeps DEF Enter
<1>8. CASE Arrow
  BY <1>0, <1>8, ArrowKeeps DEF Arrow
<1>9. CASE Tab
  <2> DEFINE shown == IF Cardinality(begins_with(term.input)) > 1 THEN listing(term.input) ELSE <<>>
             after == printed_all(term, paper, shown)
  <2>1. /\ begins_with(term.input) # {}
        /\ term' = term_set_input(after.t, cmd_complete(term.input))
        /\ paper' = after.left /\ ran' = ran
    BY <1>9 DEF Tab
  <2>2. shown \in {<<>>, listing(term.input)}
    OBVIOUS
  <2> HIDE DEF shown
  <2>3. TermOK(term_set_input(after.t, cmd_complete(term.input)), after.left, ran)
    BY <1>0, <2>1, <2>2, TabKeeps
  <2> HIDE DEF after
  <2> QED
    BY <2>1, <2>3
<1>10. CASE UNCHANGED terminal_vars
  BY <1>0, <1>10 DEF terminal_vars
<1>11. CASE ScreenNext
  BY <1>1, <1>2, <1>3, <1>4, <1>5, <1>11 DEF ScreenNext
<1>12. CASE HistoryNext
  BY <1>5, <1>6, <1>7, <1>8, <1>12 DEF HistoryNext
<1>13. CASE NamesNext
  BY <1>5, <1>6, <1>9, <1>13 DEF NamesNext
<1> QED
  BY <1>10, <1>11, <1>12, <1>13 DEF TerminalNext

\* Every step of the terminal keeps the invariant.
LEMMA TermKeeps == TerminalSpec => []TermInv
<1>1. TermInv /\ [ScreenNext \/ HistoryNext \/ NamesNext]_terminal_vars => TermInv'
  BY TermSteps DEF TerminalNext
<1> QED
  BY <1>1, TermStarts, PTL DEF TerminalSpec

\* What the ring and the grid hold is read back as one text.
LEMMA ReadBack == TermInv => TerminalRemembers
<1> SUFFICES ASSUME TermInv PROVE ScrollbackIsOneText /\ HistoryIsWhatWasRun
  BY DEF TerminalRemembers
<1>1. term \in TermType /\ Ring(term, paper) /\ HistoryIsWhatWasRun
  BY DEF TermInv, TermOK, Remembered, HistoryIsWhatWasRun
<1> DEFINE grid == [y \in 1..term.rows |-> term.cells[y - 1]]
           lines == paper \o grid
           n == Len(paper)
           T == TERM_BACK
<1>2. /\ paper \in Seq(Row) /\ n = term.back_count /\ n \in Nat /\ n <= T /\ T \in Nat
      /\ \A up \in 1..n : term.back[ring_place(term, up)] = paper[n - up + 1]
  BY <1>1, TermSizes DEF Ring, TermType
<1>3. term.rows \in Nat /\ term.cells \in [GridRows -> Row] /\ \A y \in 1..term.rows : y - 1 \in GridRows
  BY <1>1, TermSizes DEF TermType, GridRows
<1>4. grid \in Seq(Row) /\ Len(grid) = term.rows /\ \A y \in 1..term.rows : grid[y] = term.cells[y - 1]
  <2> DEFINE h == term.rows
  <2>1. h \in Nat /\ grid \in [1..h -> Row]
    BY <1>3
  <2>2. \A y \in 1..h : grid[y] = term.cells[y - 1]
    OBVIOUS
  <2> HIDE DEF h, grid
  <2>3. grid \in Seq(Row) /\ Len(grid) = h
    BY <2>1
  <2> QED
    BY <2>2, <2>3 DEF h
<1> HIDE DEF grid, n
<1>5. /\ lines \in Seq(Row)
      /\ \A i \in 1..(n + term.rows) : lines[i] = IF i <= n THEN paper[i] ELSE grid[i - n]
  BY <1>2, <1>4, ConcatProperties DEF n
<1>6. ASSUME NEW view \in 0..n, NEW line \in 0..(term.rows - 1)
      PROVE  termback_row([term EXCEPT !.back_view = view], line) = lines[n - view + line + 1]
  <2> DEFINE t == [term EXCEPT !.back_view = view]
             up == view - line
             i == n - view + line + 1
  <2>1. /\ t.cells = term.cells /\ t.back = term.back /\ t.back_count = n /\ t.back_view = view
        /\ t.back_next = term.back_next
    BY <1>1, <1>2 DEF TermType
  <2> HIDE DEF t, lines
  <2>0. n \in Nat /\ term.rows \in Nat
    BY <1>2, <1>3
  <2>2. up \in Int /\ i = n - up + 1 /\ up <= n /\ -up < term.rows
    BY <1>2, <1>3
  <2>3. termback_row(t, line) = CASE up <= 0 -> term.cells[-up]
                                   [] up > 0 /\ up <= n -> t.back[ring_place(t, up)]
                                   [] OTHER -> BlankRow
    BY <2>1 DEF termback_row
  <2>4. CASE up <= 0
    <3>1. i \in 1..(n + term.rows) /\ ~(i <= n) /\ i - n \in 1..term.rows /\ (i - n) - 1 = -up
      BY <2>0, <2>4
    <3>2. lines[i] = term.cells[-up]
      BY <3>1, <1>4, <1>5
    <3> QED
      BY <2>3, <2>4, <3>2 DEF t
  <2>5. CASE up > 0
    <3>1. i \in 1..n /\ i \in 1..(n + term.rows) /\ up \in 1..n
      BY <2>0, <2>5
    <3>2. lines[i] = paper[n - up + 1]
      BY <3>1, <1>5, <2>2
    <3>3. ring_place(t, up) = ring_place(term, up)
      BY <2>1 DEF ring_place
    <3>4. termback_row(t, line) = term.back[ring_place(term, up)]
      BY <2>1, <2>2, <2>3, <2>5, <3>3
    <3> QED
      BY <3>1, <3>2, <3>4, <1>2 DEF t
  <2> QED
    BY <2>2, <2>4, <2>5
<1>7. ScrollbackIsOneText
  BY <1>2, <1>6 DEF ScrollbackIsOneText, grid, n
<1> QED
  BY <1>1, <1>7

\* The view shows the lines that left the grid and then the grid, as one text,
\* and the history is what was run, the last lines of it (termback.c:77-96,
\* term.c:213-231).
THEOREM TerminalReadsBack == TerminalSpec => []TerminalRemembers
BY TermKeeps, ReadBack, PTL

\* Line `line' of the view, by where it is.
LEMMA ViewedRow ==
  ASSUME NEW t \in TermType, ViewOK(t), NEW line \in 0..(t.rows - 1),
         NEW up, up = t.back_view - line
  PROVE  /\ up \in Int /\ up <= t.back_count /\ t.back_count <= TERM_BACK
         /\ up <= 0 => -up \in GridRows /\ -up < t.rows /\ termback_row(t, line) = t.cells[-up]
         /\ up > 0 => termback_row(t, line) = t.back[ring_place(t, up)]
<1>1. /\ t.back_view \in Nat /\ t.back_count \in 0..TERM_BACK /\ t.rows \in 1..TERM_MAX_ROWS
      /\ t.back_view <= t.back_count
  BY DEF TermType, ViewOK
<1>2. TERM_BACK \in Nat /\ TERM_MAX_ROWS \in Nat
  BY TermSizes
<1>3. up \in Int /\ up <= t.back_count
  BY <1>1, <1>2
<1>4. up <= 0 => -up \in GridRows /\ -up < t.rows
  BY <1>1, <1>2 DEF GridRows
<1>5. termback_row(t, line) = CASE up <= 0 -> t.cells[-up]
                                [] up > 0 /\ up <= t.back_count -> t.back[ring_place(t, up)]
                                [] OTHER -> BlankRow
  BY DEF termback_row
<1> QED
  BY <1>1, <1>2, <1>3, <1>4, <1>5

\* The view onto a grid that does not scroll, and onto one that does.
LEMMA ViewOnTheGrid ==
  ASSUME NEW t \in TermType, ViewOK(t), NEW u \in TermType, ViewOK(u), SameRing(u, t),
         u.back_view = t.back_view, u.rows = t.rows, u.cols = t.cols,
         NEW line \in 0..(t.rows - 1),
         line - t.back_view >= 0 => u.cells[line - t.back_view] = t.cells[line - t.back_view]
  PROVE  seen(u, line) = seen(t, line)
<1> DEFINE up == t.back_view - line
<1>1. line \in 0..(u.rows - 1) /\ up = u.back_view - line
  OBVIOUS
<1>2. t.back_view \in Nat /\ line \in Nat
  BY TermSizes DEF TermType
<1>3. -up = line - t.back_view
  BY <1>2
<1> HIDE DEF up
<1>4. /\ up \in Int
      /\ up <= 0 => termback_row(t, line) = t.cells[-up]
      /\ up > 0 => termback_row(t, line) = t.back[ring_place(t, up)]
  BY ViewedRow DEF up
<1>5. /\ up <= 0 => termback_row(u, line) = u.cells[-up]
      /\ up > 0 => termback_row(u, line) = u.back[ring_place(u, up)]
  BY <1>1, ViewedRow
<1>6. termback_row(u, line) = termback_row(t, line)
  <2>1. CASE up <= 0
    BY <2>1, <1>2, <1>3, <1>4, <1>5
  <2>2. CASE up > 0
    BY <2>2, <1>4, <1>5 DEF SameRing, ring_place
  <2> QED
    BY <2>1, <2>2, <1>4
<1> QED
  BY <1>6 DEF seen

\* A line of the window that looks back shows the same row after a row left the grid
\* and the view went one row further back.
LEMMA ViewOverAScroll ==
  ASSUME NEW t \in TermType, ViewOK(t), t.back_view > 0, t.back_view < TERM_BACK,
         NEW u \in TermType, ViewOK(u), SameRing(u, termback_keep(t)),
         u.back_view = t.back_view + 1, u.rows = t.rows, u.cols = t.cols,
         \A y \in GridRows : y + 1 < t.rows =>
           u.cells[y] = [x \in Columns |-> IF x < t.cols THEN t.cells[y + 1][x] ELSE t.cells[y][x]],
         NEW line \in 0..(t.rows - 1)
  PROVE  seen(u, line) = seen(t, line)
<1> DEFINE up == t.back_view - line
           more == up + 1
           k == termback_keep(t)
<1>1. t.back_view \in Nat /\ line \in Nat /\ TERM_BACK \in Nat /\ t.rows \in Nat
      /\ t.rows <= TERM_MAX_ROWS /\ t.cols \in 1..TERM_MAX_COLS /\ TERM_MAX_COLS \in Nat
  BY TermSizes DEF TermType
<1>2. line \in 0..(u.rows - 1) /\ more = u.back_view - line /\ up \in Int /\ up < TERM_BACK
  BY <1>1
<1>3. /\ up <= 0 => -up \in GridRows /\ -up < t.rows /\ termback_row(t, line) = t.cells[-up]
      /\ up > 0 => termback_row(t, line) = t.back[ring_place(t, up)]
  BY ViewedRow
<1> HIDE DEF more
<1>4. /\ more <= 0 => -more \in GridRows /\ -more < u.rows /\ termback_row(u, line) = u.cells[-more]
      /\ more > 0 => termback_row(u, line) = u.back[ring_place(u, more)]
  BY <1>2, ViewedRow
<1>5. /\ k.back[ring_place(k, 1)] = top_row(t)
      /\ \A far \in 1..(TERM_BACK - 1) : k.back[ring_place(k, far + 1)] = t.back[ring_place(t, far)]
  BY KeepPlaces
<1>6. u.back = k.back /\ \A far \in Int : ring_place(u, far) = ring_place(k, far)
  BY DEF SameRing, ring_place
<1> DEFINE X == 0..(t.cols - 1)
<1>7. X \subseteq Columns /\ \A x \in X : x < t.cols
  BY <1>1 DEF Columns
<1>8. \A x \in X : termback_row(u, line)[x] = termback_row(t, line)[x]
  <2>1. CASE up > 0
    <3>1. more > 0 /\ up \in 1..(TERM_BACK - 1) /\ more = up + 1 /\ more \in Int
      BY <2>1, <1>1, <1>2 DEF more
    <3>2. termback_row(u, line) = k.back[ring_place(k, up + 1)]
      BY <3>1, <1>4, <1>6
    <3> HIDE DEF up
    <3> QED
      BY <2>1, <3>1, <3>2, <1>3, <1>5
  <2>2. CASE up = 0
    <3>1. more = 1
      BY <2>2 DEF more
    <3>2. termback_row(u, line) = top_row(t)
      BY <3>1, <1>4, <1>5, <1>6
    <3>3. termback_row(t, line) = t.cells[0]
      BY <2>2, <1>3
    <3> HIDE DEF up, X
    <3> QED
      BY <3>2, <3>3, <1>7 DEF top_row
  <2>3. CASE up < 0
    <3>1. more <= 0 /\ -more + 1 = -up /\ -up < t.rows
      BY <2>3, <1>2, <1>3 DEF more
    <3> HIDE DEF up, X
    <3>2. -more \in GridRows /\ termback_row(u, line) = u.cells[-more]
      BY <3>1, <1>4
    <3>3. u.cells[-more] = [x \in Columns |-> IF x < t.cols THEN t.cells[-up][x] ELSE t.cells[-more][x]]
      BY <3>1, <3>2
    <3>4. termback_row(t, line) = t.cells[-up]
      BY <2>3, <1>2, <1>3
    <3> QED
      BY <3>2, <3>3, <3>4, <1>7
  <2> QED
    BY <1>2, <2>1, <2>2, <2>3
<1> HIDE DEF X
<1>9. seen(u, line) = [x \in X |-> termback_row(u, line)[x]] /\ seen(t, line) = [x \in X |-> termback_row(t, line)[x]]
  BY DEF seen, X
<1> QED
  BY <1>8, <1>9

\* Output leaves the lines that are looked at as they were.
LEMMA ViewStays ==
  ASSUME NEW t \in TermType, NEW rows, NEW lines, TermOK(t, rows, lines), NEW ch \in Inks,
         t.back_view > 0, NEW line \in 0..(t.rows - 1),
         IF full(wrapped(t)) THEN t.back_view < TERM_BACK ELSE line - t.back_view # wrapped(t).row
  PROVE  seen(put(t, ch), line) = seen(t, line)
<1> DEFINE u == put(t, ch)
           w == wrapped(t)
           spot == make_room(w)
<1>1. ch \in Glyphs \cup {Blank, Newline} /\ ViewOK(t) /\ Ring(t, rows)
  BY TerminalAssumption DEF TermOK
<1>2. u \in TermType /\ SameLine(u, t) /\ ViewOK(u)
  BY <1>1, PutIs, PutView
<1>3. u.rows = t.rows /\ u.cols = t.cols
  BY <1>2 DEF SameLine
<1>4. t.back_view \in Nat /\ line \in Nat /\ t.rows \in 1..TERM_MAX_ROWS /\ t.back_view <= t.back_count
  BY <1>1, TermSizes DEF TermType, ViewOK
<1>5. /\ w \in TermType /\ SameLine(w, t) /\ SameRing(w, t)
      /\ w.cells = t.cells /\ w.back_view = t.back_view
  BY WrappedIs
<1>6. CASE ch = Newline
  <2>1. u = term_newline(t)
    BY <1>6 DEF put
  <2>2. u.cells = t.cells /\ u.back_view = t.back_view /\ SameRing(u, t)
    BY <2>1, WrappedIs
  <2> HIDE DEF u
  <2>3. seen(u, line) = seen(t, line)
    BY <1>1, <1>2, <1>3, <2>2, ViewOnTheGrid
  <2> QED
    BY <2>3 DEF u
<1>7. CASE ch # Newline
  <2>1. /\ spot \in TermType /\ u.back_view = spot.back_view /\ SameRing(u, spot)
        /\ \A y \in GridRows : y # spot.row => u.cells[y] = spot.cells[y]
    BY <1>1, <1>7, PutFields
  <2>2. CASE ~full(w)
    <3>1. spot = w /\ line - t.back_view # w.row
      BY <2>2 DEF make_room
    <3> HIDE DEF u, spot, w
    <3>2. u.back_view = t.back_view /\ SameRing(u, t)
      BY <3>1, <2>1, <1>5 DEF SameRing
    <3>3. ASSUME line - t.back_view >= 0 PROVE u.cells[line - t.back_view] = t.cells[line - t.back_view]
      <4>1. line - t.back_view \in GridRows
        BY <3>3, <1>4, TermSizes DEF GridRows
      <4> QED
        BY <4>1, <3>1, <2>1, <1>5
    <3>4. seen(u, line) = seen(t, line)
      BY <1>1, <1>2, <1>3, <3>2, <3>3, ViewOnTheGrid
    <3> QED
      BY <3>4 DEF u
  <2>3. CASE full(w)
    <3> DEFINE s == scroll(w)
    <3>1. s \in TermType /\ SameRing(s, termback_keep(w))
      BY <1>5, ScrollIs
    <3>2. spot = [s EXCEPT !.row = w.rows - 1]
      BY <2>3 DEF make_room
    <3> HIDE DEF w
    <3>3. \A y \in GridRows : y + 1 < w.rows =>
             s.cells[y] = [x \in Columns |-> IF x < w.cols THEN w.cells[y + 1][x] ELSE w.cells[y][x]]
      <4> SUFFICES ASSUME NEW y \in GridRows, y + 1 < w.rows
                   PROVE  s.cells[y] = [x \in Columns |-> IF x < w.cols THEN w.cells[y + 1][x] ELSE w.cells[y][x]]
        OBVIOUS
      <4> DEFINE moved == [x \in Columns |-> IF x < w.cols THEN w.cells[y + 1][x] ELSE w.cells[y][x]]
      <4>1. s.cells[y] = CASE y + 1 < w.rows -> moved [] y + 1 = w.rows -> BlankRow [] OTHER -> w.cells[y]
        BY <1>5, ScrollFields
      <4> HIDE DEF moved, s
      <4>2. y + 1 \in Int /\ w.rows \in Int
        BY <1>5, TermSizes DEF GridRows, TermType
      <4>3. s.cells[y] = moved
        BY <4>1, <4>2
      <4> QED
        BY <4>3 DEF moved
    <3>4. /\ s.back_view = view_after(w, s.back_count)
          /\ s.back_count = IF w.back_count < TERM_BACK THEN w.back_count + 1 ELSE w.back_count
      BY <1>5, ScrollFields
    <3>5. t.back_view < TERM_BACK
      BY <2>3 DEF w
    <3> HIDE DEF s, u, spot, w
    <3>6. /\ spot.row = w.rows - 1 /\ spot.cells = s.cells /\ SameRing(spot, s) /\ spot.back_view = s.back_view
      BY <3>1, <3>2 DEF TermType, SameRing
    <3>7. w.back_view \in Nat /\ w.back_count \in Nat /\ w.back_count <= TERM_BACK /\ TERM_BACK \in Nat
          /\ w.back_view <= w.back_count /\ w.back_view > 0 /\ w.back_view < TERM_BACK /\ ViewOK(w)
          /\ w.rows = t.rows /\ w.cols = t.cols
      BY <1>4, <1>5, <3>5, TermSizes DEF TermType, ViewOK, SameRing, SameLine
    <3>8. u.back_view = w.back_view + 1
      BY <2>1, <3>4, <3>6, <3>7 DEF view_after
    <3>9. SameRing(u, termback_keep(w))
      BY <2>1, <3>1, <3>6 DEF SameRing
    <3>10. ASSUME NEW y \in GridRows, y + 1 < w.rows
          PROVE  u.cells[y] = [x \in Columns |-> IF x < w.cols THEN w.cells[y + 1][x] ELSE w.cells[y][x]]
      <4>1. y # spot.row
        <5>1. y \in Int /\ w.rows \in Int
          BY <1>4, <3>7, TermSizes DEF GridRows
        <5> QED
          BY <3>6, <3>10, <5>1
      <4>2. u.cells[y] = s.cells[y]
        BY <4>1, <2>1, <3>6
      <4> QED
        BY <4>2, <3>3, <3>10
    <3>11. line \in 0..(w.rows - 1) /\ u.rows = w.rows /\ u.cols = w.cols
      BY <3>7, <1>3
    <3>12. seen(u, line) = seen(w, line)
      BY <1>2, <1>5, <3>7, <3>8, <3>9, <3>10, <3>11, ViewOverAScroll
    <3>13. seen(w, line) = seen(t, line)
      BY <1>1, <1>5, <3>7, ViewOnTheGrid
    <3> QED
      BY <3>12, <3>13 DEF u
  <2> QED
    BY <2>2, <2>3
<1> QED
  BY <1>6, <1>7

\* Whoever has paged back goes on seeing the same text while output arrives,
\* scroll or not, but for the row being written, until the ring is full and
\* their line is its oldest (termback.c:16-21).
THEOREM TerminalViewStays == TerminalSpec => ViewStaysOnItsText
<1> DEFINE Stays == term' # term => \A ch \in Inks, line \in 0..(term.rows - 1) :
             (/\ term.back_view > 0 /\ Output(ch)
              /\ IF full(wrapped(term)) THEN term.back_view < TERM_BACK
                 ELSE line - term.back_view # wrapped(term).row)
             => seen(term', line) = seen(term, line)
<1>1. TermInv => [Stays]_terminal_vars
  <2> SUFFICES ASSUME TermInv, NEW ch \in Inks, NEW line \in 0..(term.rows - 1),
                      term.back_view > 0, Output(ch),
                      IF full(wrapped(term)) THEN term.back_view < TERM_BACK
                      ELSE line - term.back_view # wrapped(term).row
               PROVE  seen(term', line) = seen(term, line)
    OBVIOUS
  <2>1. term \in TermType /\ TermOK(term, paper, ran) /\ term' = put(term, ch)
    BY DEF TermInv, TermOK, Output
  <2>2. seen(put(term, ch), line) = seen(term, line)
    BY <2>1, ViewStays
  <2> QED
    BY <2>1, <2>2
<1> HIDE DEF Stays
<1>2. [][Stays]_terminal_vars <=> ViewStaysOnItsText
  BY DEF ViewStaysOnItsText, Stays
<1>3. TerminalSpec => [][Stays]_terminal_vars
  BY <1>1, TermKeeps, PTL
<1> QED
  BY <1>2, <1>3, PTL

\* Names as the word after the last blank and slash can begin them.
NamesAreWords ==
  \A spot_at \in DOMAIN Entries : \A name \in Entries[spot_at] :
    \A i \in 1..Len(name) : name[i] \notin {Blank, Slash}

\* A prefix of a prefix is a prefix.
LEMMA PrefixPasses ==
  ASSUME NEW S, NEW p \in Seq(S), NEW q \in Seq(S), NEW r \in Seq(S), IsPrefix(p, q), IsPrefix(q, r)
  PROVE  IsPrefix(p, r)
<1>1. Len(p) \in Nat /\ Len(q) \in Nat /\ Len(r) \in Nat
  BY LenProperties
<1>2. Len(p) <= Len(q) /\ \A i \in 1..Len(p) : p[i] = q[i]
  BY PrefixIs
<1>3. Len(q) <= Len(r) /\ \A i \in 1..Len(q) : q[i] = r[i]
  BY PrefixIs
<1>4. Len(p) <= Len(r) /\ \A i \in 1..Len(p) : p[i] = r[i]
  BY <1>1, <1>2, <1>3
<1> QED
  BY <1>4, PrefixIs

\* A character that is not in what is added stays where it was last.
LEMMA LastSame ==
  ASSUME NEW S, NEW a \in Seq(S), NEW r \in Seq(S), NEW ch, NEW m \in 0..Len(a),
         m <= Len(r), \A i \in 1..m : r[i] = a[i],
         last_of(ch, a) <= m, \A j \in (m + 1)..Len(r) : r[j] # ch
  PROVE  last_of(ch, r) = last_of(ch, a)
<1> DEFINE x == last_of(ch, a)
           y == last_of(ch, r)
<1>1. Len(a) \in Nat /\ Len(r) \in Nat
  BY LenProperties
<1>2. /\ x \in 0..Len(a)
      /\ x # 0 => a[x] = ch
      /\ \A j \in 1..Len(a) : a[j] = ch => j <= x
  BY LastOf
<1>3. /\ y \in 0..Len(r)
      /\ y # 0 => r[y] = ch
      /\ \A j \in 1..Len(r) : r[j] = ch => j <= y
  BY LastOf
<1> HIDE DEF x, y
<1>4. y <= x
  <2>1. CASE y = 0
    BY <2>1, <1>1, <1>2
  <2>2. CASE y # 0
    <3>1. r[y] = ch /\ y \in 1..Len(r)
      BY <2>2, <1>1, <1>3
    <3>2. y \in 1..m
      BY <3>1, <1>1
    <3>3. y \in 1..Len(a) /\ a[y] = ch
      BY <3>1, <3>2, <1>1
    <3> QED
      BY <3>3, <1>2
  <2> QED
    BY <2>1, <2>2
<1>5. x <= y
  <2>1. CASE x = 0
    BY <2>1, <1>1, <1>3
  <2>2. CASE x # 0
    <3>1. a[x] = ch /\ x \in 1..m
      BY <2>2, <1>1, <1>2 DEF x
    <3>2. r[x] = ch /\ x \in 1..Len(r)
      BY <3>1, <1>1
    <3> QED
      BY <3>2, <1>3
  <2> QED
    BY <2>1, <2>2
<1>6. x \in Int /\ y \in Int
  BY <1>1, <1>2, <1>3
<1> QED
  BY <1>4, <1>5, <1>6 DEF x, y

\* The part that is finished is a beginning of what is put in its place.
LEMMA PartialShared ==
  ASSUME NEW line \in Seq(Glyphs), begins_with(line) # {}
  PROVE  LET names == begins_with(line)
         IN  /\ shared_beginning(names) \in Seq(Glyphs) /\ partial(line) \in Seq(Glyphs)
             /\ IsPrefix(partial(line), shared_beginning(names))
             /\ \A name \in names : IsPrefix(shared_beginning(names), name)
<1> DEFINE names == begins_with(line)
           sh == shared_beginning(names)
           p == partial(line)
<1>1. names \in SUBSET Seq(Glyphs) /\ names # {} /\ \A name \in names : IsPrefix(p, name)
  BY NamesAre
<1>2. p \in Seq(Glyphs)
  BY WordIs DEF IsPart
<1> HIDE DEF names, p
<1>3. sh \in Common(names) /\ \A q \in Common(names) : Len(q) <= Len(sh)
  BY <1>1, SharedIs
<1>4. p \in Common(names)
  BY <1>1, <1>2 DEF Common
<1>5. sh \in Seq(Glyphs) /\ \A name \in names : IsPrefix(sh, name)
  BY <1>3 DEF Common
<1>6. IsPrefix(p, sh)
  <2>1. PICK name \in names : TRUE
    BY <1>1
  <2> HIDE DEF sh
  <2>2. name \in Seq(Glyphs) /\ IsPrefix(p, name) /\ IsPrefix(sh, name) /\ Len(p) <= Len(sh)
    BY <2>1, <1>1, <1>3, <1>4, <1>5
  <2>3. Len(p) \in Nat /\ Len(sh) \in Nat
    BY <1>2, <1>5, LenProperties
  <2>4. \A i \in 1..Len(p) : p[i] = name[i]
    BY <1>2, <2>2, PrefixIs
  <2>5. \A i \in 1..Len(sh) : sh[i] = name[i]
    BY <1>5, <2>2, PrefixIs
  <2>6. \A i \in 1..Len(p) : p[i] = sh[i]
    BY <2>2, <2>3, <2>4, <2>5
  <2> QED
    BY <1>2, <1>5, <2>2, <2>6, PrefixIs
<1> QED
  BY <1>2, <1>5, <1>6 DEF names, p

\* The line with its last part finished, before it is cut.
finished(line) == SubSeq(line, 1, kept(line)) \o shared_beginning(begins_with(line))

\* The finished line is what stands before the word and then the beginning that the
\* names share.
LEMMA FinishedIs ==
  ASSUME NEW line \in Seq(Glyphs), begins_with(line) # {}
  PROVE  LET sh == shared_beginning(begins_with(line))
         IN  /\ finished(line) \in Seq(Glyphs) /\ Len(finished(line)) = kept(line) + Len(sh)
             /\ \A i \in 1..kept(line) : finished(line)[i] = line[i]
             /\ \A i \in 1..Len(sh) : finished(line)[kept(line) + i] = sh[i]
<1> DEFINE sh == shared_beginning(begins_with(line))
           k == kept(line)
           front == SubSeq(line, 1, k)
           whole == front \o sh
<1>1. sh \in Seq(Glyphs)
  BY PartialShared
<1>2. k \in 0..Len(line) /\ k \in Nat /\ 0 \in 0..k /\ 0 + 1 = 1
  BY WordIs, LenProperties
<1>3. IsPart(front, line, 0, k, Glyphs)
  BY <1>2, PieceIs
<1> HIDE DEF front, k, sh
<1>4. front \in Seq(Glyphs) /\ Len(front) = k /\ \A i \in 1..k : front[i] = line[i]
  BY <1>2, <1>3 DEF IsPart
<1>5. /\ whole \in Seq(Glyphs) /\ Len(whole) = Len(front) + Len(sh)
      /\ \A i \in 1..Len(front) + Len(sh) : whole[i] = IF i <= Len(front) THEN front[i] ELSE sh[i - Len(front)]
  BY <1>1, <1>4, ConcatProperties
<1>6. Len(sh) \in Nat
  BY <1>1, LenProperties
<1> HIDE DEF whole
<1>7. \A i \in 1..k : whole[i] = line[i]
  BY <1>2, <1>4, <1>5, <1>6
<1>8. \A i \in 1..Len(sh) : whole[k + i] = sh[i]
  <2> TAKE i \in 1..Len(sh)
  <2>1. k + i \in 1..Len(front) + Len(sh) /\ ~(k + i <= Len(front)) /\ (k + i) - Len(front) = i
    BY <1>2, <1>4, <1>6
  <2> QED
    BY <2>1, <1>5
<1>9. finished(line) = whole
  BY DEF finished, whole, front, k, sh
<1> QED
  BY <1>4, <1>5, <1>7, <1>8, <1>9 DEF k, sh

\* What was typed is still there.
LEMMA FinishedBegins ==
  ASSUME NEW line \in Seq(Glyphs), begins_with(line) # {}
  PROVE  IsPrefix(line, finished(line))
<1> DEFINE sh == shared_beginning(begins_with(line))
           k == kept(line)
           p == partial(line)
           f == finished(line)
<1>1. /\ f \in Seq(Glyphs) /\ Len(f) = k + Len(sh)
      /\ \A i \in 1..k : f[i] = line[i]
      /\ \A i \in 1..Len(sh) : f[k + i] = sh[i]
  BY FinishedIs
<1>2. k \in 0..Len(line) /\ IsPart(p, line, k, Len(line), Glyphs)
  BY WordIs
<1>3. Len(line) \in Nat
  BY LenProperties
<1>4. sh \in Seq(Glyphs) /\ p \in Seq(Glyphs) /\ IsPrefix(p, sh)
  BY PartialShared
<1> HIDE DEF sh, k, p, f
<1>5. Len(p) <= Len(sh) /\ \A i \in 1..Len(p) : p[i] = sh[i]
  BY <1>4, PrefixIs
<1>6. Len(p) = Len(line) - k /\ \A i \in 1..(Len(line) - k) : p[i] = line[k + i]
  BY <1>2 DEF IsPart
<1>7. Len(sh) \in Nat
  BY <1>4, LenProperties
<1>8. \A i \in 1..Len(line) : line[i] = f[i]
  <2> TAKE i \in 1..Len(line)
  <2>1. CASE i <= k
    <3>1. i \in 1..k
      BY <2>1, <1>2, <1>3
    <3> QED
      BY <3>1, <1>1
  <2>2. CASE ~(i <= k)
    <3> DEFINE j == i - k
    <3>1. j \in 1..(Len(line) - k) /\ j \in 1..Len(p) /\ j \in 1..Len(sh) /\ k + j = i
      BY <2>2, <1>2, <1>3, <1>5, <1>6, <1>7
    <3> HIDE DEF j
    <3> QED
      BY <3>1, <1>1, <1>5, <1>6
  <2> QED
    BY <2>1, <2>2
<1>9. Len(line) <= Len(f)
  BY <1>1, <1>2, <1>3, <1>5, <1>6, <1>7
<1> QED
  BY <1>1, <1>8, <1>9, PrefixIs DEF f

\* The names all have no blank and no slash, and so what they have in common has none.
LEMMA SharedIsWord ==
  ASSUME NamesAreWords, NEW line \in Seq(Glyphs), begins_with(line) # {}
  PROVE  \A i \in 1..Len(shared_beginning(begins_with(line))) :
           shared_beginning(begins_with(line))[i] \notin {Blank, Slash}
<1> DEFINE names == begins_with(line)
           sh == shared_beginning(names)
<1>1. PICK name \in names : TRUE
  OBVIOUS
<1>2. \A i \in 1..Len(name) : name[i] \notin {Blank, Slash}
  <2>1. where_to_look(line) \in DOMAIN Entries /\ name \in Entries[where_to_look(line)]
    BY <1>1 DEF begins_with
  <2> QED
    BY <2>1 DEF NamesAreWords
<1>3. name \in Seq(Glyphs) /\ sh \in Seq(Glyphs) /\ IsPrefix(sh, name)
  BY <1>1, NamesAre, PartialShared
<1> HIDE DEF sh
<1>4. Len(sh) <= Len(name) /\ \A i \in 1..Len(sh) : sh[i] = name[i]
  BY <1>3, PrefixIs
<1>5. Len(sh) \in Nat /\ Len(name) \in Nat
  BY <1>3, LenProperties
<1>6. \A i \in 1..Len(sh) : sh[i] \notin {Blank, Slash}
  BY <1>2, <1>4, <1>5
<1> QED
  BY <1>6 DEF sh

\* A finished name is looked for where the part of it was.
LEMMA FinishedPlaces ==
  ASSUME NamesAreWords, NEW line \in Seq(Glyphs), begins_with(line) # {}
  PROVE  /\ where_to_look(finished(line)) = where_to_look(line)
         /\ partial(finished(line)) = shared_beginning(begins_with(line))
<1> DEFINE sh == shared_beginning(begins_with(line))
           f == finished(line)
           b == last_of(Blank, line)
           w == word(line)
           s == last_of(Slash, w)
           k == kept(line)
           wf == word(f)
           n == Len(line)
           fn == Len(f)
           sn == Len(sh)
<1>1. /\ f \in Seq(Glyphs) /\ fn = k + sn
      /\ \A i \in 1..k : f[i] = line[i]
      /\ \A i \in 1..sn : f[k + i] = sh[i]
  BY FinishedIs
<1>2. /\ b \in 0..n /\ IsPart(w, line, b, n, Glyphs) /\ s \in 0..Len(w) /\ k \in 0..n
  BY WordIs
<1>3. k = b + s
  BY DEF kept
<1>4. sh \in Seq(Glyphs) /\ \A i \in 1..sn : sh[i] # Blank /\ sh[i] # Slash
  <2>1. sh \in Seq(Glyphs)
    BY PartialShared
  <2>2. \A i \in 1..sn : sh[i] \notin {Blank, Slash}
    BY SharedIsWord
  <2> QED
    BY <2>1, <2>2
<1>5. n \in Nat /\ sn \in Nat
  BY <1>4, LenProperties
<1> HIDE DEF sh, k, f
<1>6. last_of(Blank, f) = b
  <2>1. \A j \in (k + 1)..Len(f) : f[j] # Blank
    <3> TAKE j \in (k + 1)..Len(f)
    <3> DEFINE i == j - k
    <3>1. i \in 1..sn /\ k + i = j
      BY <1>1, <1>2, <1>5
    <3> HIDE DEF i
    <3> QED
      BY <3>1, <1>1, <1>4
  <2>2. k <= Len(f) /\ b <= k /\ k \in 0..Len(line)
    <3>1. s \in Nat /\ b \in Nat
      BY <1>2, <1>5 DEF IsPart
    <3> QED
      BY <3>1, <1>1, <1>2, <1>3, <1>5
  <2> QED
    BY <1>1, <2>1, <2>2, LastSame
<1>7. IsPart(wf, f, b, fn, Glyphs)
  <2>1. IsPart(wf, f, last_of(Blank, f), fn, Glyphs)
    BY <1>1, WordIs
  <2> QED
    BY <2>1, <1>6
<1> HIDE DEF b, w, wf
<1>8. /\ w \in Seq(Glyphs) /\ Len(w) = n - b /\ \A i \in 1..(n - b) : w[i] = line[b + i]
      /\ wf \in Seq(Glyphs) /\ Len(wf) = fn - b /\ \A i \in 1..(fn - b) : wf[i] = f[b + i]
  BY <1>2, <1>7 DEF IsPart
<1> HIDE DEF s
<1>9. b \in Nat /\ s \in Nat /\ s <= n - b /\ fn \in Nat /\ Len(wf) = s + sn /\ k \in Nat
  BY <1>1, <1>2, <1>3, <1>5, <1>8
<1> HIDE DEF fn, n, sn
<1>10. \A i \in 1..s : wf[i] = w[i]
  <2> TAKE i \in 1..s
  <2>1. b + i \in 1..k /\ i \in 1..(n - b) /\ i \in 1..(fn - b)
    BY <1>1, <1>3, <1>5, <1>9
  <2> QED
    BY <2>1, <1>1, <1>8
<1>11. last_of(Slash, wf) = s
  <2>1. \A j \in (s + 1)..Len(wf) : wf[j] # Slash
    <3> TAKE j \in (s + 1)..Len(wf)
    <3> DEFINE i == j - s
    <3>1. i \in 1..sn /\ b + j = k + i /\ j \in 1..(fn - b)
      BY <1>1, <1>3, <1>5, <1>9
    <3> HIDE DEF i
    <3>2. wf[j] = sh[i]
      BY <3>1, <1>1, <1>8
    <3> QED
      BY <3>1, <3>2, <1>4
  <2>2. s <= Len(wf) /\ s \in 0..Len(w) /\ last_of(Slash, w) <= s
    BY <1>2, <1>5, <1>8, <1>9 DEF s
  <2> QED
    BY <1>8, <1>10, <2>1, <2>2, LastSame DEF s
<1>12. kept(f) = k
  BY <1>3, <1>6, <1>11 DEF kept, wf
<1>13. partial(f) = sh
  <2> DEFINE p == partial(f)
  <2>1. IsPart(p, f, k, fn, Glyphs)
    BY <1>1, <1>12, WordIs DEF fn
  <2> HIDE DEF p
  <2>2. fn - k = sn
    BY <1>1, <1>5, <1>9
  <2>3. p \in Seq(Glyphs) /\ Len(p) = sn /\ \A i \in 1..sn : p[i] = sh[i]
    BY <1>1, <2>1, <2>2 DEF IsPart
  <2>4. p = sh
    BY <2>3, <1>4, SeqEqual DEF sn
  <2> QED
    BY <2>4 DEF p
<1>14. where_to_look(f) = where_to_look(line)
  <2> DEFINE m == IF s > 1 THEN s - 1 ELSE s
             x == SubSeq(wf, 1, m)
             y == SubSeq(w, 1, m)
  <2>1. m \in Nat /\ m <= s /\ m \in 0..Len(wf) /\ m \in 0..Len(w) /\ 0 \in 0..m /\ 0 + 1 = 1
    BY <1>5, <1>8, <1>9
  <2>2. where_to_look(f) = x /\ where_to_look(line) = y
    BY <1>11 DEF where_to_look, wf, w, s
  <2> HIDE DEF m
  <2>3. IsPart(x, wf, 0, m, Glyphs) /\ IsPart(y, w, 0, m, Glyphs)
    BY <1>8, <2>1, PieceIs
  <2> HIDE DEF x, y
  <2>4. /\ x \in Seq(Glyphs) /\ Len(x) = m /\ \A i \in 1..m : x[i] = wf[i]
        /\ y \in Seq(Glyphs) /\ Len(y) = m /\ \A i \in 1..m : y[i] = w[i]
    BY <2>1, <2>3 DEF IsPart
  <2>5. \A i \in 1..m : x[i] = y[i]
    BY <1>9, <1>10, <2>1, <2>4
  <2>6. x = y
    BY <2>4, <2>5, SeqEqual
  <2> QED
    BY <2>2, <2>6
<1> QED
  BY <1>13, <1>14 DEF f, sh

\* Every name the part could have meant, the finished part still can.
LEMMA FinishedMeans ==
  ASSUME NamesAreWords, NEW line \in Seq(Glyphs), begins_with(line) # {}
  PROVE  begins_with(finished(line)) = begins_with(line)
<1> DEFINE sh == shared_beginning(begins_with(line))
           f == finished(line)
           p == partial(line)
           spot_at == where_to_look(line)
           all == Entries[spot_at]
<1>1. where_to_look(f) = spot_at /\ partial(f) = sh
  BY FinishedPlaces
<1>2. spot_at \in DOMAIN Entries /\ begins_with(line) = {name \in all : IsPrefix(p, name)}
  BY DEF begins_with
<1>3. begins_with(f) = {name \in all : IsPrefix(sh, name)}
  BY <1>1, <1>2 DEF begins_with
<1>4. sh \in Seq(Glyphs) /\ p \in Seq(Glyphs) /\ IsPrefix(p, sh) /\ \A name \in begins_with(line) : IsPrefix(sh, name)
  BY PartialShared
<1>5. \A name \in all : name \in Seq(Glyphs)
  BY <1>2, TerminalAssumption
<1> HIDE DEF sh, f, p, all
<1>6. ASSUME NEW name \in all, IsPrefix(sh, name) PROVE IsPrefix(p, name)
  BY <1>4, <1>5, <1>6, PrefixPasses
<1>7. begins_with(f) = begins_with(line)
  BY <1>2, <1>3, <1>4, <1>6
<1> QED
  BY <1>7 DEF f

\* When names begin as the word does, the completed line goes on from the line, and
\* while there are several it does not rule any out.
LEMMA TabAdds ==
  ASSUME NamesAreWords, NEW t \in TermType, begins_with(t.input) # {},
         NEW a \in TermType, a.input = t.input,
         NEW u, u = term_set_input(a, cmd_complete(t.input))
  PROVE  /\ IsPrefix(t.input, u.input)
         /\ Cardinality(begins_with(t.input)) > 1 => begins_with(u.input) = begins_with(t.input)
<1> DEFINE line == t.input
           names == begins_with(line)
           f == finished(line)
           slash == slash_after(line, names)
           whole == f \o slash
           cut == cut_to_fit(whole)
<1>1. line \in Seq(Glyphs)
  BY DEF TermType, Line
<1>2. f \in Seq(Glyphs) /\ IsPrefix(line, f) /\ begins_with(f) = names
  BY <1>1, FinishedIs, FinishedBegins, FinishedMeans
<1>3. slash \in Seq(Glyphs) /\ (Cardinality(names) > 1 => slash = <<>>)
  <2>1. <<Slash>> \in Seq(Glyphs)
    BY TerminalAssumption
  <2>2. slash = <<>> \/ slash = <<Slash>>
    BY DEF slash_after
  <2>3. Cardinality(names) > 1 => Cardinality(names) # 1
    OBVIOUS
  <2>4. Cardinality(names) > 1 => slash = <<>>
    BY <2>3 DEF slash_after
  <2> QED
    BY <2>1, <2>2, <2>4, EmptySeq
<1>4. cmd_complete(line) = cut
  BY DEF cmd_complete, finished
<1>5. u = IF Len(cut) + 1 >= TERM_INPUT_MAX THEN a ELSE with_input(termback_to_bottom(a), cut)
  BY <1>4 DEF term_set_input
<1> HIDE DEF f, slash, line
<1>6. whole \in Seq(Glyphs) /\ IsPrefix(line, whole) /\ (Cardinality(names) > 1 => whole = f)
  <2>1. whole \in Seq(Glyphs) /\ IsPrefix(f, whole)
    <3>1. /\ whole \in Seq(Glyphs) /\ Len(whole) = Len(f) + Len(slash)
          /\ \A i \in 1..Len(f) + Len(slash) : whole[i] = IF i <= Len(f) THEN f[i] ELSE slash[i - Len(f)]
      BY <1>2, <1>3, ConcatProperties
    <3>2. Len(f) \in Nat /\ Len(slash) \in Nat
      BY <1>2, <1>3, LenProperties
    <3> HIDE DEF whole
    <3>3. Len(f) <= Len(whole) /\ \A i \in 1..Len(f) : f[i] = whole[i]
      BY <3>1, <3>2
    <3> QED
      BY <1>2, <3>1, <3>3, PrefixIs
  <2>2. Cardinality(names) > 1 => whole = f
    BY <1>2, <1>3, ConcatEmptySeq
  <2> QED
    BY <1>1, <1>2, <2>1, <2>2, PrefixPasses DEF line
<1> HIDE DEF whole
<1>7. CASE Len(cut) + 1 >= TERM_INPUT_MAX
  <2>1. u.input = line
    BY <1>5, <1>7 DEF line
  <2>2. IsPrefix(line, line)
    BY <1>1, PrefixIs DEF line
  <2> QED
    BY <2>1, <2>2 DEF line
<1>8. CASE ~(Len(cut) + 1 >= TERM_INPUT_MAX)
  <2>1. cut = whole
    <3> DEFINE m == TERM_INPUT_MAX - 1
    <3>1. Len(whole) \in Nat /\ TERM_INPUT_MAX \in Nat \ {0, 1} /\ m \in Nat /\ m + 1 = TERM_INPUT_MAX
      BY <1>6, TermSizes, LenProperties
    <3>2. CASE Len(whole) < TERM_INPUT_MAX
      BY <1>6, <3>2, SubSeqFull DEF cut_to_fit
    <3>3. CASE ~(Len(whole) < TERM_INPUT_MAX)
      <4>1. cut = SubSeq(whole, 1, m)
        BY <3>3 DEF cut_to_fit
      <4>2. m \in 0..Len(whole) /\ 0 \in 0..m /\ 0 + 1 = 1
        BY <3>1, <3>3
      <4>3. IsPart(SubSeq(whole, 1, m), whole, 0, m, Glyphs)
        BY <1>6, <4>2, PieceIs
      <4>4. Len(cut) = m
        BY <3>1, <4>1, <4>3 DEF IsPart
      <4> QED
        BY <1>8, <3>1, <4>4
    <3> QED
      BY <3>2, <3>3
  <2> HIDE DEF cut
  <2>2. u.input = whole
    <3>1. termback_to_bottom(a) = [a EXCEPT !.back_view = 0]
      BY DEF termback_to_bottom
    <3>2. u = [[a EXCEPT !.back_view = 0] EXCEPT !.input = cut]
      BY <1>5, <1>8, <3>1 DEF with_input
    <3> QED
      BY <2>1, <3>2 DEF TermType
  <2> QED
    BY <2>2, <1>2, <1>6 DEF line
<1> QED
  BY <1>7, <1>8

\* Where no name in a directory holds a blank or a slash, finishing one only
\* adds to the line, and leaves every name it could have meant (cmdtab.c:6-17).
THEOREM TerminalTabAdds == ASSUME NamesAreWords PROVE TerminalSpec => TabOnlyAdds
<1> DEFINE Adds == (term' # term /\ Tab)
                     => /\ IsPrefix(term.input, term'.input)
                        /\ Cardinality(begins_with(term.input)) > 1
                             => begins_with(term'.input) = begins_with(term.input)
<1>1. TermInv => [Adds]_terminal_vars
  <2> SUFFICES ASSUME TermInv, Tab PROVE Adds
    OBVIOUS
  <2> DEFINE shown == IF Cardinality(begins_with(term.input)) > 1 THEN listing(term.input) ELSE <<>>
             after == printed_all(term, paper, shown)
             a == after.t
  <2>1. /\ begins_with(term.input) # {}
        /\ term' = term_set_input(a, cmd_complete(term.input))
    BY DEF Tab
  <2>2. term \in TermType /\ Ring(term, paper) /\ ViewOK(term) /\ term.input \in Seq(Glyphs)
    BY DEF TermInv, TermOK, TermType, Line
  <2>3. shown \in Seq(Printable)
    BY <2>2, ListingIs, EmptySeq
  <2> HIDE DEF shown
  <2>4. a \in TermType /\ a.input = term.input
    BY <2>2, <2>3, PrintedAllIs DEF Shown, SameLine
  <2> HIDE DEF a
  <2> QED
    BY <2>1, <2>2, <2>4, TabAdds
<1> HIDE DEF Adds
<1>2. [][Adds]_terminal_vars <=> TabOnlyAdds
  BY DEF TabOnlyAdds, Adds
<1>3. TerminalSpec => [][Adds]_terminal_vars
  BY <1>1, TermKeeps, PTL
<1> QED
  BY <1>2, <1>3, PTL

Field == [mined : SUBSET Squares, shown : [Squares -> {"COVERED", "OPEN", "FLAG"}], opened : Nat,
          flagged : Int, dealt : BOOLEAN, over : {"PLAYING", "HIT A MINE", "CLEARED"}]

\* The squares of a field that show a state.
shows(f, state) == {sq \in Squares : f.shown[sq] = state}

\* The counts of a field are the squares they count; before the mines are dealt
\* nothing is open, and after it something is.
Counted(f) ==
  /\ f.opened = Cardinality(shows(f, "OPEN") \ f.mined)
  /\ f.dealt => Cardinality(f.mined) = MINES /\ f.opened > 0
  /\ ~f.dealt => f.mined = {} /\ f.opened = 0 /\ f.over = "PLAYING"
  /\ f.over # "HIT A MINE" => f.flagged = Cardinality(shows(f, "FLAG"))

\* How a game stands against the squares that are open.
Ended(f) ==
  /\ f.over # "HIT A MINE" => shows(f, "OPEN") \cap f.mined = {}
  /\ f.over = "HIT A MINE" => f.mined \subseteq shows(f, "OPEN")
  /\ f.over = "PLAYING" => f.opened # Cardinality(Squares) - MINES
  /\ f.over = "CLEARED" => f.opened = Cardinality(Squares) - MINES

FieldOK(f) == f \in Field /\ Counted(f) /\ Ended(f)

\* The board has a square for each column and row.
LEMMA MineSquares ==
  /\ IsFiniteSet(Squares) /\ Cardinality(Squares) \in Nat /\ Cardinality(Squares) = MINES_COLS * MINES_ROWS
  /\ MINES \in Nat \ {0} /\ MINES < Cardinality(Squares)
<1> DEFINE n == MINES_COLS * MINES_ROWS
<1>1. MINES_COLS \in Nat /\ MINES_ROWS \in Nat /\ MINES \in Nat \ {0} /\ MINES < n
  BY MinesAssumption
<1>2. n \in Nat
  BY <1>1
<1> HIDE DEF n
<1>3. Squares = 0..(n - 1)
  BY DEF Squares, n
<1>4. IsFiniteSet(0..(n - 1)) /\ Cardinality(0..(n - 1)) = n
  <2>1. IsFiniteSet(0..(n - 1)) /\ Cardinality(0..(n - 1)) = IF 0 > n - 1 THEN 0 ELSE (n - 1) - 0 + 1
    BY <1>2, FS_Interval
  <2> QED
    BY <2>1, <1>1, <1>2
<1> QED
  BY <1>1, <1>2, <1>3, <1>4 DEF n

\* Two sets of squares apart count as many squares as both.
LEMMA SquaresAdd ==
  ASSUME NEW A \in SUBSET Squares, NEW B \in SUBSET Squares, A \cap B = {}
  PROVE  /\ IsFiniteSet(A) /\ IsFiniteSet(B) /\ Cardinality(A) \in Nat /\ Cardinality(B) \in Nat
         /\ Cardinality(A \cup B) = Cardinality(A) + Cardinality(B)
<1>1. IsFiniteSet(A) /\ IsFiniteSet(B)
  BY MineSquares, FS_Subset
<1>2. Cardinality(A) \in Nat /\ Cardinality(B) \in Nat
  BY <1>1, FS_CardinalityType
<1>3. Cardinality(A \cup B) = Cardinality(A) + Cardinality(B) - Cardinality(A \cap B)
  BY <1>1, FS_Union
<1>4. Cardinality(A \cap B) = 0
  BY FS_EmptySet
<1> QED
  BY <1>1, <1>2, <1>3, <1>4

\* A field of the fill: what it started as, with more squares open.
Opens(g, f) ==
  /\ g \in Field /\ g.mined = f.mined /\ g.dealt = f.dealt /\ g.over = f.over /\ g.flagged = f.flagged
  /\ shows(g, "FLAG") = shows(f, "FLAG") /\ shows(g, "OPEN") \cap g.mined = {}
  /\ g.opened = Cardinality(shows(g, "OPEN") \ g.mined) /\ g.opened > 0

\* Opening covered squares that hide no mine counts them.
LEMMA OpenedTooIs ==
  ASSUME NEW f \in Field, NEW squares \in SUBSET (shows(f, "COVERED") \ f.mined),
         shows(f, "OPEN") \cap f.mined = {}, f.opened = Cardinality(shows(f, "OPEN") \ f.mined),
         squares # {} \/ f.opened > 0
  PROVE  /\ Opens(opened_too(f, squares), f)
         /\ opened_too(f, squares).opened = f.opened + Cardinality(squares)
<1> DEFINE g == opened_too(f, squares)
<1>1. squares \in SUBSET Squares /\ shows(f, "OPEN") \in SUBSET Squares /\ squares \cap shows(f, "OPEN") = {}
  BY DEF shows
<1>2. /\ Cardinality(squares) \in Nat /\ IsFiniteSet(squares)
      /\ Cardinality(squares \cup shows(f, "OPEN")) = Cardinality(squares) + Cardinality(shows(f, "OPEN"))
      /\ Cardinality(shows(f, "OPEN")) \in Nat
  BY <1>1, SquaresAdd
<1>3. f.shown \in [Squares -> {"COVERED", "OPEN", "FLAG"}] /\ f.opened \in Nat
  BY DEF Field
<1>4. g = [f EXCEPT !.shown = [sq \in Squares |-> IF sq \in squares THEN "OPEN" ELSE f.shown[sq]],
                    !.opened = f.opened + Cardinality(squares)]
  BY DEF opened_too
<1>5. [sq \in Squares |-> IF sq \in squares THEN "OPEN" ELSE f.shown[sq]] \in [Squares -> {"COVERED", "OPEN", "FLAG"}]
  BY <1>3
<1>6. f.opened + Cardinality(squares) \in Nat
  BY <1>2, <1>3
<1>7. /\ g \in Field /\ g.mined = f.mined /\ g.dealt = f.dealt /\ g.over = f.over /\ g.flagged = f.flagged
      /\ g.shown = [sq \in Squares |-> IF sq \in squares THEN "OPEN" ELSE f.shown[sq]]
      /\ g.opened = f.opened + Cardinality(squares)
  BY <1>4, <1>5, <1>6 DEF Field
<1> HIDE DEF g
<1>8. shows(g, "FLAG") = shows(f, "FLAG")
  BY <1>7 DEF shows
<1>9. shows(g, "OPEN") = squares \cup shows(f, "OPEN")
  BY <1>7, <1>1 DEF shows
<1>10. shows(g, "OPEN") \cap g.mined = {}
  BY <1>9, <1>7
<1>11. shows(g, "OPEN") \ g.mined = squares \cup shows(f, "OPEN") /\ shows(f, "OPEN") \ f.mined = shows(f, "OPEN")
  BY <1>9, <1>10
<1>12. g.opened = Cardinality(shows(g, "OPEN") \ g.mined)
  <2>1. f.opened = Cardinality(shows(f, "OPEN"))
    BY <1>11
  <2>2. Cardinality(shows(g, "OPEN") \ g.mined) = Cardinality(squares) + Cardinality(shows(f, "OPEN"))
    BY <1>11, <1>2
  <2> QED
    BY <2>1, <2>2, <1>2, <1>7
<1>13. g.opened > 0
  <2>1. squares # {} => Cardinality(squares) # 0
    BY <1>2, FS_EmptySet
  <2> QED
    BY <2>1, <1>2, <1>3, <1>7
<1> QED
  BY <1>7, <1>8, <1>10, <1>12, <1>13 DEF Opens, g

\* A square that hides no mine puts on covered squares that hide none.
LEMMA FilledFromIs ==
  ASSUME NEW f \in Field, NEW square \in Squares \ f.mined
  PROVE  filled_from(f, square) \in SUBSET (shows(f, "COVERED") \ f.mined)
<1> DEFINE near == (around(square) \ {square}) \cap f.mined
<1>1. around(square) \in SUBSET Squares
  BY DEF around
<1>2. IsFiniteSet(near)
  BY <1>1, MineSquares, FS_Subset
<1>3. CASE touching(f.mined, square) # 0
  BY <1>3 DEF filled_from
<1>4. CASE touching(f.mined, square) = 0
  <2>1. Cardinality(near) = 0
    BY <1>4 DEF touching
  <2>2. near = {}
    BY <2>1, <1>2, FS_EmptySet
  <2>3. filled_from(f, square) = {next \in around(square) : f.shown[next] = "COVERED"}
    BY <1>4 DEF filled_from
  <2> QED
    BY <2>2, <2>3, <1>1 DEF shows
<1> QED
  BY <1>3, <1>4

\* As many of them as the set has.
LEMMA SetListedLength ==
  ASSUME NEW T, NEW S \in SUBSET T, IsFiniteSet(S)
  PROVE  Len(SetToSeq(S)) = Cardinality(S)
<1>1. Cardinality(S) \in Nat /\ ExistsBijection(1..Cardinality(S), S)
  BY FS_CardinalityType
<1> DEFINE n == Cardinality(S)
<1>2. PICK f \in [1..n -> S] : IsInjective(f)
  BY <1>1 DEF ExistsBijection, Bijection, Injection, IsInjective
<1>3. SetToSeq(S) \in [1..n -> S]
  BY <1>2 DEF SetToSeq
<1> HIDE DEF n
<1>4. n \in Nat /\ n = Cardinality(S)
  BY <1>1 DEF n
<1> QED
  BY <1>3, <1>4

\* Each member is in it.
LEMMA SetListedAll ==
  ASSUME NEW S, IsFiniteSet(S)
  PROVE  \A x \in S : \E i \in 1..Len(SetToSeq(S)) : SetToSeq(S)[i] = x
<1>1. Cardinality(S) \in Nat /\ ExistsBijection(1..Cardinality(S), S)
  BY FS_CardinalityType
<1> DEFINE n == Cardinality(S)
           P(g) == g \in [1..n -> S] /\ IsInjective(g)
           f == CHOOSE g : P(g)
<1>2. PICK b \in [1..n -> S] : IsInjective(b)
  BY <1>1 DEF ExistsBijection, Bijection, Injection, IsInjective
<1>3. SetToSeq(S) \in [1..n -> S] /\ IsInjective(SetToSeq(S))
  BY <1>2 DEF SetToSeq
<1>4. IsFiniteSet(1..n) /\ Cardinality(1..n) = n
  BY <1>1, FS_Interval
<1> DEFINE seq == SetToSeq(S)
<1>5. seq \in Injection(1..n, S)
  BY <1>3 DEF Injection, IsInjective
<1>6. seq \in Surjection(1..n, S)
  BY <1>5, <1>4, FS_Injection
<1>7. Len(seq) = n
  BY <1>1, <1>3
<1> QED
  BY <1>6, <1>7 DEF Surjection

\* Two sequences joined.
LEMMA Joined ==
  ASSUME NEW S, NEW s \in Seq(S), NEW r \in Seq(S)
  PROVE  /\ s \o r \in Seq(S) /\ Len(s \o r) = Len(s) + Len(r)
         /\ \A i \in 1..Len(s) : (s \o r)[i] = s[i]
         /\ \A i \in 1..Len(r) : (s \o r)[Len(s) + i] = r[i]
<1>1. Len(s) \in Nat /\ Len(r) \in Nat
  OBVIOUS
<1> QED
  BY <1>1, ConcatProperties

\* What the fill opened is still on the stack, or has nothing more to open.
Reached(x, f) ==
  /\ shows(f, "OPEN") \subseteq shows(x.f, "OPEN")
  /\ \A sq \in shows(x.f, "OPEN") \ shows(f, "OPEN") :
       (\E i \in 1..Len(x.to_open) : x.to_open[i] = sq) \/ filled_from(x.f, sq) = {}

\* Opening squares leaves those near another one no more to open than they had.
LEMMA FewerToOpen ==
  ASSUME NEW f \in Field, NEW squares, NEW square
  PROVE  /\ filled_from(opened_too(f, squares), square) = filled_from(f, square) \ squares
         /\ shows(opened_too(f, squares), "OPEN") = shows(f, "OPEN") \cup (squares \cap Squares)
<1>1. /\ opened_too(f, squares).mined = f.mined
      /\ opened_too(f, squares).shown = [sq \in Squares |-> IF sq \in squares THEN "OPEN" ELSE f.shown[sq]]
  BY DEF opened_too, Field
<1>2. around(square) \in SUBSET Squares
  BY DEF around
<1> QED
  BY <1>1, <1>2 DEF filled_from, shows

\* The fill after so many squares came off the stack: a field that only opened
\* squares, and a stack of open squares that hide no mine.
Fills(x, f, k) ==
  /\ Opens(x.f, f) /\ Reached(x, f)
  /\ x.to_open \in Seq(Squares \ f.mined)
  /\ x.to_open # <<>> => k + Len(x.to_open) <= x.f.opened

\* One turn of the flood fill keeps what holds of its stack, of the squares it has
\* opened, and of the counts.
LEMMA StackStep ==
  ASSUME NEW f, NEW x, NEW k \in Nat, Fills(x, f, k)
  PROVE  Fills(off_the_stack(x), f, k + 1)
<1> DEFINE s == x.to_open
           more == filled_from(x.f, Last(s))
           g == opened_too(x.f, more)
           fewer == Front(s)
           added == SetToSeq(more)
           clear == Squares \ f.mined
<1>1. CASE s = <<>>
  BY <1>1 DEF off_the_stack, Fills
<1>2. CASE s # <<>>
  <2>1. s \in Seq(clear) /\ Len(s) \in Nat \ {0} /\ s[Len(s)] \in clear /\ Last(s) = s[Len(s)]
    <3>1. s \in Seq(clear)
      BY DEF Fills
    <3>2. Len(s) \in Nat /\ Len(s) # 0
      BY <3>1, <1>2, EmptySeq, LenProperties
    <3> QED
      BY <3>1, <3>2, ElementOfSeq DEF Last
  <2>2. fewer \in Seq(clear) /\ Len(fewer) = Len(s) - 1 /\ \A i \in 1..(Len(s) - 1) : fewer[i] = s[i]
    BY <2>1, <1>2, FrontIs
  <2>3. x.f \in Field /\ x.f.mined = f.mined /\ x.f.opened \in Nat
    BY DEF Fills, Opens, Field
  <2>4. more \in SUBSET (shows(x.f, "COVERED") \ x.f.mined)
    BY <2>1, <2>3, FilledFromIs
  <2> HIDE DEF more
  <2>5. Opens(g, x.f) /\ g.opened = x.f.opened + Cardinality(more)
    BY <2>3, <2>4, OpenedTooIs DEF Fills, Opens
  <2>6. Opens(g, f)
    BY <2>5 DEF Fills, Opens
  <2>7. more \in SUBSET clear /\ IsFiniteSet(more)
    <3>1. more \in SUBSET clear /\ more \in SUBSET Squares
      BY <2>4, <2>3 DEF shows
    <3> QED
      BY <3>1, MineSquares, FS_Subset
  <2>8. added \in Seq(clear) /\ Len(added) = Cardinality(more) /\ Cardinality(more) \in Nat
    BY <2>7, SetListed, SetListedLength, FS_CardinalityType
  <2>15. \A sq \in more : \E i \in 1..Len(added) : added[i] = sq
    BY <2>7, SetListedAll
  <2>16. /\ shows(g, "OPEN") = shows(x.f, "OPEN") \cup more
         /\ \A sq : filled_from(g, sq) = filled_from(x.f, sq) \ more
    <3>1. more \cap Squares = more
      BY <2>4 DEF shows
    <3> QED
      BY <2>3, <3>1, FewerToOpen
  <2>17. filled_from(g, s[Len(s)]) = {}
    BY <2>16, <2>1 DEF more
  <2>9. off_the_stack(x) = [f |-> g, to_open |-> fewer \o added]
    BY <1>2 DEF off_the_stack, more
  <2> HIDE DEF g, fewer, added, clear
  <2>18. Len(fewer) \in Nat /\ Len(added) \in Nat /\ Len(s) \in Nat
    BY <2>1, <2>2, <2>8
  <2>10. fewer \o added \in Seq(clear) /\ Len(fewer \o added) = Len(fewer) + Len(added)
         /\ (\A i \in 1..Len(fewer) : (fewer \o added)[i] = fewer[i])
         /\ (\A i \in 1..Len(added) : (fewer \o added)[Len(fewer) + i] = added[i])
    <3>1. fewer \in Seq(clear) /\ added \in Seq(clear)
      BY <2>2, <2>8
    <3> QED
      BY <3>1, Joined
  <2>11. k + Len(s) <= x.f.opened
    BY <1>2 DEF Fills
  <2>12. (k + 1) + Len(fewer \o added) <= g.opened
    BY <2>1, <2>2, <2>3, <2>5, <2>8, <2>10, <2>11
  <2> DEFINE y == [f |-> g, to_open |-> fewer \o added]
  <2>13. y.f = g /\ y.to_open = fewer \o added
    OBVIOUS
  <2> HIDE DEF y
  <2>19. Reached(y, f)
    <3> DEFINE all == fewer \o added
    <3>1. shows(f, "OPEN") \subseteq shows(g, "OPEN")
      BY <2>16 DEF Fills, Reached
    <3>2. ASSUME NEW sq \in shows(g, "OPEN") \ shows(f, "OPEN")
          PROVE  (\E i \in 1..Len(all) : all[i] = sq) \/ filled_from(g, sq) = {}
      <4>1. CASE sq \in more
        <5>1. PICK i \in 1..Len(added) : added[i] = sq
          BY <4>1, <2>15
        <5>2. Len(fewer) + i \in 1..Len(all)
          BY <2>18, <2>10
        <5> QED
          BY <5>1, <5>2, <2>10
      <4>2. CASE sq = s[Len(s)]
        BY <4>2, <2>17
      <4>3. CASE sq \notin more /\ sq # s[Len(s)]
        <5>1. (\E i \in 1..Len(s) : s[i] = sq) \/ filled_from(x.f, sq) = {}
          BY <4>3, <2>16 DEF Fills, Reached
        <5>2. CASE filled_from(x.f, sq) = {}
          BY <5>2, <2>16
        <5>3. CASE \E i \in 1..Len(s) : s[i] = sq
          <6>1. PICK i \in 1..Len(s) : s[i] = sq
            BY <5>3
          <6>2. i # Len(s)
            BY <6>1, <4>3
          <6>3. i \in 1..(Len(s) - 1) /\ i \in 1..Len(fewer) /\ i \in 1..Len(all)
            BY <6>2, <2>18, <2>2, <2>10
          <6> QED
            BY <6>1, <6>3, <2>2, <2>10
        <5> QED
          BY <5>1, <5>2, <5>3
      <4> QED
        BY <4>1, <4>2, <4>3
    <3> QED
      BY <3>1, <3>2, <2>13 DEF Reached
  <2>14. Fills(y, f, k + 1)
    BY <2>19, <2>6, <2>10, <2>12, <2>13 DEF Fills, clear
  <2> QED
    BY <2>9, <2>14 DEF y
<1> QED
  BY <1>1, <1>2

\* The field after a fill, and the squares it did not open have a reason.
Filled(g, f) ==
  /\ Opens(g, f) /\ shows(f, "OPEN") \subseteq shows(g, "OPEN")
  /\ \A sq \in shows(g, "OPEN") \ shows(f, "OPEN") : filled_from(g, sq) = {}

\* A square that is covered and hides no mine, of a field where the mines lie.
MayOpen(f, start) ==
  /\ f \in Field /\ start \in shows(f, "COVERED") \ f.mined
  /\ shows(f, "OPEN") \cap f.mined = {} /\ f.opened = Cardinality(shows(f, "OPEN") \ f.mined)

\* The fill starts with the square clicked opened and alone on its stack.
LEMMA FillStarts ==
  ASSUME NEW f, NEW start, MayOpen(f, start)
  PROVE  Fills([f |-> opened_too(f, {start}), to_open |-> <<start>>], f, 0)
<1> DEFINE g == opened_too(f, {start})
           x == [f |-> g, to_open |-> <<start>>]
<1>1. f \in Field /\ f.opened \in Nat /\ start \in Squares \ f.mined
  BY DEF MayOpen, Field, shows
<1>2. Opens(g, f) /\ g.opened = f.opened + Cardinality({start})
  BY OpenedTooIs DEF MayOpen
<1>3. Cardinality({start}) = 1
  BY FS_Singleton
<1>4. shows(g, "OPEN") = shows(f, "OPEN") \cup {start}
  BY <1>1, FewerToOpen
<1> HIDE DEF g
<1>5. x.f = g /\ x.to_open = <<start>> /\ x.to_open \in Seq(Squares \ f.mined) /\ Len(x.to_open) = 1 /\ x.to_open[1] = start
  BY <1>1
<1>6. 0 + Len(x.to_open) <= x.f.opened
  BY <1>1, <1>2, <1>3, <1>5
<1>7. Reached(x, f)
  BY <1>4, <1>5 DEF Reached
<1> HIDE DEF x
<1> QED
  BY <1>2, <1>5, <1>6, <1>7 DEF Fills, g, x

\* The flood fill opens only squares that hide no mine, counts what it opens,
\* takes every square off its stack, and leaves no square covered beside one it
\* opened with no mine around it, on a board of any size (mines.c:202-238).
THEOREM FillOpensAll ==
  ASSUME NEW f, NEW start, MayOpen(f, start)
  PROVE  Filled(fill(f, start), f) /\ start \in shows(fill(f, start), "OPEN")
<1> DEFINE n == Cardinality(Squares)
           S == {x \in [f : Field, to_open : Seq(Squares)] :
                   start \in shows(x.f, "OPEN") /\ \E k \in Nat : Fills(x, f, k)}
           first == [f |-> opened_too(f, {start}), to_open |-> <<start>>]
           Eq(w) == w = [k \in 0..n |-> IF k = 0 THEN first ELSE off_the_stack(w[k - 1])]
           step == [k \in 1..n |-> [x \in S |-> off_the_stack(x)]]
           after == CHOOSE w : Eq(w)
<1>1. n \in Nat
  BY MineSquares
<1>2. fill(f, start) = after[n].f
  BY DEF fill
<1>3. ASSUME NEW x, NEW k \in Nat, Fills(x, f, k), x = [f |-> x.f, to_open |-> x.to_open], start \in shows(x.f, "OPEN")
      PROVE  x \in S
  <2>1. x.f \in Field /\ x.to_open \in Seq(Squares)
    <3>1. x.to_open \in Seq(Squares \ f.mined) /\ x.f \in Field
      BY <1>3 DEF Fills, Opens
    <3> QED
      BY <3>1, SeqMonotonic
  <2> DEFINE g == x.f
             s == x.to_open
  <2>2. x = [f |-> g, to_open |-> s] /\ g \in Field /\ s \in Seq(Squares)
    BY <1>3, <2>1
  <2> HIDE DEF g, s
  <2>3. x \in [f : Field, to_open : Seq(Squares)]
    BY <2>2
  <2> QED
    BY <2>3, <1>3
<1>4. first \in S /\ Fills(first, f, 0)
  <2> DEFINE g == opened_too(f, {start})
  <2>1. Fills(first, f, 0)
    BY FillStarts
  <2>2. start \in shows(g, "OPEN")
    <3>1. f \in Field /\ start \in Squares
      BY DEF MayOpen, shows
    <3> QED
      BY <3>1, FewerToOpen
  <2>3. first = [f |-> g, to_open |-> <<start>>] /\ first.f = g /\ first.to_open = <<start>>
    OBVIOUS
  <2> HIDE DEF g, first, S
  <2> QED
    BY <2>1, <2>2, <2>3, <1>3
<1>5. ASSUME NEW x \in S, NEW k \in Nat, Fills(x, f, k)
      PROVE  off_the_stack(x) \in S /\ Fills(off_the_stack(x), f, k + 1)
  <2> DEFINE y == off_the_stack(x)
  <2>1. Fills(y, f, k + 1)
    BY <1>5, StackStep
  <2>2. x = [f |-> x.f, to_open |-> x.to_open] /\ start \in shows(x.f, "OPEN") /\ x.f \in Field
    OBVIOUS
  <2>3. y = [f |-> y.f, to_open |-> y.to_open]
    BY <2>2 DEF off_the_stack
  <2>4. start \in shows(y.f, "OPEN")
    <3>1. CASE x.to_open = <<>>
      BY <3>1, <2>2 DEF off_the_stack
    <3>2. CASE x.to_open # <<>>
      <4> DEFINE more == filled_from(x.f, Last(x.to_open))
      <4>1. y.f = opened_too(x.f, more)
        BY <3>2 DEF off_the_stack
      <4> QED
        BY <4>1, <2>2, FewerToOpen
    <3> QED
      BY <3>1, <3>2
  <2> HIDE DEF y, S
  <2> QED
    BY <2>1, <2>3, <2>4, <1>3 DEF y
<1>6. \A x \in S : \E k \in Nat : Fills(x, f, k)
  OBVIOUS
<1>7. \A x \in S : start \in shows(x.f, "OPEN")
  OBVIOUS
<1> HIDE DEF n, S, first
<1>8. \A x \in S : off_the_stack(x) \in S
  BY <1>5, <1>6
<1>9. step \in [1..n -> [S -> S]] /\ \A k \in 1..n, x \in S : step[k][x] = off_the_stack(x)
  BY <1>8
<1> HIDE DEF step
<1>10. PICK w \in [0..n -> S] : Recurs(w, n, first, step)
  BY <1>1, <1>4, <1>9, RecursExist
<1>11. Eq(w)
  <2>1. \A k \in 0..n : w[k] = IF k = 0 THEN first ELSE off_the_stack(w[k - 1])
    <3> TAKE k \in 0..n
    <3>1. w[k] = IF k = 0 THEN first ELSE step[k][w[k - 1]]
      BY <1>10 DEF Recurs
    <3>2. k # 0 => k \in 1..n /\ k - 1 \in 0..n
      BY <1>1
    <3> QED
      BY <3>1, <3>2, <1>9
  <2> QED
    BY <2>1
<1>12. Eq(after)
  BY <1>11
<1> HIDE DEF after
<1>13. after[0] = first /\ \A k \in 1..n : after[k] = off_the_stack(after[k - 1])
  BY <1>1, <1>12
<1>14. \A k \in 0..n : after[k] \in S /\ Fills(after[k], f, k)
  <2> DEFINE pair == [k \in 0..n |-> <<k, after[k]>>]
             T == {p \in (0..n) \X S : Fills(p[2], f, p[1])}
  <2>1. pair[0] \in T
    BY <1>1, <1>4, <1>13
  <2>2. ASSUME NEW k \in 1..n, pair[k - 1] \in T PROVE pair[k] \in T
    <3>1. k - 1 \in 0..n /\ k \in 0..n /\ (k - 1) + 1 = k /\ k - 1 \in Nat
      BY <1>1
    <3>2. pair[k - 1] = <<k - 1, after[k - 1]>> /\ pair[k] = <<k, after[k]>>
      BY <3>1
    <3>3. after[k - 1] \in S /\ Fills(after[k - 1], f, k - 1)
      BY <2>2, <3>2
    <3>4. after[k] \in S /\ Fills(after[k], f, k)
      BY <3>1, <3>3, <1>5, <1>13
    <3> QED
      BY <3>1, <3>2, <3>4
  <2>3. \A k \in 0..n : pair[k] \in T
    <3> HIDE DEF pair, T
    <3> QED
      BY <1>1, <2>1, <2>2, RangeStays
  <2> QED
    BY <2>3
<1> DEFINE x == after[n]
<1>15. x \in S /\ Fills(x, f, n)
  BY <1>14, <1>1
<1>16. x.f.opened <= n /\ x.f.opened \in Nat
  <2> DEFINE open == shows(x.f, "OPEN") \ x.f.mined
  <2>1. open \in SUBSET Squares
    BY DEF shows
  <2>2. Cardinality(open) <= n
    BY <2>1, MineSquares, FS_Subset DEF n
  <2> QED
    BY <2>2, <1>15 DEF Fills, Opens, Field
<1>17. x.to_open = <<>>
  <2>1. x.to_open \in Seq(Squares \ f.mined) /\ (x.to_open # <<>> => n + Len(x.to_open) <= x.f.opened)
    BY <1>15 DEF Fills
  <2> DEFINE s == x.to_open
             m == x.f.opened
  <2>2. s \in Seq(Squares \ f.mined) /\ (s # <<>> => n + Len(s) <= m) /\ m <= n /\ m \in Nat
    BY <2>1, <1>16
  <2> HIDE DEF s, m
  <2>3. s # <<>> => Len(s) \in Nat /\ Len(s) # 0
    BY <2>2, EmptySeq, LenProperties
  <2>4. s = <<>>
    BY <2>2, <2>3, <1>1
  <2> QED
    BY <2>4 DEF s
<1>18. Filled(x.f, f)
  <2>1. \A i \in 1..Len(x.to_open) : FALSE
    BY <1>17
  <2> QED
    BY <1>15, <2>1 DEF Fills, Reached, Filled
<1> QED
  BY <1>2, <1>7, <1>15, <1>18

\* A field in play whose mines lie, as a click finds it; the first click finds
\* no mine.
Ready(f, start) ==
  /\ f \in Field /\ start \in Squares /\ f.shown[start] # "FLAG"
  /\ f.dealt /\ f.over = "PLAYING" /\ Cardinality(f.mined) = MINES
  /\ shows(f, "OPEN") \cap f.mined = {} /\ f.opened = Cardinality(shows(f, "OPEN") \ f.mined)
  /\ f.opened # Cardinality(Squares) - MINES /\ f.flagged = Cardinality(shows(f, "FLAG"))
  /\ start \in f.mined => f.opened > 0

\* The fields of an ended game, one by one.
LEMMA MineHit ==
  ASSUME NEW f, NEW start, Ready(f, start), start \in f.mined, f.shown[start] = "COVERED"
  PROVE  FieldOK(uncover(f, start))
<1> DEFINE g == uncover(f, start)
           shown == [sq \in Squares |-> IF sq \in f.mined THEN "OPEN" ELSE f.shown[sq]]
<1>1. f \in Field /\ f.mined \in SUBSET Squares /\ f.shown \in [Squares -> {"COVERED", "OPEN", "FLAG"}]
  BY DEF Ready, Field
<1>2. shown \in [Squares -> {"COVERED", "OPEN", "FLAG"}]
  BY <1>1
<1>3. g = [f EXCEPT !.over = "HIT A MINE", !.shown = shown]
  BY DEF uncover
<1>4. /\ g \in Field /\ g.mined = f.mined /\ g.opened = f.opened /\ g.dealt = f.dealt
      /\ g.over = "HIT A MINE" /\ g.shown = shown
  BY <1>1, <1>2, <1>3 DEF Field
<1> HIDE DEF g
<1>5. shows(g, "OPEN") \ g.mined = shows(f, "OPEN") \ f.mined /\ g.mined \subseteq shows(g, "OPEN")
  BY <1>1, <1>4 DEF shows
<1> HIDE DEF shown
<1>6. Counted(g)
  BY <1>4, <1>5 DEF Counted, Ready
<1>7. Ended(g)
  BY <1>4, <1>5 DEF Ended
<1> QED
  BY <1>4, <1>6, <1>7 DEF FieldOK, g

\* The fill counts as much as the game asks for.
LEMMA OpenedSquares ==
  ASSUME NEW f, NEW start, Ready(f, start), start \notin f.mined, f.shown[start] = "COVERED"
  PROVE  FieldOK(uncover(f, start))
<1> DEFINE g == fill(f, start)
           u == uncover(f, start)
           n == Cardinality(Squares)
           done == g.opened = n - MINES
<1>1. MayOpen(f, start)
  BY DEF Ready, MayOpen, shows
<1>2. Opens(g, f)
  BY <1>1, FillOpensAll DEF Filled
<1>3. u = IF done THEN [g EXCEPT !.over = "CLEARED"] ELSE g
  BY DEF uncover
<1> HIDE DEF g
<1>4. g \in Field /\ g.dealt /\ g.over = "PLAYING" /\ Cardinality(g.mined) = MINES
  BY <1>2 DEF Opens, Ready
<1>5. /\ u \in Field /\ u.mined = g.mined /\ u.shown = g.shown /\ u.opened = g.opened
      /\ u.dealt = g.dealt /\ u.flagged = g.flagged /\ u.over = IF done THEN "CLEARED" ELSE "PLAYING"
  <2>1. CASE done
    BY <2>1, <1>3, <1>4 DEF Field
  <2>2. CASE ~done
    BY <2>2, <1>3, <1>4
  <2> QED
    BY <2>1, <2>2
<1> HIDE DEF u
<1>6. shows(u, "OPEN") = shows(g, "OPEN") /\ shows(u, "FLAG") = shows(g, "FLAG")
  BY <1>5 DEF shows
<1>7. u.flagged = Cardinality(shows(u, "FLAG"))
  BY <1>2, <1>5, <1>6 DEF Opens, Ready
<1>8. u.opened = Cardinality(shows(u, "OPEN") \ u.mined) /\ u.opened > 0 /\ shows(u, "OPEN") \cap u.mined = {}
  BY <1>2, <1>5, <1>6 DEF Opens
<1>9. Counted(u)
  BY <1>4, <1>5, <1>7, <1>8 DEF Counted
<1>10. Ended(u)
  BY <1>5, <1>8 DEF Ended
<1> QED
  BY <1>5, <1>9, <1>10 DEF FieldOK, u

\* Opening what a click reaches keeps the mine field counted and its end recorded.
LEMMA UncoverKeeps ==
  ASSUME NEW f, NEW start, Ready(f, start)
  PROVE  FieldOK(uncover(f, start))
<1>1. f \in Field /\ start \in Squares /\ f.shown[start] \in {"COVERED", "OPEN"}
  BY DEF Ready, Field
<1>2. CASE f.shown[start] = "OPEN"
  <2>1. uncover(f, start) = f
    BY <1>2 DEF uncover
  <2>2. start \in shows(f, "OPEN") \ f.mined
    BY <1>1, <1>2 DEF shows, Ready
  <2> DEFINE open == shows(f, "OPEN") \ f.mined
  <2>3. IsFiniteSet(open)
    <3>1. open \in SUBSET Squares
      BY DEF shows
    <3> QED
      BY <3>1, MineSquares, FS_Subset
  <2>4. Cardinality(open) # 0
    BY <2>2, <2>3, FS_EmptySet
  <2>5. f.opened > 0
    <3>1. f.opened = Cardinality(open) /\ f.opened \in Nat
      BY <1>1 DEF Ready, Field
    <3> HIDE DEF open
    <3> QED
      BY <2>4, <3>1
  <2>6. Counted(f)
    BY <2>5 DEF Counted, Ready
  <2>7. Ended(f)
    BY DEF Ended, Ready
  <2> QED
    BY <1>1, <2>1, <2>6, <2>7 DEF FieldOK
<1>3. CASE f.shown[start] = "COVERED" /\ start \in f.mined
  BY <1>3, MineHit
<1>4. CASE f.shown[start] = "COVERED" /\ start \notin f.mined
  BY <1>4, OpenedSquares
<1> QED
  BY <1>1, <1>2, <1>3, <1>4

\* A left click keeps the mine field counted and its end recorded.
LEMMA ClickKeeps ==
  ASSUME NEW f, FieldOK(f), NEW square \in Squares \cup {NoSquare}, NEW g \in click(f, square)
  PROVE  FieldOK(g)
<1>1. CASE square = NoSquare \/ f.over # "PLAYING" \/ f.shown[square] = "FLAG"
  BY <1>1 DEF click
<1>2. CASE square # NoSquare /\ f.over = "PLAYING" /\ f.shown[square] # "FLAG"
  <2> DEFINE dealt_as(mined) == [f EXCEPT !.mined = mined, !.dealt = TRUE]
  <2>1. PICK mined \in (IF f.dealt THEN {f.mined} ELSE deal(square)) : g = uncover(dealt_as(mined), square)
    BY <1>2 DEF click
  <2> DEFINE h == dealt_as(mined)
  <2>2. f \in Field /\ square \in Squares
    BY <1>2 DEF FieldOK
  <2>3. /\ mined \in SUBSET Squares /\ Cardinality(mined) = MINES
        /\ shows(f, "OPEN") \cap mined = {} /\ f.opened = Cardinality(shows(f, "OPEN") \ mined)
        /\ square \in mined => f.opened > 0
        /\ f.opened # Cardinality(Squares) - MINES
    <3>1. CASE f.dealt
      BY <2>1, <3>1, <2>2, <1>2 DEF FieldOK, Counted, Ended, Field
    <3>2. CASE ~f.dealt
      <4>1. mined \in SUBSET (Squares \ {square}) /\ Cardinality(mined) = MINES
        BY <2>1, <3>2 DEF deal
      <4>2. f.mined = {} /\ f.opened = 0 /\ f.opened = Cardinality(shows(f, "OPEN") \ f.mined)
        BY <3>2 DEF FieldOK, Counted
      <4>3. shows(f, "OPEN") = {}
        <5>1. IsFiniteSet(shows(f, "OPEN"))
          <6>1. shows(f, "OPEN") \in SUBSET Squares
            BY DEF shows
          <6> QED
            BY <6>1, MineSquares, FS_Subset
        <5>2. Cardinality(shows(f, "OPEN")) = 0
          BY <4>2
        <5> QED
          BY <5>1, <5>2, FS_EmptySet
      <4>4. shows(f, "OPEN") \cap mined = {} /\ f.opened = Cardinality(shows(f, "OPEN") \ mined)
        BY <4>2, <4>3
      <4>5. f.opened # Cardinality(Squares) - MINES
        BY <4>2, MineSquares
      <4> QED
        BY <4>1, <4>4, <4>5
    <3> QED
      BY <3>1, <3>2
  <2>4. /\ h \in Field /\ h.mined = mined /\ h.dealt /\ h.shown = f.shown /\ h.opened = f.opened
        /\ h.flagged = f.flagged /\ h.over = f.over
    BY <2>2, <2>3 DEF Field
  <2> HIDE DEF h
  <2>5. shows(h, "OPEN") = shows(f, "OPEN") /\ shows(h, "FLAG") = shows(f, "FLAG")
    BY <2>4 DEF shows
  <2>6. h.flagged = Cardinality(shows(h, "FLAG"))
    BY <2>4, <2>5, <1>2 DEF FieldOK, Counted
  <2>7. Ready(h, square)
    BY <1>2, <2>2, <2>3, <2>4, <2>5, <2>6 DEF Ready
  <2>8. FieldOK(uncover(h, square))
    BY <2>7, UncoverKeeps
  <2> QED
    BY <2>1, <2>8 DEF h
<1> QED
  BY <1>1, <1>2

\* A flag set or taken away keeps the mine field counted and its end recorded.
LEMMA FlagKeeps ==
  ASSUME NEW f, FieldOK(f), NEW square \in Squares, f.over = "PLAYING", f.shown[square] # "OPEN"
  PROVE  FieldOK(IF f.shown[square] = "FLAG"
                 THEN [f EXCEPT !.shown[square] = "COVERED", !.flagged = @ - 1]
                 ELSE [f EXCEPT !.shown[square] = "FLAG", !.flagged = @ + 1])
<1> DEFINE was == f.shown[square] = "FLAG"
           now == IF was THEN "COVERED" ELSE "FLAG"
           flags == IF was THEN f.flagged - 1 ELSE f.flagged + 1
           g == [f EXCEPT !.shown = [f.shown EXCEPT ![square] = now], !.flagged = flags]
           flagged == shows(f, "FLAG")
<1>1. f \in Field /\ f.shown \in [Squares -> {"COVERED", "OPEN", "FLAG"}] /\ f.flagged \in Int
  BY DEF FieldOK, Field
<1>2. /\ g \in Field /\ g.mined = f.mined /\ g.opened = f.opened /\ g.dealt = f.dealt /\ g.over = f.over
      /\ g.flagged = flags /\ g.shown = [f.shown EXCEPT ![square] = now]
  <2> DEFINE shown == [f.shown EXCEPT ![square] = now]
  <2>1. shown \in [Squares -> {"COVERED", "OPEN", "FLAG"}] /\ flags \in Int
    BY <1>1
  <2>2. g = [f EXCEPT !.shown = shown, !.flagged = flags]
    OBVIOUS
  <2> HIDE DEF shown, flags, g
  <2>3. /\ g \in Field /\ g.mined = f.mined /\ g.opened = f.opened /\ g.dealt = f.dealt /\ g.over = f.over
        /\ g.flagged = flags /\ g.shown = shown
    BY <1>1, <2>1, <2>2 DEF Field
  <2> QED
    BY <2>3 DEF shown
<1>3. g = IF f.shown[square] = "FLAG" THEN [f EXCEPT !.shown[square] = "COVERED", !.flagged = @ - 1]
          ELSE [f EXCEPT !.shown[square] = "FLAG", !.flagged = @ + 1]
  BY <1>1 DEF Field
<1> HIDE DEF g
<1>4. shows(g, "OPEN") = shows(f, "OPEN")
  BY <1>1, <1>2 DEF shows
<1>5. shows(g, "FLAG") = IF was THEN flagged \ {square} ELSE flagged \cup {square}
  BY <1>1, <1>2 DEF shows
<1>6. flagged \in SUBSET Squares /\ (square \in flagged <=> was)
  BY DEF shows
<1>7. IsFiniteSet(flagged) /\ Cardinality(flagged) \in Nat
  BY <1>6, MineSquares, FS_Subset, FS_CardinalityType
<1>8. f.flagged = Cardinality(flagged)
  BY DEF FieldOK, Counted
<1> HIDE DEF flagged
<1>9. Cardinality(shows(g, "FLAG")) = flags
  BY <1>5, <1>6, <1>7, <1>8, FS_AddElement, FS_RemoveElement
<1>10. Counted(g)
  BY <1>2, <1>4, <1>9 DEF Counted, FieldOK
<1>11. Ended(g)
  BY <1>2, <1>4 DEF Ended, FieldOK
<1> QED
  BY <1>2, <1>3, <1>10, <1>11 DEF FieldOK

\* A new board is counted, with nothing open and no mine placed.
LEMMA NewBoard == FieldOK(new_board)
<1> DEFINE f == new_board
<1>1. /\ f \in Field /\ f.mined = {} /\ f.opened = 0 /\ f.dealt = FALSE /\ f.over = "PLAYING" /\ f.flagged = 0
      /\ f.shown = [sq \in Squares |-> "COVERED"]
  BY DEF new_board, Field
<1> HIDE DEF f
<1>2. shows(f, "OPEN") = {} /\ shows(f, "FLAG") = {}
  BY <1>1 DEF shows
<1>3. Cardinality({}) = 0
  BY FS_EmptySet
<1>4. Counted(f)
  BY <1>1, <1>2, <1>3 DEF Counted
<1>5. Ended(f)
  BY <1>1, <1>2, MineSquares DEF Ended
<1> QED
  BY <1>1, <1>4, <1>5 DEF FieldOK, f

MinesSpec == MinesInit /\ [][MinesNext]_mines_vars

MinesInv == FieldOK(field) /\ hover \in Squares \cup {NoSquare} /\ was_down \in BOOLEAN

\* Every step of the game keeps the invariant.
LEMMA MinesKeep == MinesSpec => []MinesInv
<1>1. MinesInit => MinesInv
  BY NewBoard DEF MinesInit, MinesInv
<1>2. ASSUME MinesInv, [MinesNext]_mines_vars
      PROVE  MinesInv'
  <2>1. CASE Pointer
    <3>1. PICK square \in Squares \cup {NoSquare}, down \in BOOLEAN :
             /\ hover' = square /\ was_down' = down
             /\ \E f \in IF down /\ ~was_down THEN click(field, square) ELSE {field} : field' = f
      BY <2>1 DEF Pointer
    <3>2. FieldOK(field)
      BY <1>2 DEF MinesInv
    <3>3. field' = field \/ field' \in click(field, square)
      BY <3>1
    <3>4. FieldOK(field')
      BY <3>2, <3>3, ClickKeeps
    <3> QED
      BY <3>1, <3>4 DEF MinesInv
  <2>2. CASE toggle_flag
    <3>1. CASE hover = NoSquare \/ field.over # "PLAYING" \/ field.shown[hover] = "OPEN"
      BY <1>2, <2>2, <3>1 DEF MinesInv, toggle_flag
    <3>2. CASE hover # NoSquare /\ field.over = "PLAYING" /\ field.shown[hover] # "OPEN"
      <4>1. FieldOK(field) /\ hover \in Squares
        BY <1>2, <3>2 DEF MinesInv
      <4>2. field' = IF field.shown[hover] = "FLAG"
                     THEN [field EXCEPT !.shown[hover] = "COVERED", !.flagged = @ - 1]
                     ELSE [field EXCEPT !.shown[hover] = "FLAG", !.flagged = @ + 1]
        BY <2>2, <3>2 DEF toggle_flag
      <4>3. FieldOK(field')
        BY <3>2, <4>1, <4>2, FlagKeeps
      <4> QED
        BY <1>2, <2>2, <4>3 DEF MinesInv, toggle_flag
    <3> QED
      BY <3>1, <3>2
  <2>3. CASE DealAgain
    BY <1>2, <2>3, NewBoard DEF MinesInv, DealAgain
  <2>4. CASE leave_mines
    BY <2>4, NewBoard DEF MinesInv, leave_mines
  <2>5. CASE UNCHANGED mines_vars
    BY <1>2, <2>5 DEF MinesInv, mines_vars
  <2> QED
    BY <1>2, <2>1, <2>2, <2>3, <2>4, <2>5 DEF MinesNext
<1> QED
  BY <1>1, <1>2, PTL DEF MinesSpec

\* The game of mines is fair on every board with fewer mines than squares: a
\* mine only shows when the game is lost, which the first click never does, and
\* the counts say exactly when every other square is open and how many flags
\* there are (mines.c:151-161, 202-238).
THEOREM MinesFair == MinesSpec => []MinesAreFair
<1>1. ASSUME MinesInv PROVE MinesAreFair
  <2> DEFINE open == shows(field, "OPEN")
             rest == Squares \ field.mined
  <2>1. field \in Field /\ Counted(field) /\ Ended(field)
    BY <1>1 DEF MinesInv, FieldOK
  <2>2. showing("OPEN") = open /\ showing("FLAG") = shows(field, "FLAG")
    BY DEF showing, shows
  <2>3. open \in SUBSET Squares /\ field.mined \in SUBSET Squares
    BY <2>1 DEF shows, Field
  <2>4. field.over \in {"PLAYING", "HIT A MINE", "CLEARED"} /\ field.opened \in Nat /\ field.dealt \in BOOLEAN
    BY <2>1 DEF Field
  <2>5. field.dealt => Cardinality(rest) = Cardinality(Squares) - MINES
    <3>1. SUFFICES ASSUME field.dealt PROVE Cardinality(rest) = Cardinality(Squares) - MINES
      OBVIOUS
    <3>2. Cardinality(field.mined) = MINES
      BY <2>1, <3>1 DEF Counted
    <3>3. rest \in SUBSET Squares /\ rest \cap field.mined = {} /\ rest \cup field.mined = Squares
      BY <2>3
    <3>4. Cardinality(rest) \in Nat /\ Cardinality(rest \cup field.mined) = Cardinality(rest) + Cardinality(field.mined)
      BY <2>3, <3>3, SquaresAdd
    <3> HIDE DEF rest
    <3>5. Cardinality(Squares) = Cardinality(rest) + MINES
      BY <3>2, <3>3, <3>4
    <3>6. Cardinality(Squares) \in Nat /\ MINES \in Nat
      BY MineSquares
    <3> QED
      BY <3>4, <3>5, <3>6
  <2>6. ASSUME field.dealt, rest = open PROVE field.over = "CLEARED"
    <3>1. field.opened = Cardinality(rest)
      <4>1. open \ field.mined = rest
        BY <2>6
      <4> QED
        BY <4>1, <2>1 DEF Counted
    <3>2. field.over # "PLAYING"
      BY <2>1, <2>5, <2>6, <3>1 DEF Ended
    <3>3. field.over # "HIT A MINE"
      <4>1. field.mined # {}
        <5>1. Cardinality(field.mined) = MINES
          BY <2>1, <2>6 DEF Counted
        <5> QED
          BY <5>1, MineSquares, FS_EmptySet
      <4> QED
        BY <2>1, <2>6, <4>1 DEF Ended
    <3> QED
      BY <2>4, <3>2, <3>3
  <2>7. ASSUME field.over = "CLEARED" PROVE field.dealt /\ rest = open
    <3>1. field.dealt
      BY <2>1, <2>4, <2>7 DEF Counted
    <3>2. open \cap field.mined = {} /\ field.opened = Cardinality(Squares) - MINES
      BY <2>1, <2>7 DEF Ended
    <3>3. open \ field.mined = open /\ open \in SUBSET rest
      BY <2>3, <3>2
    <3>4. Cardinality(open) = Cardinality(rest)
      BY <2>1, <2>5, <3>1, <3>2, <3>3 DEF Counted
    <3>5. IsFiniteSet(rest)
      BY MineSquares, FS_Subset
    <3> QED
      BY <3>1, <3>3, <3>4, <3>5, FS_Subset
  <2>8. field.over = "HIT A MINE" => field.opened > 0
    BY <2>1, <2>4 DEF Counted
  <2>9. field.over = "PLAYING" => open \cap field.mined = {}
    BY <2>1 DEF Ended
  <2>10. field.opened = Cardinality(open \ field.mined) /\ (field.over # "HIT A MINE" => field.flagged = Cardinality(shows(field, "FLAG")))
    BY <2>1 DEF Counted
  <2> HIDE DEF open
  <2> QED
    BY <2>2, <2>6, <2>7, <2>8, <2>9, <2>10 DEF MinesAreFair
<1> QED
  BY <1>1, MinesKeep, PTL

\* The board has at least one row and one column, and its pieces are drawn from the
\* list.
LEMMA TetrisSizes ==
  /\ TETRIS_COLS \in Nat \ {0} /\ TETRIS_ROWS \in Nat \ {0} /\ BoardColumns # {}
  /\ BoardRows = 1..TETRIS_ROWS /\ Drawn \subseteq DOMAIN PIECES
<1>1. TETRIS_COLS \in Nat \ {0} /\ TETRIS_ROWS \in Nat \ {0} /\ Drawn \subseteq DOMAIN PIECES
  BY TetrisAssumption
<1>2. 0 \in BoardColumns
  BY <1>1 DEF BoardColumns
<1> QED
  BY <1>1, <1>2 DEF BoardRows

Board == [BoardRows -> SUBSET BoardColumns]

\* Full rows above, below and at a place.
LEMMA FullRowsCount ==
  ASSUME NEW b, NEW o \in Int
  PROVE  /\ full_below(b, o) \in Nat
         /\ full_below(b, o - 1) = full_below(b, o) + (IF o \in full_rows(b) THEN 1 ELSE 0)
         /\ \A z \in BoardRows \ full_rows(b) : o < z => o + full_below(b, o) < z + full_below(b, z)
<1> DEFINE F(y) == {z \in full_rows(b) : z > y}
<1>1. full_rows(b) \in SUBSET (1..TETRIS_ROWS)
  BY DEF full_rows, BoardRows
<1>2. \A y : IsFiniteSet(F(y)) /\ Cardinality(F(y)) \in Nat
  <2> TAKE y
  <2>1. IsFiniteSet(1..TETRIS_ROWS)
    BY TetrisSizes, FS_Interval
  <2>2. F(y) \in SUBSET (1..TETRIS_ROWS)
    BY <1>1
  <2> QED
    BY <2>1, <2>2, FS_Subset, FS_CardinalityType
<1>3. \A y : full_below(b, y) = Cardinality(F(y))
  BY DEF full_below
<1>4. full_below(b, o - 1) = full_below(b, o) + (IF o \in full_rows(b) THEN 1 ELSE 0)
  <2>1. CASE o \in full_rows(b)
    <3>1. F(o - 1) = F(o) \cup {o} /\ o \notin F(o)
      BY <2>1, <1>1, TetrisSizes
    <3>2. Cardinality(F(o) \cup {o}) = Cardinality(F(o)) + 1
      BY <3>1, <1>2, FS_AddElement
    <3> QED
      BY <2>1, <3>1, <3>2, <1>3
  <2>2. CASE o \notin full_rows(b)
    <3>1. F(o - 1) = F(o)
      BY <2>2, <1>1, TetrisSizes
    <3>2. full_below(b, o - 1) = full_below(b, o) /\ full_below(b, o) \in Nat
      BY <3>1, <1>2, <1>3
    <3> QED
      BY <2>2, <3>2
  <2> QED
    BY <2>1, <2>2
<1>5. ASSUME NEW z \in BoardRows \ full_rows(b), o < z
      PROVE  o + full_below(b, o) < z + full_below(b, z)
  <2> DEFINE M == {y \in full_rows(b) : y > o /\ y < z}
  <2>1. z \in Int
    BY TetrisSizes
  <2>2. F(o) = F(z) \cup M /\ F(z) \cap M = {}
    <3>1. \A y \in full_rows(b) : y \in Int /\ y # z
      BY <1>1, TetrisSizes
    <3> QED
      BY <1>5, <2>1, <3>1
  <2>3. M \in SUBSET ((o + 1)..(z - 1))
    BY <1>1, <2>1, TetrisSizes
  <2>4. IsFiniteSet((o + 1)..(z - 1)) /\ Cardinality((o + 1)..(z - 1)) = z - 1 - o
    <3>1. o + 1 \in Int /\ z - 1 \in Int
      BY <2>1
    <3>2. IsFiniteSet((o + 1)..(z - 1))
          /\ Cardinality((o + 1)..(z - 1)) = IF o + 1 > z - 1 THEN 0 ELSE (z - 1) - (o + 1) + 1
      BY <3>1, FS_Interval
    <3> QED
      BY <3>2, <2>1, <1>5
  <2>5. IsFiniteSet(M) /\ Cardinality(M) <= z - 1 - o /\ Cardinality(M) \in Nat
    <3>1. IsFiniteSet(M) /\ Cardinality(M) <= Cardinality((o + 1)..(z - 1))
      BY <2>3, <2>4, FS_Subset
    <3> QED
      BY <3>1, <2>4, FS_CardinalityType
  <2> HIDE DEF M, F
  <2>6. Cardinality(F(z) \cup M) = Cardinality(F(z)) + Cardinality(M) - Cardinality(F(z) \cap M)
    BY <1>2, <2>5, FS_Union
  <2>7. Cardinality(F(z) \cap M) = 0
    BY <2>2, FS_EmptySet
  <2>8. Cardinality(F(o)) = Cardinality(F(z)) + Cardinality(M)
    BY <2>2, <2>5, <2>6, <2>7, <1>2
  <2> DEFINE p == Cardinality(F(o))
             q == Cardinality(F(z))
             m == Cardinality(M)
  <2>9. p \in Nat /\ q \in Nat /\ m \in Nat /\ p = q + m /\ m <= z - 1 - o
    BY <2>8, <2>5, <1>2
  <2>10. full_below(b, o) = p /\ full_below(b, z) = q
    BY <1>3
  <2> HIDE DEF p, q, m
  <2> QED
    BY <2>1, <2>9, <2>10
<1> QED
  BY <1>2, <1>3, <1>4, <1>5

\* The loop of clear_lines over a board that held `b': what was row `o' is where
\* it looks, the rows above have come down as far, and those under are done.
Cleared(loop, b, o) ==
  /\ loop.y = o + full_below(b, o)
  /\ \A k \in BoardRows :
       loop.b[k] = IF k > loop.y THEN Fallen(b)[k]
                   ELSE IF k - full_below(b, o) >= 1 THEN b[k - full_below(b, o)] ELSE {}

Loops == [b : Board, y : 0..TETRIS_ROWS]

\* Where a row that is not full comes to lie no other one does.
LEMMA FallenIs ==
  ASSUME NEW b \in Board, NEW o \in Int, o <= TETRIS_ROWS, NEW y \in BoardRows, y = o + full_below(b, o)
  PROVE  Fallen(b)[y] = IF o >= 1 THEN (IF o \in full_rows(b) THEN Fallen(b)[y] ELSE b[o]) ELSE {}
<1> DEFINE Here == {z \in BoardRows \ full_rows(b) : z + full_below(b, z) = y}
<1>1. Fallen(b)[y] = UNION {b[z] : z \in Here}
  BY DEF Fallen
<1>2. o \in 1..TETRIS_ROWS <=> o \in BoardRows
  BY DEF BoardRows
<1>3. \A z \in BoardRows \ full_rows(b) : o < z => z \notin Here
  <2> SUFFICES ASSUME NEW z \in BoardRows \ full_rows(b), o < z PROVE z \notin Here
    OBVIOUS
  <2>1. o + full_below(b, o) < z + full_below(b, z)
    BY FullRowsCount
  <2>2. full_below(b, z) \in Nat /\ full_below(b, o) \in Nat /\ z \in Int
    BY FullRowsCount, TetrisSizes
  <2> QED
    BY <2>1, <2>2
<1>4. CASE o < 1
  <2>1. \A z \in BoardRows : o < z
    BY <1>4 DEF BoardRows
  <2>2. Here = {}
    BY <1>3, <2>1
  <2> QED
    BY <1>1, <1>4, <2>2
<1>5. CASE o >= 1 /\ o \notin full_rows(b)
  <2>1. o \in BoardRows \ full_rows(b)
    BY <1>5, TetrisSizes
  <2>2. \A z \in BoardRows \ full_rows(b) : z < o => z \notin Here
    <3> SUFFICES ASSUME NEW z \in BoardRows \ full_rows(b), z < o PROVE z \notin Here
      OBVIOUS
    <3>1. z \in Int
      BY TetrisSizes
    <3>2. z + full_below(b, z) < o + full_below(b, o)
      BY <3>1, <2>1, FullRowsCount
    <3>3. full_below(b, z) \in Nat /\ full_below(b, o) \in Nat
      BY <3>1, FullRowsCount
    <3> QED
      BY <3>1, <3>2, <3>3
  <2>3. Here = {o}
    <3>1. \A z \in BoardRows : z \in Int
      BY TetrisSizes
    <3>2. o \in Here
      BY <2>1
    <3>3. \A z \in Here : z \in BoardRows \ full_rows(b) /\ ~(z < o) /\ ~(o < z)
      BY <1>3, <2>2
    <3>4. \A z \in Here : z = o
      BY <3>1, <3>3
    <3> HIDE DEF Here
    <3> QED
      BY <3>2, <3>4
  <2> QED
    BY <1>1, <1>5, <2>3
<1>6. CASE o >= 1 /\ o \in full_rows(b)
  BY <1>6
<1> QED
  BY <1>4, <1>5, <1>6

\* A turn of the loop goes one row of the old board up.
LEMMA NextRow ==
  ASSUME NEW b \in Board, NEW o \in Int, o <= TETRIS_ROWS, NEW loop \in Loops, loop.y # 0, Cleared(loop, b, o)
  PROVE  /\ next_row(loop) \in Loops /\ Cleared(next_row(loop), b, o - 1)
         /\ next_row(loop).y = loop.y - (IF o \in full_rows(b) THEN 0 ELSE 1)
<1> DEFINE g == full_below(b, o)
           h == full_below(b, o - 1)
           y == loop.y
           c == loop.b
           n == TETRIS_ROWS
<1>1. y \in 1..n /\ c \in Board /\ n \in Nat /\ BoardRows = 1..n /\ g \in Nat
  BY TetrisSizes, FullRowsCount DEF Loops
<1>2. h = g + (IF o \in full_rows(b) THEN 1 ELSE 0) /\ y = o + g
  BY FullRowsCount DEF Cleared
<1>3. \A k \in 1..n : c[k] = IF k > y THEN Fallen(b)[k] ELSE IF k - g >= 1 THEN b[k - g] ELSE {}
  BY <1>1 DEF Cleared
<1>4. c[y] = IF o >= 1 THEN b[o] ELSE {}
  <2>1. y - g = o /\ ~(y > y)
    BY <1>1, <1>2
  <2> QED
    BY <1>1, <1>3, <2>1
<1>5. o \in full_rows(b) <=> c[y] = BoardColumns
  <2>1. o \in full_rows(b) <=> o >= 1 /\ b[o] = BoardColumns
    BY TetrisSizes DEF full_rows
  <2> QED
    BY <1>4, <2>1, TetrisSizes
<1> HIDE DEF g, h
<1>6. CASE o \notin full_rows(b)
  <2> DEFINE l == [loop EXCEPT !.y = y - 1]
  <2>1. next_row(loop) = l
    BY <1>5, <1>6 DEF next_row
  <2>2. l \in Loops /\ l.y = y - 1 /\ l.b = c
    BY <1>1 DEF Loops
  <2> HIDE DEF l
  <2>3. h = g /\ y - 1 = (o - 1) + h
    BY <1>1, <1>2, <1>6
  <2>4. Fallen(b)[y] = c[y]
    BY <1>1, <1>2, <1>4, <1>6, FallenIs DEF g
  <2>5. \A k \in 1..n : c[k] = IF k > y - 1 THEN Fallen(b)[k] ELSE IF k - h >= 1 THEN b[k - h] ELSE {}
    <3> TAKE k \in 1..n
    <3>1. k > y - 1 <=> k > y \/ k = y
      BY <1>1
    <3> QED
      BY <1>3, <2>3, <2>4, <3>1
  <2>6. Cleared(l, b, o - 1)
    BY <1>1, <2>2, <2>3, <2>5 DEF Cleared, h
  <2> QED
    BY <1>6, <2>1, <2>2, <2>6
<1>7. CASE o \in full_rows(b)
  <2> DEFINE d == without_row(c, y)
             l == [b |-> d, y |-> y]
  <2>1. next_row(loop) = l
    BY <1>5, <1>7 DEF next_row, looked_at_next
  <2>2. d = [k \in 1..n |-> IF k = 1 THEN {} ELSE IF k <= y THEN c[k - 1] ELSE c[k]]
    BY <1>1 DEF without_row
  <2>3. d \in Board
    <3>1. \A k \in 1..n : k # 1 => k - 1 \in 1..n
      BY <1>1
    <3>2. c \in [1..n -> SUBSET BoardColumns]
      BY <1>1 DEF Board
    <3>3. d \in [1..n -> SUBSET BoardColumns]
      BY <2>2, <3>1, <3>2
    <3> QED
      BY <1>1, <3>3 DEF Board
  <2> HIDE DEF d
  <2>4. l \in Loops /\ l.y = y /\ l.b = d
    BY <1>1, <2>3 DEF Loops
  <2> HIDE DEF l
  <2>5. h = g + 1 /\ y = (o - 1) + h
    BY <1>1, <1>2, <1>7
  <2>6. \A k \in 1..n : d[k] = IF k > y THEN Fallen(b)[k] ELSE IF k - h >= 1 THEN b[k - h] ELSE {}
    <3> TAKE k \in 1..n
    <3>1. CASE k = 1
      <4>1. ~(k > y) /\ ~(k - h >= 1)
        BY <1>1, <2>5, <3>1
      <4> QED
        BY <2>2, <3>1, <4>1
    <3>2. CASE k # 1 /\ k <= y
      <4>1. k - 1 \in 1..n /\ ~(k > y) /\ ~(k - 1 > y) /\ (k - 1) - g = k - h /\ k \in Int
        BY <1>1, <2>5, <3>2
      <4>2. c[k - 1] = IF k - h >= 1 THEN b[k - h] ELSE {}
        BY <4>1, <1>3
      <4> QED
        BY <2>2, <3>2, <4>1, <4>2
    <3>3. CASE k > y
      <4>1. k # 1 /\ ~(k <= y)
        BY <1>1, <3>3
      <4> QED
        BY <1>3, <2>2, <3>3, <4>1
    <3> QED
      BY <1>1, <3>1, <3>2, <3>3
  <2>7. Cleared(l, b, o - 1)
    BY <1>1, <2>4, <2>5, <2>6 DEF Cleared, h
  <2> QED
    BY <1>1, <1>7, <2>1, <2>4, <2>7
<1> QED
  BY <1>6, <1>7

\* From any row downwards there are at most as many full rows as in all, and at most as
\* many as there are rows.
LEMMA FullRowsBound ==
  ASSUME NEW b, NEW o \in Int
  PROVE  full_below(b, o) <= full_below(b, 0) /\ full_below(b, 0) <= TETRIS_ROWS
<1> DEFINE F(y) == {z \in full_rows(b) : z > y}
<1>1. full_rows(b) \in SUBSET (1..TETRIS_ROWS)
  BY DEF full_rows, BoardRows
<1>2. IsFiniteSet(1..TETRIS_ROWS) /\ Cardinality(1..TETRIS_ROWS) = TETRIS_ROWS
  BY TetrisSizes, FS_Interval
<1>3. F(o) \in SUBSET F(0) /\ F(0) \in SUBSET (1..TETRIS_ROWS)
  BY <1>1, TetrisSizes
<1>4. IsFiniteSet(F(0)) /\ Cardinality(F(0)) <= TETRIS_ROWS
  BY <1>2, <1>3, FS_Subset
<1>5. Cardinality(F(o)) <= Cardinality(F(0))
  BY <1>3, <1>4, FS_Subset
<1> QED
  BY <1>4, <1>5 DEF full_below

\* So many turns of the loop after it began.
Turned(loop, b, k) ==
  \E o \in Int : /\ o <= TETRIS_ROWS /\ Cleared(loop, b, o)
                 /\ loop.y = 0 \/ loop.y + full_below(b, 0) - full_below(b, o) + k <= 2 * TETRIS_ROWS

\* clear_lines takes away exactly the full rows of any board (tetris.c:97-130).
THEOREM ClearTakesFullRows ==
  ASSUME NEW b \in Board
  PROVE  clear_lines(b) = Fallen(b)
<1> DEFINE n == 2 * TETRIS_ROWS
           S == {loop \in Loops : \E k \in Nat : Turned(loop, b, k)}
           first == [b |-> b, y |-> TETRIS_ROWS]
           Eq(w) == w = [k \in 0..n |-> IF k = 0 THEN first ELSE next_row(w[k - 1])]
           step == [k \in 1..n |-> [x \in S |-> next_row(x)]]
           after == CHOOSE w : Eq(w)
<1>1. n \in Nat /\ TETRIS_ROWS \in Nat
  BY TetrisSizes
<1>2. clear_lines(b) = after[n].b
  BY DEF clear_lines
<1>3. first \in S /\ Turned(first, b, 0)
  <2>1. full_below(b, TETRIS_ROWS) = 0
    <3>1. {z \in full_rows(b) : z > TETRIS_ROWS} = {}
      BY TetrisSizes DEF full_rows
    <3> QED
      BY <3>1, FS_EmptySet DEF full_below
  <2>2. first \in Loops /\ first.y = TETRIS_ROWS /\ first.b = b
    BY <1>1 DEF Loops
  <2> HIDE DEF first
  <2>3. \A k \in BoardRows : ~(k > TETRIS_ROWS) /\ k - 0 >= 1 /\ k - 0 = k
    BY TetrisSizes
  <2>4. Cleared(first, b, TETRIS_ROWS)
    BY <1>1, <2>1, <2>2, <2>3 DEF Cleared
  <2>5. TETRIS_ROWS + full_below(b, 0) - 0 + 0 <= 2 * TETRIS_ROWS
    <3>1. full_below(b, 0) <= TETRIS_ROWS /\ full_below(b, 0) \in Nat
      BY FullRowsBound, FullRowsCount
    <3> QED
      BY <1>1, <3>1
  <2>6. Turned(first, b, 0)
    BY <1>1, <2>1, <2>2, <2>4, <2>5 DEF Turned
  <2> QED
    BY <2>2, <2>6
<1>4. ASSUME NEW x \in S, NEW k \in Nat, Turned(x, b, k)
      PROVE  next_row(x) \in S /\ Turned(next_row(x), b, k + 1)
  <2>1. CASE x.y = 0
    <3>1. next_row(x) = x
      BY <2>1 DEF next_row
    <3>2. Turned(x, b, k + 1)
      BY <1>4, <2>1 DEF Turned
    <3> QED
      BY <3>1, <3>2
  <2>2. CASE x.y # 0
    <3>1. PICK o \in Int : /\ o <= TETRIS_ROWS /\ Cleared(x, b, o)
                           /\ x.y + full_below(b, 0) - full_below(b, o) + k <= 2 * TETRIS_ROWS
      BY <1>4, <2>2 DEF Turned
    <3> DEFINE y == next_row(x)
    <3>2. y \in Loops /\ Cleared(y, b, o - 1) /\ y.y = x.y - (IF o \in full_rows(b) THEN 0 ELSE 1)
      BY <2>2, <3>1, NextRow
    <3> HIDE DEF y
    <3>3. full_below(b, o - 1) = full_below(b, o) + (IF o \in full_rows(b) THEN 1 ELSE 0)
      BY FullRowsCount
    <3>4. full_below(b, o) \in Nat /\ full_below(b, 0) \in Nat /\ x.y \in Nat
      BY FullRowsCount DEF Loops
    <3>5. y.y + full_below(b, 0) - full_below(b, o - 1) + (k + 1) <= 2 * TETRIS_ROWS
      BY <1>1, <3>1, <3>2, <3>3, <3>4
    <3>6. o - 1 \in Int /\ o - 1 <= TETRIS_ROWS
      BY <1>1, <3>1
    <3>7. Turned(y, b, k + 1)
      BY <3>2, <3>5, <3>6 DEF Turned
    <3> QED
      BY <3>2, <3>7 DEF y
  <2> QED
    BY <2>1, <2>2
<1>5. \A x \in S : \E k \in Nat : Turned(x, b, k)
  OBVIOUS
<1>6. \A x \in S : x \in Loops
  OBVIOUS
<1> HIDE DEF n, S, first
<1>7. \A x \in S : next_row(x) \in S
  BY <1>4, <1>5
<1>8. step \in [1..n -> [S -> S]] /\ \A k \in 1..n, x \in S : step[k][x] = next_row(x)
  BY <1>7
<1> HIDE DEF step
<1>9. PICK w \in [0..n -> S] : Recurs(w, n, first, step)
  BY <1>1, <1>3, <1>8, RecursExist
<1>10. Eq(w)
  <2>1. \A k \in 0..n : w[k] = IF k = 0 THEN first ELSE next_row(w[k - 1])
    <3> TAKE k \in 0..n
    <3>1. w[k] = IF k = 0 THEN first ELSE step[k][w[k - 1]]
      BY <1>9 DEF Recurs
    <3>2. k # 0 => k \in 1..n /\ k - 1 \in 0..n
      BY <1>1
    <3> QED
      BY <3>1, <3>2, <1>8
  <2> QED
    BY <2>1
<1>11. Eq(after)
  BY <1>10
<1> HIDE DEF after
<1>12. after[0] = first /\ \A k \in 1..n : after[k] = next_row(after[k - 1])
  BY <1>1, <1>11
<1>13. \A k \in 0..n : after[k] \in S /\ Turned(after[k], b, k)
  <2> DEFINE pair == [k \in 0..n |-> <<k, after[k]>>]
             T == {p \in (0..n) \X S : Turned(p[2], b, p[1])}
  <2>1. pair[0] \in T
    BY <1>1, <1>3, <1>12
  <2>2. ASSUME NEW k \in 1..n, pair[k - 1] \in T PROVE pair[k] \in T
    <3>1. k - 1 \in 0..n /\ k \in 0..n /\ (k - 1) + 1 = k /\ k - 1 \in Nat
      BY <1>1
    <3>2. pair[k - 1] = <<k - 1, after[k - 1]>> /\ pair[k] = <<k, after[k]>>
      BY <3>1
    <3>3. after[k - 1] \in S /\ Turned(after[k - 1], b, k - 1)
      BY <2>2, <3>2
    <3>4. after[k] \in S /\ Turned(after[k], b, k)
      BY <3>1, <3>3, <1>4, <1>12
    <3> QED
      BY <3>1, <3>2, <3>4
  <2>3. \A k \in 0..n : pair[k] \in T
    <3> HIDE DEF pair, T
    <3> QED
      BY <1>1, <2>1, <2>2, RangeStays
  <2> QED
    BY <2>3
<1> DEFINE x == after[n]
<1>14. x \in Loops /\ Turned(x, b, n)
  BY <1>1, <1>6, <1>13
<1> HIDE DEF x
<1>15. PICK o \in Int : /\ Cleared(x, b, o)
                        /\ x.y = 0 \/ x.y + full_below(b, 0) - full_below(b, o) + n <= 2 * TETRIS_ROWS
  BY <1>14 DEF Turned
<1>16. x.y = 0
  <2>1. full_below(b, o) <= full_below(b, 0) /\ full_below(b, o) \in Nat /\ full_below(b, 0) \in Nat
    BY FullRowsBound, FullRowsCount
  <2>2. x.y \in Nat
    BY <1>14, <1>1 DEF Loops
  <2> QED
    BY <1>1, <1>15, <2>1, <2>2 DEF n
<1>17. \A k \in BoardRows : x.b[k] = Fallen(b)[k]
  <2>1. \A k \in BoardRows : k > 0
    BY TetrisSizes
  <2> QED
    BY <1>15, <1>16, <2>1 DEF Cleared
<1>18. x.b \in [BoardRows -> SUBSET BoardColumns] /\ Fallen(b) = [k \in BoardRows |-> Fallen(b)[k]]
  BY <1>14 DEF Loops, Board, Fallen
<1>19. x.b = Fallen(b)
  BY <1>17, <1>18
<1> QED
  BY <1>2, <1>19 DEF x

TetrisSpec == TetrisInit /\ [][TetrisNext]_tetris_vars

TetrisInv ==
  /\ board \in Board /\ piece \in DOMAIN PIECES /\ rot \in 1..4 /\ {tetris_on, over} \subseteq BOOLEAN
  /\ playing => fits(board, piece, rot, at)

\* A piece that fits locks into a board.
LEMMA LockIs ==
  ASSUME NEW b \in Board, NEW p, NEW r, NEW spot_at, fits(b, p, r, spot_at)
  PROVE  lock_piece(b, p, r, spot_at) \in Board
<1>1. \A c \in cells_of(p, r, spot_at) : c[1] \in BoardColumns
  BY DEF fits
<1>2. \A y \in BoardRows : b[y] \cup {c[1] : c \in {d \in cells_of(p, r, spot_at) : d[2] = y}} \in SUBSET BoardColumns
  BY <1>1 DEF Board
<1> QED
  BY <1>2 DEF lock_piece, Board

\* Clearing a board leaves a board.
LEMMA ClearTyped ==
  ASSUME NEW b \in Board
  PROVE  clear_lines(b) \in Board
<1>1. \A y \in BoardRows : Fallen(b)[y] \in SUBSET BoardColumns
  <2> TAKE y \in BoardRows
  <2>1. \A z \in BoardRows : b[z] \in SUBSET BoardColumns
    BY DEF Board
  <2> QED
    BY <2>1 DEF Fallen
<1>2. Fallen(b) = [y \in BoardRows |-> Fallen(b)[y]]
  BY DEF Fallen
<1>3. Fallen(b) \in Board
  BY <1>1, <1>2 DEF Board
<1> QED
  BY <1>3, ClearTakesFullRows

\* The empty board is a board.
LEMMA EmptyBoardIs == EmptyBoard \in Board
  BY DEF EmptyBoard, Board

\* A piece on a board leaves it as it is, and plays on only if it fits.
LEMMA SpawnIs ==
  ASSUME NEW b \in Board, spawn(b)
  PROVE  TetrisInv' /\ board' = b /\ (playing' => fits(board', piece', rot', at'))
<1>1. PICK p \in Drawn : piece' = p /\ over' = ~fits(b, p, 1, Start)
  BY DEF spawn
<1>2. tetris_on' = TRUE /\ board' = b /\ rot' = 1 /\ at' = Start
  BY DEF spawn
<1>3. p \in DOMAIN PIECES
  BY TetrisSizes
<1>4. over' \in BOOLEAN
  BY <1>1
<1>5. playing' => fits(board', piece', rot', at')
  <2>1. playing' => fits(b, p, 1, Start)
    BY <1>1 DEF playing
  <2>2. board' = b /\ piece' = p /\ rot' = 1 /\ at' = Start
    BY <1>1, <1>2
  <2> QED
    BY <2>1, <2>2
<1>6. TetrisInv'
  BY <1>1, <1>2, <1>3, <1>4, <1>5 DEF TetrisInv
<1> QED
  BY <1>2, <1>5, <1>6

\* A move is only to where the piece fits, on the board as it is.
LEMMA MoveIs ==
  ASSUME TetrisInv, NEW r \in 1..4, NEW spot_at, move(r, spot_at)
  PROVE  TetrisInv' /\ board' = board /\ (playing' => fits(board', piece', rot', at'))
<1>1. /\ fits(board, piece, r, spot_at) /\ rot' = r /\ at' = spot_at
      /\ tetris_on' = tetris_on /\ board' = board /\ piece' = piece /\ over' = over
  BY DEF move
<1>2. fits(board', piece', rot', at')
  BY <1>1
<1>3. TetrisInv'
  BY <1>1, <1>2 DEF TetrisInv
<1> QED
  BY <1>1, <1>2, <1>3

\* What a step does to the board and to the piece in play.
BoardStep ==
  /\ (playing /\ playing') => fits(board', piece', rot', at')
  /\ (playing /\ tetris_on' /\ board' # board) => board' = Fallen(lock_piece(board, piece, rot, at))

\* A step of the game keeps the invariant, and lands a piece as it should.
LEMMA TetrisSteps ==
  ASSUME TetrisInv, TetrisNext
  PROVE  TetrisInv' /\ BoardStep
<1>1. board \in Board /\ rot \in 1..4 /\ (playing => fits(board, piece, rot, at)) /\ (rot % 4) + 1 \in 1..4
  <2>1. rot \in 1..4
    BY DEF TetrisInv
  <2>2. (rot % 4) + 1 \in 1..4
    BY <2>1
  <2> QED
    BY <2>1, <2>2 DEF TetrisInv
<1>2. ASSUME NEW r \in 1..4, NEW spot_at, move(r, spot_at) PROVE TetrisInv' /\ BoardStep
  BY <1>2, MoveIs DEF BoardStep
<1>3. CASE reset
  <2>1. ~playing /\ spawn(EmptyBoard)
    BY <1>3 DEF reset, playing
  <2> QED
    BY <2>1, EmptyBoardIs, SpawnIs DEF BoardStep
<1>4. CASE Left
  BY <1>1, <1>2, <1>4 DEF Left
<1>5. CASE MoveRight
  BY <1>1, <1>2, <1>5 DEF MoveRight
<1>6. CASE Turn
  BY <1>1, <1>2, <1>6 DEF Turn
<1>7. CASE Fall
  BY <1>1, <1>2, <1>7 DEF Fall
<1>8. CASE Land
  <2> DEFINE locked == lock_piece(board, piece, rot, at)
  <2>1. playing /\ spawn(clear_lines(locked))
    BY <1>8 DEF Land
  <2>2. locked \in Board
    BY <1>1, <2>1, LockIs
  <2> HIDE DEF locked
  <2>3. clear_lines(locked) = Fallen(locked)
    BY <2>2, ClearTakesFullRows
  <2>4. clear_lines(locked) \in Board
    BY <2>2, ClearTyped
  <2>5. TetrisInv' /\ board' = clear_lines(locked) /\ (playing' => fits(board', piece', rot', at'))
    BY <2>1, <2>4, SpawnIs
  <2> QED
    BY <2>3, <2>5 DEF BoardStep, locked
<1>9. CASE leave_tetris
  <2>1. tetris_on' = FALSE /\ board' = EmptyBoard /\ piece' = "I" /\ rot' = 1 /\ over' = FALSE
    BY <1>9 DEF leave_tetris
  <2>2. ~playing'
    BY <2>1 DEF playing
  <2>3. "I" \in DOMAIN PIECES
    BY DEF PIECES
  <2>4. {tetris_on', over'} \subseteq BOOLEAN /\ rot' \in 1..4
    <3>1. {FALSE, FALSE} \subseteq BOOLEAN /\ 1 \in 1..4
      OBVIOUS
    <3> QED
      BY <2>1, <3>1
  <2>5. TetrisInv'
    BY <2>1, <2>2, <2>3, <2>4, EmptyBoardIs DEF TetrisInv
  <2> QED
    BY <2>1, <2>2, <2>5 DEF BoardStep, playing
<1> QED
  BY <1>3, <1>4, <1>5, <1>6, <1>7, <1>8, <1>9 DEF TetrisNext

\* Every step of the game keeps the invariant.
LEMMA TetrisKeeps == TetrisSpec => []TetrisInv
<1>1. TetrisInit => TetrisInv
  <2>1. "I" \in DOMAIN PIECES
    BY DEF PIECES
  <2>2. ASSUME TetrisInit PROVE TetrisInv
    <3>1. tetris_on = FALSE /\ board = EmptyBoard /\ piece = "I" /\ rot = 1 /\ over = FALSE
      BY <2>2 DEF TetrisInit
    <3>2. {FALSE, FALSE} \subseteq BOOLEAN /\ 1 \in 1..4
      OBVIOUS
    <3>3. {tetris_on, over} \subseteq BOOLEAN /\ rot \in 1..4
      BY <3>1, <3>2
    <3>4. ~playing
      BY <3>1 DEF playing
    <3> QED
      BY <2>1, <3>1, <3>3, <3>4, EmptyBoardIs DEF TetrisInv
  <2> QED
    BY <2>2
<1>2. TetrisInv /\ [TetrisNext]_tetris_vars => TetrisInv'
  <2>1. ASSUME TetrisInv, UNCHANGED tetris_vars PROVE TetrisInv'
    BY <2>1 DEF TetrisInv, tetris_vars, playing
  <2> QED
    BY <2>1, TetrisSteps
<1> QED
  BY <1>1, <1>2, PTL DEF TetrisSpec

\* On a board of any size a landing takes away exactly the rows that are full,
\* and no other step changes the board under a piece in play, which always lies
\* on empty ground inside the board (tetris.c:57-75, 97-130).
THEOREM LandingTakesRows == TetrisSpec => LandingTakesFullRows
<1>1. TetrisInv /\ [TetrisNext]_tetris_vars => [BoardStep]_tetris_vars
  BY TetrisSteps
<1>2. [][BoardStep]_tetris_vars <=> LandingTakesFullRows
  BY DEF LandingTakesFullRows, BoardStep
<1> QED
  BY <1>1, <1>2, TetrisKeeps, PTL DEF TetrisSpec

\* Nothing joined is nothing, one sequence is itself, and two lots of them are
\* joined lot by lot.
LEMMA FlattenNone == FlattenSeq(<<>>) = <<>>
  BY DEF FlattenSeq

\* Two lots of sequences are joined lot by lot.
LEMMA FlattenJoined ==
  ASSUME NEW S, NEW s \in Seq(Seq(S)), NEW r \in Seq(Seq(S))
  PROVE  FlattenSeq(s \o r) = FlattenSeq(s) \o FlattenSeq(r)
<1> DEFINE m == Len(s)
           n == Len(r)
           both == s \o r
           T == Seq(S)
<1>1. m \in Nat /\ n \in Nat /\ both \in Seq(T) /\ Len(both) = m + n
  BY Joined
<1>2. (\A i \in 1..m : both[i] = s[i]) /\ (\A i \in 1..n : both[m + i] = r[i])
  BY Joined
<1>3. PICK f : FlattenedBy(f, S, s) /\ FlattenSeq(s) = f[m]
  BY FlattenWalk
<1>4. PICK g : FlattenedBy(g, S, r) /\ FlattenSeq(r) = g[n]
  BY FlattenWalk
<1>5. PICK h : FlattenedBy(h, S, both) /\ FlattenSeq(both) = h[m + n]
  BY <1>1, FlattenWalk
<1>6. f \in [0..m -> T] /\ f[0] = <<>> /\ \A i \in 1..m : f[i] = f[i - 1] \o s[i]
  BY <1>3 DEF FlattenedBy
<1>7. g \in [0..n -> T] /\ g[0] = <<>> /\ \A i \in 1..n : g[i] = g[i - 1] \o r[i]
  BY <1>4 DEF FlattenedBy
<1>8. h[0] = <<>> /\ \A i \in 1..(m + n) : h[i] = h[i - 1] \o both[i]
  BY <1>5, <1>1 DEF FlattenedBy
<1>9. \A i \in 1..n : r[i] \in T
  BY LenProperties
<1> HIDE DEF m, n, both, T
<1>10. h[m] = f[m]
  <2> DEFINE same == [i \in 0..m |-> <<i, f[i]>>]
             Fine == {p \in (0..m) \X T : h[p[1]] = p[2]}
  <2>1. same[0] \in Fine
    BY <1>1, <1>6, <1>8
  <2>2. ASSUME NEW i \in 1..m, same[i - 1] \in Fine PROVE same[i] \in Fine
    <3>1. i \in 0..m /\ i - 1 \in 0..m /\ i \in 1..(m + n)
      BY <1>1
    <3>2. h[i - 1] = f[i - 1]
      BY <2>2, <3>1
    <3>3. h[i] = f[i] /\ f[i] \in T
      BY <3>1, <3>2, <1>2, <1>6, <1>8
    <3> QED
      BY <3>1, <3>3
  <2> HIDE DEF same, Fine
  <2>3. \A i \in 0..m : same[i] \in Fine
    BY <1>1, <2>1, <2>2, RangeStays
  <2>4. m \in 0..m
    BY <1>1
  <2>5. same[m] \in Fine /\ same[m] = <<m, f[m]>>
    BY <2>3, <2>4 DEF same
  <2> QED
    BY <2>5 DEF Fine
<1>11. \A i \in 0..n : h[m + i] = f[m] \o g[i]
  <2> DEFINE same == [i \in 0..n |-> <<i, g[i]>>]
             Fine == {p \in (0..n) \X T : h[m + p[1]] = f[m] \o p[2]}
  <2>1. f[m] \in T /\ <<>> \in T /\ f[m] \o <<>> = f[m]
    BY <1>1, <1>6, ConcatEmptySeq, EmptySeq DEF T
  <2>2. same[0] \in Fine
    <3>1. m + 0 = m /\ 0 \in 0..n
      BY <1>1
    <3> QED
      BY <3>1, <2>1, <1>7, <1>10
  <2>3. ASSUME NEW i \in 1..n, same[i - 1] \in Fine PROVE same[i] \in Fine
    <3>1. i \in 0..n /\ i - 1 \in 0..n /\ m + i \in 1..(m + n) /\ (m + i) - 1 = m + (i - 1)
      BY <1>1
    <3>2. h[m + (i - 1)] = f[m] \o g[i - 1]
      BY <2>3, <3>1
    <3>3. h[m + i] = (f[m] \o g[i - 1]) \o r[i]
      BY <3>1, <3>2, <1>2, <1>8
    <3>4. g[i] = g[i - 1] \o r[i] /\ g[i - 1] \in T /\ r[i] \in T
      BY <3>1, <1>7, <1>9
    <3> DEFINE a == f[m]
               b == g[i - 1]
               c == r[i]
    <3>5. a \in T /\ b \in T /\ c \in T
      BY <2>1, <3>4
    <3> HIDE DEF a, b, c
    <3>6. (a \o b) \o c = a \o (b \o c)
      BY <3>5, ConcatAssociative DEF T
    <3>7. h[m + i] = f[m] \o g[i]
      BY <3>3, <3>4, <3>6 DEF a, b, c
    <3>8. g[i] \in T
      BY <3>1, <1>7
    <3> QED
      BY <3>1, <3>7, <3>8
  <2> HIDE DEF same, Fine
  <2>4. \A i \in 0..n : same[i] \in Fine
    BY <1>1, <2>2, <2>3, RangeStays
  <2> QED
    BY <2>4 DEF same, Fine
<1>12. h[m + n] = f[m] \o g[n]
  <2>1. n \in 0..n
    BY <1>1
  <2> QED
    BY <1>11, <2>1
<1> QED
  BY <1>3, <1>4, <1>5, <1>12 DEF both

\* One sequence joined is itself.
LEMMA FlattenOne ==
  ASSUME NEW S, NEW x \in Seq(S)
  PROVE  FlattenSeq(<<x>>) = x
<1>1. <<x>> \in Seq(Seq(S)) /\ Len(<<x>>) = 1 /\ <<x>>[1] = x
  OBVIOUS
<1>2. PICK f : FlattenedBy(f, S, <<x>>) /\ FlattenSeq(<<x>>) = f[1]
  BY <1>1, FlattenWalk
<1>3. f[0] = <<>> /\ \A i \in 1..1 : f[i] = f[i - 1] \o <<x>>[i]
  <2>1. f[0] = <<>> /\ \A i \in 1..Len(<<x>>) : f[i] = f[i - 1] \o <<x>>[i]
    BY <1>2 DEF FlattenedBy
  <2> QED
    BY <2>1, <1>1
<1>4. <<>> \o x = x
  BY ConcatEmptySeq
<1>5. 1 \in 1..1 /\ 1 - 1 = 0
  OBVIOUS
<1>6. f[1] = f[0] \o x
  BY <1>1, <1>3, <1>5
<1> QED
  BY <1>2, <1>3, <1>4, <1>6

\* A sequence cut in two and joined again, and two joined cut where they meet.
LEMMA CutInTwo ==
  ASSUME NEW S, NEW s \in Seq(S), NEW k \in 0..Len(s)
  PROVE  /\ SubSeq(s, 1, k) \in Seq(S) /\ SubSeq(s, k + 1, Len(s)) \in Seq(S)
         /\ Len(SubSeq(s, 1, k)) = k /\ Len(SubSeq(s, k + 1, Len(s))) = Len(s) - k
         /\ SubSeq(s, 1, k) \o SubSeq(s, k + 1, Len(s)) = s
<1> DEFINE n == Len(s)
           a == SubSeq(s, 1, k)
           b == SubSeq(s, k + 1, n)
<1>1. n \in Nat /\ k \in Nat /\ k <= n /\ \A i \in 1..n : s[i] \in S
  BY LenProperties, ElementOfSeq
<1>2. a \in Seq(S) /\ Len(a) = k /\ \A i \in 1..k : a[i] = s[i]
  BY <1>1
<1>3. b \in Seq(S) /\ Len(b) = n - k /\ \A i \in 1..(n - k) : b[i] = s[k + i]
  BY <1>1
<1> HIDE DEF a, b
<1>4. a \o b \in Seq(S) /\ Len(a \o b) = k + (n - k)
  BY <1>2, <1>3, Joined
<1>9. \A j \in 1..Len(b) : (a \o b)[Len(a) + j] = b[j]
  BY <1>2, <1>3, Joined
<1>5. ASSUME NEW i \in 1..n PROVE (a \o b)[i] = s[i]
  <2>1. CASE i <= k
    <3>1. i \in 1..k /\ i \in 1..Len(a)
      BY <1>1, <1>2, <2>1
    <3>2. (a \o b)[i] = a[i]
      BY <1>2, <1>3, <3>1, Joined
    <3> QED
      BY <1>2, <3>1, <3>2
  <2>2. CASE i > k
    <3>1. i - k \in 1..(n - k) /\ k + (i - k) = i /\ i - k \in 1..Len(b)
      BY <1>1, <1>3, <2>2
    <3>2. (a \o b)[Len(a) + (i - k)] = b[i - k]
      BY <1>9, <3>1
    <3> QED
      BY <1>2, <1>3, <3>1, <3>2
  <2>3. i \in Int /\ k \in Int
    BY <1>1
  <2>4. i <= k \/ i > k
    BY <2>3
  <2> QED
    BY <2>1, <2>2, <2>4
<1>6. Len(a \o b) = n
  BY <1>1, <1>4
<1> DEFINE ab == a \o b
<1>7. ab \in Seq(S) /\ Len(ab) = Len(s) /\ \A i \in 1..Len(s) : ab[i] = s[i]
  BY <1>4, <1>5, <1>6
<1> HIDE DEF ab
<1>8. ab = s
  BY <1>7, SeqEqual
<1> QED
  BY <1>2, <1>3, <1>8 DEF a, b, ab

\* Two sequences joined are cut apart where they meet.
LEMMA CutWhereTheyMeet ==
  ASSUME NEW S, NEW a \in Seq(S), NEW b \in Seq(S)
  PROVE  /\ SubSeq(a \o b, 1, Len(a)) = a /\ SubSeq(a \o b, Len(a) + 1, Len(a \o b)) = b
         /\ Len(a \o b) = Len(a) + Len(b)
<1> DEFINE s == a \o b
           m == Len(a)
           n == Len(b)
           p == SubSeq(s, 1, m)
           q == SubSeq(s, m + 1, Len(s))
<1>1. m \in Nat /\ n \in Nat /\ s \in Seq(S) /\ Len(s) = m + n /\ m \in 0..Len(s)
  BY Joined
<1>2. (\A i \in 1..m : s[i] = a[i]) /\ (\A i \in 1..n : s[m + i] = b[i])
  BY Joined
<1> HIDE DEF s
<1>3. p \in Seq(S) /\ Len(p) = m /\ q \in Seq(S) /\ Len(q) = Len(s) - m
  BY <1>1, CutInTwo
<1>4. Len(q) = n
  BY <1>1, <1>3
<1>5. \A i \in 1..m : p[i] = a[i]
  BY <1>1, <1>2
<1>6. \A i \in 1..n : q[i] = b[i]
  BY <1>1, <1>2
<1> HIDE DEF p, q
<1>7. p = a
  BY <1>3, <1>5, SeqEqual DEF m
<1>8. q = b
  BY <1>3, <1>4, <1>6, SeqEqual DEF n
<1> QED
  BY <1>1, <1>7, <1>8 DEF p, q, s, m, n

\* Something put in where two sequences meet, and taken out again.
LEMMA OnePutIn ==
  ASSUME NEW S, NEW h \in Seq(S), NEW t \in Seq(S), NEW c \in S
  PROVE  InsertAt(h \o t, Len(h) + 1, c) = (h \o <<c>>) \o t
<1>1. Len(h) \in Nat /\ (Len(h) + 1) - 1 = Len(h)
  BY LenProperties
<1>2. InsertAt(h \o t, Len(h) + 1, c)
        = SubSeq(h \o t, 1, (Len(h) + 1) - 1) \o <<c>> \o SubSeq(h \o t, Len(h) + 1, Len(h \o t))
  BY DEF InsertAt
<1>3. /\ SubSeq(h \o t, 1, (Len(h) + 1) - 1) = h
      /\ SubSeq(h \o t, Len(h) + 1, Len(h \o t)) = t
  <2>1. SubSeq(h \o t, 1, Len(h)) = h /\ SubSeq(h \o t, Len(h) + 1, Len(h \o t)) = t
    BY CutWhereTheyMeet
  <2> QED
    BY <1>1, <2>1
<1> QED
  BY <1>2, <1>3

\* What was put in between two sequences is taken out again.
LEMMA TakenOut ==
  ASSUME NEW S, NEW h \in Seq(S), NEW t \in Seq(S), NEW c \in S
  PROVE  RemoveAt((h \o <<c>>) \o t, Len(h) + 1) = h \o t
<1> DEFINE one == <<c>>
           hc == h \o one
           s == hc \o t
<1>1. one \in Seq(S) /\ Len(one) = 1 /\ Len(h) \in Nat
  BY LenProperties
<1> HIDE DEF one
<1>2. hc \in Seq(S) /\ Len(hc) = Len(h) + 1
  <2>1. hc \in Seq(S) /\ Len(hc) = Len(h) + Len(one)
    BY <1>1, Joined
  <2> QED
    BY <1>1, <2>1
<1>3. hc \o t = h \o (one \o t) /\ one \o t \in Seq(S)
  BY <1>1, ConcatAssociative, Joined
<1>4. SubSeq(s, Len(hc) + 1, Len(s)) = t
  BY <1>2, CutWhereTheyMeet
<1>5. SubSeq(s, 1, Len(h)) = h
  BY <1>3, CutWhereTheyMeet
<1>6. RemoveAt(s, Len(h) + 1) = SubSeq(s, 1, (Len(h) + 1) - 1) \o SubSeq(s, (Len(h) + 1) + 1, Len(s))
  BY DEF RemoveAt
<1>7. (Len(h) + 1) - 1 = Len(h)
  BY <1>1
<1> HIDE DEF hc
<1>8. RemoveAt(s, Len(h) + 1) = h \o t
  BY <1>2, <1>4, <1>5, <1>6, <1>7
<1> QED
  BY <1>8 DEF hc, one

\* The characters of a document, and its lines.
Chars == Letters \cup {LineEnd}
DocLines == Seq(Seq(Chars))
\* The lines as they stand in the file: every one but the first has the line's
\* end before it.
led(lines) == [i \in DOMAIN lines |-> IF i = 1 THEN lines[i] ELSE <<LineEnd>> \o lines[i]]
ended(more) == [i \in DOMAIN more |-> <<LineEnd>> \o more[i]]
all_text(lines) == FlattenSeq(led(lines))
under(more) == FlattenSeq(ended(more))

\* Both are sequences of texts.
LEMMA TextsOf ==
  ASSUME NEW lines \in DocLines
  PROVE  /\ led(lines) \in DocLines /\ Len(led(lines)) = Len(lines)
         /\ ended(lines) \in DocLines /\ Len(ended(lines)) = Len(lines)
         /\ \A i \in 1..Len(lines) :
              /\ led(lines)[i] = IF i = 1 THEN lines[i] ELSE <<LineEnd>> \o lines[i]
              /\ ended(lines)[i] = <<LineEnd>> \o lines[i]
         /\ all_text(lines) \in Seq(Chars) /\ under(lines) \in Seq(Chars)
<1> DEFINE n == Len(lines)
           T == Seq(Chars)
           one == <<LineEnd>>
<1>1. n \in Nat /\ DOMAIN lines = 1..n /\ (\A i \in 1..n : lines[i] \in T)
  BY LenProperties, ElementOfSeq DEF DocLines
<1>2. one \in T
  BY DEF Chars
<1> HIDE DEF T, one
<1>3. \A i \in 1..n : one \o lines[i] \in T
  BY <1>1, <1>2, ConcatProperties DEF T
<1>4. led(lines) = [i \in 1..n |-> IF i = 1 THEN lines[i] ELSE one \o lines[i]]
  BY <1>1 DEF led, one
<1>5. ended(lines) = [i \in 1..n |-> one \o lines[i]]
  BY <1>1 DEF ended, one
<1> HIDE DEF n
<1>6. led(lines) \in Seq(T) /\ Len(led(lines)) = n
  BY <1>1, <1>3, <1>4
<1>7. ended(lines) \in Seq(T) /\ Len(ended(lines)) = n
  <2>1. ended(lines) \in [1..n -> T]
    BY <1>3, <1>5
  <2> QED
    BY <2>1, <1>1
<1>8. all_text(lines) \in Seq(Chars) /\ under(lines) \in Seq(Chars)
  BY <1>6, <1>7, FlattenIs DEF T, all_text, under
<1>9. \A i \in 1..n : /\ led(lines)[i] = IF i = 1 THEN lines[i] ELSE one \o lines[i]
                      /\ ended(lines)[i] = one \o lines[i]
  BY <1>4, <1>5
<1> QED
  BY <1>6, <1>7, <1>8, <1>9 DEF n, T, DocLines, one

\* The text of lines that stand above more of them.
LEMMA TextAbove ==
  ASSUME NEW lines \in DocLines, NEW more \in DocLines, lines # <<>>
  PROVE  all_text(lines \o more) = all_text(lines) \o under(more)
<1> DEFINE m == Len(lines)
           n == Len(more)
           both == lines \o more
           f == led(both)
           g == led(lines) \o ended(more)
<1>1. m \in Nat /\ n \in Nat /\ m # 0
  BY LenProperties, EmptySeq DEF DocLines
<1>2. both \in DocLines /\ Len(both) = m + n
  BY Joined DEF DocLines
<1>3. (\A i \in 1..m : both[i] = lines[i]) /\ (\A i \in 1..n : both[m + i] = more[i])
  BY Joined DEF DocLines
<1> HIDE DEF both
<1>4. f \in DocLines /\ Len(f) = m + n
      /\ \A i \in 1..(m + n) : f[i] = IF i = 1 THEN both[i] ELSE <<LineEnd>> \o both[i]
  BY <1>2, TextsOf
<1>5. led(lines) \in DocLines /\ Len(led(lines)) = m /\ ended(more) \in DocLines /\ Len(ended(more)) = n
  BY TextsOf
<1>6. g \in DocLines /\ Len(g) = m + n
  <2> DEFINE x == led(lines)
             y == ended(more)
  <2>1. x \in DocLines /\ y \in DocLines /\ Len(x) = m /\ Len(y) = n
    BY <1>5
  <2> HIDE DEF x, y, m, n
  <2>2. x \o y \in DocLines /\ Len(x \o y) = Len(x) + Len(y)
    BY <2>1, Joined DEF DocLines
  <2> QED
    BY <2>1, <2>2 DEF x, y
<1>7. \A i \in 1..m : g[i] = led(lines)[i]
  <2> DEFINE x == led(lines)
             y == ended(more)
  <2>1. x \in DocLines /\ y \in DocLines /\ Len(x) = m /\ Len(y) = n
    BY <1>5
  <2> HIDE DEF x, y, m, n
  <2>2. \A i \in 1..Len(x) : (x \o y)[i] = x[i]
    BY <2>1, Joined DEF DocLines
  <2>3. \A i \in 1..m : (x \o y)[i] = x[i]
    BY <2>1, <2>2
  <2> QED
    BY <2>3 DEF x, y
<1>8. \A i \in 1..n : g[m + i] = ended(more)[i]
  <2> DEFINE x == led(lines)
             y == ended(more)
  <2>1. x \in DocLines /\ y \in DocLines /\ Len(x) = m /\ Len(y) = n
    BY <1>5
  <2> HIDE DEF x, y, m, n
  <2>2. \A i \in 1..Len(y) : (x \o y)[Len(x) + i] = y[i]
    BY <2>1, Joined DEF DocLines
  <2>3. \A i \in 1..n : (x \o y)[m + i] = y[i]
    BY <2>1, <2>2
  <2> QED
    BY <2>3 DEF x, y
<1>9. ASSUME NEW i \in 1..(m + n) PROVE f[i] = g[i]
  <2>1. CASE i \in 1..m
    <3>1. led(lines)[i] = IF i = 1 THEN lines[i] ELSE <<LineEnd>> \o lines[i]
      BY <2>1, TextsOf
    <3> HIDE DEF f, g
    <3> QED
      BY <2>1, <3>1, <1>3, <1>4, <1>7
  <2>2. CASE i \notin 1..m
    <3> DEFINE j == i - m
    <3>1. j \in 1..n /\ m + j = i /\ i # 1
      BY <1>1, <2>2
    <3> HIDE DEF j
    <3>2. ended(more)[j] = <<LineEnd>> \o more[j]
      BY <3>1, TextsOf
    <3>3. both[i] = more[j] /\ g[i] = ended(more)[j]
      BY <3>1, <1>3, <1>8
    <3> HIDE DEF f, g
    <3>4. f[i] = <<LineEnd>> \o both[i]
      BY <3>1, <1>4
    <3> QED
      BY <3>2, <3>3, <3>4
  <2> QED
    BY <2>1, <2>2
<1> HIDE DEF f, g
<1>10. f = g
  BY <1>4, <1>6, <1>9, SeqEqual DEF DocLines
<1>11. FlattenSeq(g) = FlattenSeq(led(lines)) \o FlattenSeq(ended(more))
  BY <1>5, FlattenJoined DEF g, DocLines
<1> QED
  BY <1>10, <1>11 DEF f, both, all_text, under

\* A line under others, and more written at the end of the last line.
LEMMA TextOfLast ==
  ASSUME NEW lines \in DocLines, NEW b \in Seq(Chars)
  PROVE  /\ lines # <<>> => all_text(lines \o <<b>>) = all_text(lines) \o (<<LineEnd>> \o b)
         /\ lines = <<>> => all_text(lines \o <<b>>) = b
<1> DEFINE lone == <<b>>
           one == <<LineEnd>>
<1>1. lone \in DocLines /\ lone # <<>>
  BY DEF DocLines
<1>2. one \in Seq(Chars)
  BY DEF Chars
<1>3. led(lone) = <<b>>
  BY DEF led
<1>4. ended(lone) = <<one \o b>>
  BY DEF ended
<1> HIDE DEF one
<1>5. one \o b \in Seq(Chars)
  BY <1>2, ConcatProperties
<1>6. all_text(lone) = b /\ under(lone) = one \o b
  BY <1>3, <1>4, <1>5, FlattenOne DEF all_text, under
<1> HIDE DEF lone
<1>7. lines # <<>> => all_text(lines \o lone) = all_text(lines) \o under(lone)
  BY <1>1, TextAbove
<1>8. lines = <<>> => lines \o lone = lone
  BY <1>1, ConcatEmptySeq DEF DocLines
<1> QED
  BY <1>6, <1>7, <1>8 DEF lone, one

\* What is written at the end of the last line stands at the end of the text.
LEMMA TextGoesOn ==
  ASSUME NEW lines \in DocLines, NEW b \in Seq(Chars), NEW a \in Seq(Chars)
  PROVE  all_text(lines \o <<b \o a>>) = all_text(lines \o <<b>>) \o a
<1>1. b \o a \in Seq(Chars)
  BY ConcatProperties
<1>2. CASE lines = <<>>
  BY <1>1, <1>2, TextOfLast
<1>3. CASE lines # <<>>
  <2> DEFINE one == <<LineEnd>>
             whole == all_text(lines)
  <2>1. one \in Seq(Chars) /\ whole \in Seq(Chars)
    BY TextsOf DEF Chars
  <2>2. all_text(lines \o <<b \o a>>) = whole \o (one \o (b \o a))
    BY <1>1, <1>3, TextOfLast
  <2>3. all_text(lines \o <<b>>) = whole \o (one \o b)
    BY <1>3, TextOfLast
  <2> HIDE DEF one, whole
  <2>4. one \o (b \o a) = (one \o b) \o a /\ one \o b \in Seq(Chars)
    BY <2>1, ConcatAssociative, ConcatProperties
  <2>5. whole \o ((one \o b) \o a) = (whole \o (one \o b)) \o a
    BY <2>1, <2>4, ConcatAssociative
  <2> QED
    BY <2>2, <2>3, <2>4, <2>5
<1> QED
  BY <1>2, <1>3

\* The document, taken apart where the cursor is: the lines over its line, what
\* is before the cursor and after it, and the lines under.
DocType ==
  [lines : DocLines, cursor_line : Int, cursor_column : Int, top_line : Int,
   visible_lines : Int, changed : BOOLEAN]
Parted(e, up, b, a, down) ==
  /\ e \in DocType
  /\ up \in DocLines /\ b \in Seq(Chars) /\ a \in Seq(Chars) /\ down \in DocLines
  /\ e.lines = (up \o <<b \o a>>) \o down
  /\ e.cursor_line = Len(up) + 1 /\ e.cursor_column = Len(b)
CursorIn(e) ==
  /\ e \in DocType
  /\ e.cursor_line \in 1..Len(e.lines) /\ e.cursor_column \in 0..Len(e.lines[e.cursor_line])

\* A sequence and one more.
LEMMA OneMore ==
  ASSUME NEW S, NEW s \in Seq(S), NEW x \in S
  PROVE  /\ s \o <<x>> \in Seq(S) /\ Len(s \o <<x>>) = Len(s) + 1 /\ (s \o <<x>>)[Len(s) + 1] = x
         /\ \A i \in 1..Len(s) : (s \o <<x>>)[i] = s[i]
<1>1. s \o <<x>> = Append(s, x)
  OBVIOUS
<1>2. Append(s, x) \in Seq(S) /\ Len(Append(s, x)) = Len(s) + 1
  BY AppendProperties
<1>3. Append(s, x)[Len(s) + 1] = x /\ \A i \in 1..Len(s) : Append(s, x)[i] = s[i]
  BY AppendProperties
<1> QED
  BY <1>1, <1>2, <1>3

\* The lines of a document taken apart.
PartsOf(doc, up, x, down, k) ==
  /\ up \o <<x>> \in DocLines /\ Len(up \o <<x>>) = k /\ k \in Nat
  /\ doc \in DocLines /\ Len(doc) = k + Len(down)
  /\ k \in DOMAIN doc /\ doc[k] = x
  /\ SubSeq(doc, 1, k - 1) = up /\ SubSeq(doc, k + 1, Len(doc)) = down
\* The lines of a document are those over the cursor, its own, and those under.
LEMMA PartedLines ==
  ASSUME NEW up \in DocLines, NEW x \in Seq(Chars), NEW down \in DocLines
  PROVE  PartsOf((up \o <<x>>) \o down, up, x, down, Len(up) + 1)
<1> DEFINE T == Seq(Chars)
           one == <<x>>
           m == Len(up)
           n == Len(down)
           k == m + 1
           top == up \o one
           all == top \o down
<1>1. up \in Seq(T) /\ down \in Seq(T) /\ one \in Seq(T) /\ Len(one) = 1 /\ one[1] = x
  BY DEF DocLines
<1>2. m \in Nat /\ n \in Nat /\ k \in Nat /\ k - 1 = m
  BY <1>1, LenProperties
<1> HIDE DEF T, one
<1>3. top \in Seq(T) /\ Len(top) = k
  BY <1>1, OneMore DEF T, one
<1>4. top[k] = x
  BY <1>1, OneMore DEF T, one
<1>5. all = up \o (one \o down) /\ one \o down \in Seq(T)
  BY <1>1, ConcatAssociative, ConcatProperties
<1>6. SubSeq(all, 1, m) = up
  BY <1>1, <1>5, CutWhereTheyMeet
<1> HIDE DEF top
<1>7. SubSeq(all, Len(top) + 1, Len(all)) = down /\ Len(all) = Len(top) + Len(down)
  BY <1>1, <1>3, CutWhereTheyMeet
<1>8. all \in Seq(T) /\ \A i \in 1..Len(top) : all[i] = top[i]
  BY <1>1, <1>3, Joined
<1>9. k \in 1..Len(top)
  BY <1>2, <1>3
<1>10. all[k] = x
  BY <1>4, <1>8, <1>9
<1> HIDE DEF all
<1>11. k \in DOMAIN all
  <2>1. DOMAIN all = 1..Len(all)
    BY <1>8, LenProperties
  <2>2. k \in 1..Len(all)
    BY <1>2, <1>3, <1>7
  <2> QED
    BY <2>1, <2>2
<1> HIDE DEF k
<1>12. SubSeq(all, 1, k - 1) = up
  BY <1>2, <1>6
<1>13. SubSeq(all, k + 1, Len(all)) = down /\ Len(all) = k + Len(down)
  BY <1>3, <1>7
<1>14. PartsOf(all, up, x, down, k)
  BY <1>2, <1>3, <1>8, <1>10, <1>11, <1>12, <1>13 DEF PartsOf, top, one, T, DocLines
<1> QED
  BY <1>14 DEF all, top, one, k, m

\* Every document with its cursor in it can be taken apart so.
LEMMA CanBeParted ==
  ASSUME NEW e, CursorIn(e)
  PROVE  \E up, b, a, down : Parted(e, up, b, a, down)
<1> DEFINE T == Seq(Chars)
           s == e.lines
           k == e.cursor_line
           c == e.cursor_column
           n == Len(s)
           x == s[k]
           up == SubSeq(s, 1, k - 1)
           rest == SubSeq(s, k, n)
           down == SubSeq(s, k + 1, n)
           b == SubSeq(x, 1, c)
           a == SubSeq(x, c + 1, Len(x))
<1>1. e \in DocType /\ s \in Seq(T) /\ k \in 1..n /\ c \in 0..Len(x) /\ n \in Nat
  BY LenProperties DEF CursorIn, DocType, DocLines
<1>2. x \in T
  BY <1>1, ElementOfSeq
<1> HIDE DEF T, x, s, k, c
<1>3. b \in T /\ a \in T /\ Len(b) = c /\ b \o a = x
  BY <1>1, <1>2, CutInTwo DEF T
<1>4. k - 1 \in 0..n /\ (k - 1) + 1 = k /\ k \in 0..n
  BY <1>1
<1>5. up \in Seq(T) /\ Len(up) = k - 1
  BY <1>1, <1>4, CutInTwo
<1>6. down \in Seq(T) /\ SubSeq(s, 1, k) \o down = s
  BY <1>1, <1>4, CutInTwo
<1> DEFINE fore == SubSeq(s, 1, k)
           top == up \o <<x>>
<1>7. fore \in Seq(T) /\ Len(fore) = k /\ \A i \in 1..k : fore[i] = s[i]
  BY <1>1, <1>4
<1>8. \A i \in 1..(k - 1) : up[i] = s[i]
  BY <1>1, <1>4
<1>9. top \in Seq(T) /\ Len(top) = k /\ (\A i \in 1..(k - 1) : top[i] = up[i]) /\ top[k] = x
  <2> HIDE DEF up
  <2>1. top \in Seq(T) /\ Len(top) = Len(up) + 1 /\ top[Len(up) + 1] = x
    BY <1>2, <1>5, OneMore
  <2>2. \A i \in 1..Len(up) : top[i] = up[i]
    BY <1>2, <1>5, OneMore
  <2>3. Len(up) + 1 = k
    BY <1>1, <1>5
  <2> QED
    BY <1>5, <2>1, <2>2, <2>3
<1> HIDE DEF up, fore, top, down, b, a
<1>10. \A i \in 1..k : top[i] = fore[i]
  <2> TAKE i \in 1..k
  <2>1. CASE i = k
    BY <2>1, <1>7, <1>9 DEF x
  <2>2. CASE i # k
    <3>1. i \in 1..(k - 1)
      BY <1>1, <2>2
    <3> QED
      BY <3>1, <1>7, <1>8, <1>9
  <2> QED
    BY <2>1, <2>2
<1>11. top = fore
  BY <1>7, <1>9, <1>10, SeqEqual
<1>12. s = (up \o <<b \o a>>) \o down
  BY <1>3, <1>6, <1>11 DEF top, fore
<1>13. k = Len(up) + 1
  BY <1>1, <1>5
<1>14. Parted(e, up, b, a, down)
  BY <1>1, <1>3, <1>5, <1>6, <1>12, <1>13 DEF Parted, T, DocLines, s, k, c
<1> QED
  BY <1>14

\* What the model's operators read off a document taken apart.
LEMMA PartedReads ==
  ASSUME NEW e, NEW up, NEW b, NEW a, NEW down, Parted(e, up, b, a, down)
  PROVE  /\ here(e) = b \o a /\ before_cursor(e) = b /\ after_cursor(e) = a
         /\ SubSeq(e.lines, 1, e.cursor_line - 1) = up
         /\ CursorIn(e)
<1> DEFINE x == b \o a
           all == (up \o <<x>>) \o down
           k == Len(up) + 1
<1>1. /\ e \in DocType /\ up \in DocLines /\ b \in Seq(Chars) /\ a \in Seq(Chars) /\ down \in DocLines
      /\ e.lines = all /\ e.cursor_line = k /\ e.cursor_column = Len(b)
  BY DEF Parted
<1>2. x \in Seq(Chars) /\ SubSeq(x, 1, Len(b)) = b /\ SubSeq(x, Len(b) + 1, Len(x)) = a
      /\ Len(x) = Len(b) + Len(a)
  BY <1>1, CutWhereTheyMeet, ConcatProperties
<1> HIDE DEF x
<1>7. PartsOf(all, up, x, down, k)
  BY <1>1, <1>2, PartedLines
<1> HIDE DEF all, k
<1>3. /\ k \in Nat /\ all \in DocLines /\ Len(all) = k + Len(down) /\ k \in DOMAIN all /\ all[k] = x
      /\ SubSeq(all, 1, k - 1) = up
  BY <1>7 DEF PartsOf
<1>4. here(e) = x /\ SubSeq(e.lines, 1, e.cursor_line - 1) = up
  BY <1>1, <1>3 DEF here
<1>5. before_cursor(e) = b /\ after_cursor(e) = a
  BY <1>1, <1>2, <1>4 DEF before_cursor, after_cursor
<1>6. CursorIn(e)
  <2>1. k \in 1..Len(all)
    BY <1>3, LenProperties DEF DocLines
  <2>2. Len(b) \in Nat /\ Len(a) \in Nat
    BY <1>1, LenProperties
  <2>3. Len(b) \in 0..Len(x)
    BY <1>2, <2>2
  <2> QED
    BY <1>1, <1>3, <2>1, <2>3 DEF CursorIn
<1> QED
  BY <1>4, <1>5, <1>6 DEF x

\* Its text is what stands before the cursor and then what stands after it, and
\* the place of the cursor in it is the length of the first.
TextIs(e, fore, aft) ==
  /\ fore \in Seq(Chars) /\ aft \in Seq(Chars)
  /\ editor_text(e) = fore \o aft /\ place(e) = Len(fore)
\* The text of a document taken apart is what stands before the cursor, then what
\* stands after it.
LEMMA PartedText ==
  ASSUME NEW e, NEW up, NEW b, NEW a, NEW down, Parted(e, up, b, a, down)
  PROVE  TextIs(e, all_text(up \o <<b>>), a \o under(down))
<1>1. /\ e \in DocType /\ up \in DocLines /\ b \in Seq(Chars) /\ a \in Seq(Chars) /\ down \in DocLines
      /\ e.lines = (up \o <<b \o a>>) \o down
  BY DEF Parted
<1> DEFINE x == b \o a
           top == up \o <<x>>
           fore == all_text(up \o <<b>>)
           aft == under(down)
<1>2. x \in Seq(Chars)
  BY <1>1, ConcatProperties
<1>3. top \in DocLines /\ Len(top) = Len(up) + 1 /\ up \o <<b>> \in DocLines
  BY <1>1, <1>2, OneMore DEF DocLines
<1>4. top # <<>>
  <2>1. Len(up) \in Nat
    BY <1>1, LenProperties DEF DocLines
  <2> HIDE DEF top
  <2> QED
    BY <1>3, <2>1, EmptySeq
<1>5. fore \in Seq(Chars) /\ aft \in Seq(Chars)
  BY <1>1, <1>3, TextsOf
<1>6. all_text(top) = fore \o a
  BY <1>1, TextGoesOn
<1> HIDE DEF top
<1>7. all_text(top \o down) = all_text(top) \o aft
  BY <1>1, <1>3, <1>4, TextAbove
<1> HIDE DEF fore, aft
<1>8. (fore \o a) \o aft = fore \o (a \o aft) /\ a \o aft \in Seq(Chars)
  BY <1>1, <1>5, ConcatAssociative, ConcatProperties
<1>9. editor_text(e) = all_text(e.lines)
  BY DEF editor_text, all_text, led
<1>10. editor_text(e) = fore \o (a \o aft)
  BY <1>1, <1>6, <1>7, <1>8, <1>9 DEF top
<1>11. place(e) = Len(fore)
  <2> DEFINE l == Append(SubSeq(e.lines, 1, e.cursor_line - 1), before_cursor(e))
             f == [e EXCEPT !.lines = Append(SubSeq(@, 1, e.cursor_line - 1), before_cursor(e))]
  <2>1. l = Append(up, b)
    BY PartedReads
  <2>2. Append(up, b) = up \o <<b>>
    BY <1>1 DEF DocLines
  <2>3. f = [e EXCEPT !.lines = l]
    OBVIOUS
  <2> HIDE DEF l
  <2>4. f.lines = l
    BY <1>1, <2>3 DEF DocType
  <2>5. place(e) = Len(editor_text(f))
    BY DEF place
  <2>6. editor_text(f) = all_text(f.lines)
    BY DEF editor_text, all_text, led
  <2> HIDE DEF f
  <2> QED
    BY <2>1, <2>2, <2>4, <2>5, <2>6 DEF fore
<1> QED
  BY <1>5, <1>8, <1>10, <1>11 DEF TextIs, fore, aft

\* The view follows the cursor, and changes nothing else.
SameButView(e, f) ==
  /\ f \in DocType /\ f.lines = e.lines /\ f.cursor_line = e.cursor_line
  /\ f.cursor_column = e.cursor_column /\ f.visible_lines = e.visible_lines
\* The view follows the cursor, and nothing else of the document changes.
LEMMA FollowKeeps ==
  ASSUME NEW e \in DocType
  PROVE  SameButView(e, follow_cursor(e))
<1>1. e.cursor_line \in Int /\ e.cursor_line - e.visible_lines + 1 \in Int
  BY DEF DocType
<1>2. \A x \in Int : SameButView(e, [e EXCEPT !.top_line = x])
  BY DEF SameButView, DocType
<1>3. SameButView(e, e)
  BY DEF SameButView
<1> QED
  BY <1>1, <1>2, <1>3 DEF follow_cursor
\* The line of the cursor is in the window; seen from a document whose window
\* shows a line at least, it is there again.
InWindow(e) == e.cursor_line \in e.top_line..(e.top_line + e.visible_lines - 1)
Seen(e, f) == e.visible_lines >= 1 => f.visible_lines = e.visible_lines /\ InWindow(f)
\* After the view has followed the cursor, its line is in the window.
LEMMA FollowShows ==
  ASSUME NEW e \in DocType, NEW f \in DocType, f.visible_lines = e.visible_lines
  PROVE  Seen(e, follow_cursor(f))
<1> SUFFICES ASSUME f.visible_lines >= 1
             PROVE  follow_cursor(f).visible_lines = f.visible_lines /\ InWindow(follow_cursor(f))
  BY DEF Seen
<1>1. f.cursor_line \in Int /\ f.top_line \in Int /\ f.visible_lines \in Int
  BY DEF DocType
<1>2. SameButView(f, follow_cursor(f))
  BY FollowKeeps
<1>3. /\ [f EXCEPT !.top_line = f.cursor_line].top_line = f.cursor_line
      /\ [f EXCEPT !.top_line = f.cursor_line - f.visible_lines + 1].top_line
           = f.cursor_line - f.visible_lines + 1
  BY DEF DocType
<1>4. follow_cursor(f).top_line
        = IF f.cursor_line < f.top_line THEN f.cursor_line
          ELSE IF f.cursor_line >= f.top_line + f.visible_lines THEN f.cursor_line - f.visible_lines + 1
          ELSE f.top_line
  BY <1>3 DEF follow_cursor
<1> DEFINE g == follow_cursor(f)
<1>5. g.cursor_line = f.cursor_line /\ g.visible_lines = f.visible_lines
  BY <1>2 DEF SameButView
<1> HIDE DEF g
<1>6. f.cursor_line \in g.top_line..(g.top_line + f.visible_lines - 1)
  BY <1>1, <1>4 DEF g
<1> QED
  BY <1>5, <1>6 DEF InWindow, g

\* A document that differs in its view alone is taken apart in the same way.
LEMMA PartedAlike ==
  ASSUME NEW e, NEW f, NEW up, NEW b, NEW a, NEW down, Parted(e, up, b, a, down), SameButView(e, f)
  PROVE  Parted(f, up, b, a, down)
  BY DEF Parted, SameButView

\* One line written over.
LEMMA LineReplaced ==
  ASSUME NEW up \in DocLines, NEW x \in Seq(Chars), NEW y \in Seq(Chars), NEW down \in DocLines
  PROVE  [(up \o <<x>>) \o down EXCEPT ![Len(up) + 1] = y] = (up \o <<y>>) \o down
<1> DEFINE T == Seq(Chars)
           s == (up \o <<x>>) \o down
           t == (up \o <<y>>) \o down
           u == [s EXCEPT ![Len(up) + 1] = y]
           k == Len(up) + 1
           n == Len(down)
<1>1. up \in Seq(T) /\ down \in Seq(T) /\ k \in Nat /\ n \in Nat
  BY LenProperties DEF DocLines
<1>2. (up \o <<x>>) \in Seq(T) /\ Len(up \o <<x>>) = k /\ (\A i \in 1..Len(up) : (up \o <<x>>)[i] = up[i])
  BY <1>1, OneMore
<1>3. (up \o <<y>>) \in Seq(T) /\ Len(up \o <<y>>) = k /\ (up \o <<y>>)[k] = y
      /\ (\A i \in 1..Len(up) : (up \o <<y>>)[i] = up[i])
  BY <1>1, OneMore
<1> DEFINE sx == up \o <<x>>
           sy == up \o <<y>>
<1> HIDE DEF sx, sy, T
<1>4. /\ sx \o down \in Seq(T) /\ Len(sx \o down) = Len(sx) + n
      /\ \A i \in 1..Len(sx) : (sx \o down)[i] = sx[i]
      /\ \A i \in 1..n : (sx \o down)[Len(sx) + i] = down[i]
  BY <1>1, <1>2, Joined DEF sx
<1>5. /\ sy \o down \in Seq(T) /\ Len(sy \o down) = Len(sy) + n
      /\ \A i \in 1..Len(sy) : (sy \o down)[i] = sy[i]
      /\ \A i \in 1..n : (sy \o down)[Len(sy) + i] = down[i]
  BY <1>1, <1>3, Joined DEF sy
<1>6. s = sx \o down /\ t = sy \o down /\ Len(sx) = k /\ Len(sy) = k
  BY <1>2, <1>3 DEF sx, sy
<1>7. sy[k] = y /\ \A i \in 1..(k - 1) : sx[i] = sy[i]
  BY <1>1, <1>2, <1>3 DEF sx, sy
<1> HIDE DEF s, t, k, n
<1>8. s \in Seq(T) /\ t \in Seq(T) /\ Len(s) = k + n /\ Len(t) = k + n
  BY <1>4, <1>5, <1>6
<1>9. u = [i \in 1..(k + n) |-> IF i = k THEN y ELSE s[i]]
  <2>1. DOMAIN s = 1..(k + n)
    BY <1>8, LenProperties
  <2> QED
    BY <2>1 DEF k
<1>10. t = [i \in 1..(k + n) |-> t[i]]
  BY <1>8
<1>11. \A i \in 1..(k + n) : t[i] = IF i = k THEN y ELSE s[i]
  <2> TAKE i \in 1..(k + n)
  <2>1. CASE i = k
    <3>1. k \in 1..Len(sy)
      BY <1>1, <1>6, <2>1
    <3> QED
      BY <2>1, <3>1, <1>5, <1>6, <1>7
  <2>2. CASE i # k /\ i <= k
    <3>1. i \in 1..(k - 1) /\ i \in 1..Len(sy) /\ i \in 1..Len(sx)
      BY <1>1, <1>6, <2>2
    <3> QED
      BY <2>2, <3>1, <1>4, <1>5, <1>6, <1>7
  <2>3. CASE i > k
    <3> DEFINE j == i - k
    <3>1. j \in 1..n /\ i = k + j /\ i # k
      BY <1>1, <2>3
    <3> HIDE DEF j
    <3>2. t[k + j] = down[j] /\ s[k + j] = down[j]
      BY <3>1, <1>4, <1>5, <1>6
    <3> QED
      BY <3>1, <3>2
  <2> QED
    BY <1>1, <2>1, <2>2, <2>3
<1> HIDE DEF u
<1> QED
  BY <1>9, <1>10, <1>11 DEF u, s, t, k

\* A character goes in before the cursor, which then stands behind it.
LEMMA InsertParts ==
  ASSUME NEW e, NEW up, NEW b, NEW a, NEW down, Parted(e, up, b, a, down), NEW ch \in Chars,
         Len(here(e)) < EDIT_MAX_COLS
  PROVE  Parted(editor_insert(e, ch), up, b \o <<ch>>, a, down) /\ Seen(e, editor_insert(e, ch))
<1>1. /\ e \in DocType /\ up \in DocLines /\ b \in Seq(Chars) /\ a \in Seq(Chars) /\ down \in DocLines
      /\ e.lines = (up \o <<b \o a>>) \o down /\ e.cursor_line = Len(up) + 1 /\ e.cursor_column = Len(b)
  BY DEF Parted
<1> DEFINE bb == b \o <<ch>>
           x == b \o a
           y == bb \o a
           f == [e EXCEPT !.lines[e.cursor_line] = before_cursor(e) \o <<ch>> \o after_cursor(e),
                          !.cursor_column = @ + 1, !.changed = TRUE]
           l == (up \o <<y>>) \o down
<1>2. bb \in Seq(Chars) /\ Len(bb) = Len(b) + 1 /\ x \in Seq(Chars) /\ y \in Seq(Chars)
  BY <1>1, OneMore, ConcatProperties
<1>3. before_cursor(e) \o <<ch>> \o after_cursor(e) = y
  BY PartedReads
<1>4. [e.lines EXCEPT ![e.cursor_line] = y] = l
  <2> HIDE DEF y, x
  <2>3. up \in DocLines /\ x \in Seq(Chars) /\ y \in Seq(Chars) /\ down \in DocLines
    BY <1>1, <1>2
  <2>1. [(up \o <<x>>) \o down EXCEPT ![Len(up) + 1] = y] = (up \o <<y>>) \o down
    BY <2>3, LineReplaced
  <2>2. e.lines = (up \o <<x>>) \o down /\ e.cursor_line = Len(up) + 1
    BY <1>1 DEF x
  <2> QED
    BY <2>1, <2>2
<1>5. l \in DocLines
  <2>1. PartsOf(l, up, y, down, Len(up) + 1)
    BY <1>1, <1>2, PartedLines
  <2> QED
    BY <2>1 DEF PartsOf
<1>6. f = [e EXCEPT !.lines = l, !.cursor_column = @ + 1, !.changed = TRUE]
  <2>1. f = [e EXCEPT !.lines = [e.lines EXCEPT ![e.cursor_line] = before_cursor(e) \o <<ch>> \o after_cursor(e)],
                      !.cursor_column = @ + 1, !.changed = TRUE]
    BY <1>1 DEF DocType
  <2> QED
    BY <2>1, <1>3, <1>4
<1>10. e.cursor_column + 1 \in Int
  BY <1>1 DEF DocType
<1> HIDE DEF l
<1>7. f \in DocType /\ f.lines = l /\ f.cursor_line = e.cursor_line /\ f.cursor_column = e.cursor_column + 1
      /\ f.visible_lines = e.visible_lines
  <2> HIDE DEF f
  <2> QED
    BY <1>1, <1>5, <1>6, <1>10 DEF DocType
<1>8. editor_insert(e, ch) = follow_cursor(f)
  <2>1. Len(here(e)) \in Int /\ EDIT_MAX_COLS \in Int
    <3>1. here(e) = x
      BY PartedReads
    <3> QED
      BY <3>1, <1>2, LenProperties, EditorAssumption
  <2>2. ~(Len(here(e)) >= EDIT_MAX_COLS)
    BY <2>1
  <2> QED
    BY <2>2 DEF editor_insert
<1> HIDE DEF f
<1>9. Parted(f, up, bb, a, down)
  BY <1>1, <1>2, <1>7 DEF Parted, l
<1> QED
  BY <1>1, <1>7, <1>8, <1>9, FollowKeeps, FollowShows, PartedAlike

\* What is after the cursor goes to a line of its own under it.
LEMMA NewlineParts ==
  ASSUME NEW e, NEW up, NEW b, NEW a, NEW down, Parted(e, up, b, a, down),
         Len(e.lines) < EDIT_MAX_LINES
  PROVE  Parted(editor_newline(e), up \o <<b>>, <<>>, a, down) /\ Seen(e, editor_newline(e))
<1>1. /\ e \in DocType /\ up \in DocLines /\ b \in Seq(Chars) /\ a \in Seq(Chars) /\ down \in DocLines
      /\ e.lines = (up \o <<b \o a>>) \o down /\ e.cursor_line = Len(up) + 1 /\ e.cursor_column = Len(b)
  BY DEF Parted
<1> DEFINE x == b \o a
           top == up \o <<b>>
           l == (top \o <<a>>) \o down
           f == [e EXCEPT
                   !.lines = InsertAt([@ EXCEPT ![e.cursor_line] = before_cursor(e)],
                                      e.cursor_line + 1, after_cursor(e)),
                   !.cursor_line = @ + 1, !.cursor_column = 0, !.changed = TRUE]
<1>2. x \in Seq(Chars)
  BY <1>1, ConcatProperties
<1>3. top \in DocLines /\ Len(top) = Len(up) + 1
  BY <1>1, OneMore DEF DocLines
<1>4. [e.lines EXCEPT ![e.cursor_line] = b] = top \o down
  <2> HIDE DEF x
  <2>3. up \in DocLines /\ x \in Seq(Chars) /\ b \in Seq(Chars) /\ down \in DocLines
    BY <1>1, <1>2
  <2>1. [(up \o <<x>>) \o down EXCEPT ![Len(up) + 1] = b] = (up \o <<b>>) \o down
    BY <2>3, LineReplaced
  <2>2. e.lines = (up \o <<x>>) \o down /\ e.cursor_line = Len(up) + 1
    BY <1>1 DEF x
  <2> QED
    BY <2>1, <2>2
<1>5. l \in DocLines
  <2>1. PartsOf(l, top, a, down, Len(top) + 1)
    BY <1>1, <1>3, PartedLines
  <2> QED
    BY <2>1 DEF PartsOf
<1> HIDE DEF top
<1>6. InsertAt(top \o down, Len(top) + 1, a) = l
  BY <1>1, <1>3, OnePutIn DEF DocLines
<1>7. before_cursor(e) = b /\ after_cursor(e) = a
  BY PartedReads
<1>8. InsertAt([e.lines EXCEPT ![e.cursor_line] = before_cursor(e)], e.cursor_line + 1, after_cursor(e)) = l
  <2>1. e.cursor_line + 1 = Len(top) + 1
    BY <1>1, <1>3
  <2> QED
    BY <1>4, <1>6, <1>7, <2>1
<1>9. f = [e EXCEPT !.lines = l, !.cursor_line = @ + 1, !.cursor_column = 0, !.changed = TRUE]
  BY <1>8
<1>10. e.cursor_line + 1 \in Int /\ e.cursor_line = Len(top)
  BY <1>1, <1>3 DEF DocType
<1> HIDE DEF l
<1>14. 0 \in Int /\ TRUE \in BOOLEAN
  OBVIOUS
<1>11. f \in DocType /\ f.lines = l /\ f.cursor_line = e.cursor_line + 1 /\ f.cursor_column = 0
      /\ f.visible_lines = e.visible_lines
  <2> HIDE DEF f
  <2> QED
    BY <1>1, <1>5, <1>9, <1>10, <1>14 DEF DocType
<1>12. editor_newline(e) = follow_cursor(f)
  <2>1. Len(e.lines) \in Int /\ EDIT_MAX_LINES \in Int
    BY <1>1, LenProperties, EditorAssumption DEF DocType, DocLines
  <2>2. ~(Len(e.lines) >= EDIT_MAX_LINES)
    BY <2>1
  <2> QED
    BY <2>2 DEF editor_newline
<1> HIDE DEF f
<1>13. Parted(f, top, <<>>, a, down)
  <2>1. <<>> \o a = a /\ <<>> \in Seq(Chars) /\ Len(<<>>) = 0
    BY <1>1, ConcatEmptySeq, EmptySeq
  <2> QED
    BY <1>1, <1>3, <1>10, <1>11, <2>1 DEF Parted, l
<1> QED
  BY <1>1, <1>11, <1>12, <1>13, FollowKeeps, FollowShows, PartedAlike DEF top

\* The character before the cursor goes.
LEMMA RubbedParts ==
  ASSUME NEW e, NEW up, NEW b \in Seq(Chars), NEW ch \in Chars, NEW a, NEW down,
         Parted(e, up, b \o <<ch>>, a, down)
  PROVE  Parted(rubbed_out(e), up, b, a, down) /\ Seen(e, rubbed_out(e))
<1> DEFINE bb == b \o <<ch>>
           x == bb \o a
           y == b \o a
           l == (up \o <<y>>) \o down
           f == [e EXCEPT !.lines[e.cursor_line] = Front(before_cursor(e)) \o after_cursor(e),
                          !.cursor_column = @ - 1, !.changed = TRUE]
<1>1. /\ e \in DocType /\ up \in DocLines /\ bb \in Seq(Chars) /\ a \in Seq(Chars) /\ down \in DocLines
      /\ e.lines = (up \o <<x>>) \o down /\ e.cursor_line = Len(up) + 1 /\ e.cursor_column = Len(bb)
  BY DEF Parted
<1>2. Len(bb) = Len(b) + 1 /\ x \in Seq(Chars) /\ y \in Seq(Chars) /\ Len(b) \in Nat
  BY <1>1, OneMore, ConcatProperties, LenProperties
<1>3. Front(bb) = b
  <2>1. Len(bb) - 1 = Len(b)
    BY <1>2
  <2>2. Front(bb) = SubSeq(bb, 1, Len(bb) - 1)
    BY DEF Front
  <2> DEFINE one == <<ch>>
  <2>3. one \in Seq(Chars)
    OBVIOUS
  <2> HIDE DEF one
  <2>4. SubSeq(b \o one, 1, Len(b)) = b
    BY <2>3, CutWhereTheyMeet
  <2> QED
    BY <2>1, <2>2, <2>4 DEF one
<1>4. Front(before_cursor(e)) \o after_cursor(e) = y
  <2>1. before_cursor(e) = bb /\ after_cursor(e) = a
    BY PartedReads
  <2> HIDE DEF bb
  <2> QED
    BY <1>3, <2>1
<1> HIDE DEF bb, x, y
<1>5. [e.lines EXCEPT ![e.cursor_line] = y] = l
  <2>1. [(up \o <<x>>) \o down EXCEPT ![Len(up) + 1] = y] = (up \o <<y>>) \o down
    BY <1>1, <1>2, LineReplaced
  <2> QED
    BY <1>1, <2>1
<1>6. l \in DocLines
  <2>1. PartsOf(l, up, y, down, Len(up) + 1)
    BY <1>1, <1>2, PartedLines
  <2> QED
    BY <2>1 DEF PartsOf
<1>7. f = [e EXCEPT !.lines = l, !.cursor_column = @ - 1, !.changed = TRUE]
  <2>1. f = [e EXCEPT !.lines = [e.lines EXCEPT ![e.cursor_line] = Front(before_cursor(e)) \o after_cursor(e)],
                      !.cursor_column = @ - 1, !.changed = TRUE]
    BY <1>1 DEF DocType
  <2> QED
    BY <2>1, <1>4, <1>5
<1>8. e.cursor_column - 1 \in Int /\ e.cursor_column - 1 = Len(b)
  BY <1>1, <1>2
<1> HIDE DEF l
<1>9. f \in DocType /\ f.lines = l /\ f.cursor_line = e.cursor_line /\ f.cursor_column = e.cursor_column - 1
      /\ f.visible_lines = e.visible_lines
  <2> HIDE DEF f
  <2> QED
    BY <1>1, <1>6, <1>7, <1>8 DEF DocType
<1>10. rubbed_out(e) = follow_cursor(f)
  BY DEF rubbed_out
<1> HIDE DEF f
<1>11. Parted(f, up, b, a, down)
  BY <1>1, <1>8, <1>9 DEF Parted, l, y
<1> QED
  BY <1>1, <1>9, <1>10, <1>11, FollowKeeps, FollowShows, PartedAlike

\* A line joins the one above it.
LEMMA JoinedParts ==
  ASSUME NEW e, NEW up \in DocLines, NEW b \in Seq(Chars), NEW a, NEW down,
         Parted(e, up \o <<b>>, <<>>, a, down)
  PROVE  Parted(joined(e), up, b, a, down) /\ Seen(e, joined(e))
<1> DEFINE top == up \o <<b>>
           y == b \o a
           l == (up \o <<y>>) \o down
           k == e.cursor_line
           above == e.lines[k - 1]
           more == <<a>> \o down
           f == [e EXCEPT
                   !.lines = RemoveAt([@ EXCEPT ![e.cursor_line - 1] = above \o here(e)], e.cursor_line),
                   !.cursor_line = @ - 1, !.cursor_column = Len(above), !.changed = TRUE]
<1>1. /\ e \in DocType /\ top \in DocLines /\ a \in Seq(Chars) /\ down \in DocLines
      /\ e.lines = (top \o <<<<>> \o a>>) \o down /\ k = Len(top) + 1
  BY DEF Parted
<1>2. Len(top) = Len(up) + 1 /\ Len(up) \in Nat
  BY OneMore, LenProperties DEF DocLines
<1>3. <<>> \o a = a /\ here(e) = a
  <2>1. <<>> \o a = a
    BY <1>1, ConcatEmptySeq
  <2> QED
    BY <2>1, PartedReads
<1>4. y \in Seq(Chars) /\ <<a>> \in Seq(Seq(Chars)) /\ more \in DocLines
  BY <1>1, ConcatProperties DEF DocLines
<1>5. e.lines = (up \o <<b>>) \o more
  <2> DEFINE one == <<a>>
  <2>1. one \in Seq(Seq(Chars)) /\ top \in Seq(Seq(Chars)) /\ down \in Seq(Seq(Chars))
    BY <1>1, <1>4 DEF DocLines
  <2>2. e.lines = (top \o one) \o down
    BY <1>1, <1>3
  <2> HIDE DEF one, top
  <2>3. (top \o one) \o down = top \o (one \o down)
    BY <2>1, ConcatAssociative
  <2> QED
    BY <2>2, <2>3 DEF one, top
<1> HIDE DEF y, more, top
<1>6. above = b
  <2>1. PartsOf((up \o <<b>>) \o more, up, b, more, Len(up) + 1)
    BY <1>4, PartedLines
  <2>2. k - 1 = Len(up) + 1
    BY <1>1, <1>2
  <2> QED
    BY <1>5, <2>1, <2>2 DEF PartsOf
<1>7. [e.lines EXCEPT ![k - 1] = y] = (up \o <<y>>) \o more
  <2>1. [(up \o <<b>>) \o more EXCEPT ![Len(up) + 1] = y] = (up \o <<y>>) \o more
    BY <1>4, LineReplaced
  <2>2. k - 1 = Len(up) + 1
    BY <1>1, <1>2
  <2> QED
    BY <1>5, <2>1, <2>2
<1>8. RemoveAt((up \o <<y>>) \o more, k) = l
  <2> DEFINE h == up \o <<y>>
             one == <<a>>
  <2>1. h \in Seq(Seq(Chars)) /\ Len(h) = Len(up) + 1 /\ down \in Seq(Seq(Chars))
    BY <1>1, <1>4, OneMore DEF DocLines
  <2>2. one \in Seq(Seq(Chars))
    BY <1>4
  <2>3. RemoveAt((h \o one) \o down, Len(h) + 1) = h \o down
    <3> HIDE DEF h
    <3> QED
      BY <1>1, <2>1, TakenOut
  <2> HIDE DEF h, one
  <2>8. h \in Seq(Seq(Chars)) /\ one \in Seq(Seq(Chars)) /\ down \in Seq(Seq(Chars))
    BY <2>1, <2>2
  <2>4. (h \o one) \o down = h \o (one \o down)
    BY <2>8, ConcatAssociative
  <2>5. Len(h) + 1 = k
    BY <1>1, <1>2, <2>1
  <2>6. more = one \o down
    BY DEF more, one
  <2>7. RemoveAt(h \o more, k) = h \o down
    BY <2>3, <2>4, <2>5, <2>6
  <2> QED
    BY <2>7 DEF h
<1>9. l \in DocLines
  <2>1. PartsOf(l, up, y, down, Len(up) + 1)
    BY <1>1, <1>4, PartedLines
  <2> QED
    BY <2>1 DEF PartsOf
<1>10. f = [e EXCEPT !.lines = l, !.cursor_line = @ - 1, !.cursor_column = Len(b), !.changed = TRUE]
  <2>1. above \o here(e) = y
    BY <1>3, <1>6 DEF y
  <2> HIDE DEF above, l
  <2> QED
    BY <2>1, <1>6, <1>7, <1>8
<1>11. e.cursor_line - 1 \in Int /\ e.cursor_line - 1 = Len(up) + 1 /\ Len(b) \in Int
  BY <1>1, <1>2, LenProperties
<1> HIDE DEF l
<1>12. f \in DocType /\ f.lines = l /\ f.cursor_line = e.cursor_line - 1 /\ f.cursor_column = Len(b)
      /\ f.visible_lines = e.visible_lines
  <2> HIDE DEF f
  <2> QED
    BY <1>1, <1>9, <1>10, <1>11 DEF DocType
<1>13. joined(e) = follow_cursor(f)
  BY DEF joined
<1> HIDE DEF f
<1>14. Parted(f, up, b, a, down)
  BY <1>1, <1>11, <1>12 DEF Parted, l, y
<1> QED
  BY <1>1, <1>12, <1>13, <1>14, FollowKeeps, FollowShows, PartedAlike

\* Two documents of which one has one character more before its cursor.
OneMoreThan(e, f, c) ==
  /\ editor_text(f) = InsertAt(editor_text(e), place(e) + 1, c)
  /\ editor_text(e) = RemoveAt(editor_text(f), place(f))
  /\ place(f) = place(e) + 1 /\ place(e) \in Nat
\* Of two documents with the same text after the cursor, one with a character more
\* before it is the other after that character was put in, and the other is it with
\* that character taken out.
LEMMA OneMoreBefore ==
  ASSUME NEW e, NEW f, NEW c \in Chars, NEW fore, NEW aft,
         TextIs(e, fore, aft), TextIs(f, fore \o <<c>>, aft)
  PROVE  OneMoreThan(e, f, c)
<1> DEFINE more == fore \o <<c>>
<1>1. fore \in Seq(Chars) /\ aft \in Seq(Chars) /\ editor_text(e) = fore \o aft /\ place(e) = Len(fore)
  BY DEF TextIs
<1>2. editor_text(f) = more \o aft /\ place(f) = Len(more)
  BY DEF TextIs
<1>4. Len(more) = Len(fore) + 1 /\ Len(fore) \in Nat
  BY <1>1, OneMore, LenProperties
<1>5. InsertAt(fore \o aft, Len(fore) + 1, c) = more \o aft
  BY <1>1, OnePutIn
<1>6. RemoveAt(more \o aft, Len(fore) + 1) = fore \o aft
  BY <1>1, TakenOut
<1> HIDE DEF more
<1> QED
  BY <1>1, <1>2, <1>4, <1>5, <1>6 DEF OneMoreThan

\* The document keeps within its lines and columns.
short(lines) == \A i \in 1..Len(lines) : Len(lines[i]) <= EDIT_MAX_COLS
Fits(lines) == Len(lines) <= EDIT_MAX_LINES /\ short(lines)
DocOK(e) == CursorIn(e) /\ Fits(e.lines) /\ e.visible_lines >= 1 /\ InWindow(e)
RoomFor(up, b, a, down) ==
  /\ Len(up) + 1 + Len(down) <= EDIT_MAX_LINES
  /\ short(up) /\ Len(b) + Len(a) <= EDIT_MAX_COLS /\ short(down)

\* Lines are short enough when both lots of them are.
LEMMA ShortJoined ==
  ASSUME NEW lines \in DocLines, NEW more \in DocLines
  PROVE  (short(lines \o more) => short(lines) /\ short(more))
         /\ (short(lines) /\ short(more) => short(lines \o more))
<1> DEFINE s == lines \o more
           m == Len(lines)
           n == Len(more)
<1>1. /\ Len(s) = m + n /\ m \in Nat /\ n \in Nat
      /\ (\A i \in 1..m : s[i] = lines[i]) /\ (\A i \in 1..n : s[m + i] = more[i])
  BY Joined, LenProperties DEF DocLines
<1> HIDE DEF s, m, n
<1>2. ASSUME short(s) PROVE short(lines) /\ short(more)
  <2>1. ASSUME NEW i \in 1..m PROVE Len(lines[i]) <= EDIT_MAX_COLS
    <3>1. i \in 1..Len(s)
      BY <1>1
    <3> QED
      BY <1>1, <1>2, <3>1 DEF short
  <2>2. ASSUME NEW i \in 1..n PROVE Len(more[i]) <= EDIT_MAX_COLS
    <3>1. m + i \in 1..Len(s)
      BY <1>1
    <3> QED
      BY <1>1, <1>2, <3>1 DEF short
  <2> QED
    BY <2>1, <2>2 DEF short, m, n
<1>3. ASSUME short(lines), short(more) PROVE short(s)
  <2>1. ASSUME NEW i \in 1..(m + n) PROVE Len(s[i]) <= EDIT_MAX_COLS
    <3>1. CASE i \in 1..m
      BY <1>1, <1>3, <3>1 DEF short, m
    <3>2. CASE i \notin 1..m
      <4>1. i - m \in 1..n /\ m + (i - m) = i
        BY <1>1, <3>2
      <4> QED
        BY <1>1, <1>3, <4>1 DEF short, n
    <3> QED
      BY <3>1, <3>2
  <2> QED
    BY <1>1, <2>1 DEF short
<1> QED
  BY <1>2, <1>3 DEF s

\* One line is short enough when its length is at most EDIT_MAX_COLS.
LEMMA ShortOne ==
  ASSUME NEW x
  PROVE  (short(<<x>>) => Len(x) <= EDIT_MAX_COLS) /\ (Len(x) <= EDIT_MAX_COLS => short(<<x>>))
<1>1. Len(<<x>>) = 1 /\ <<x>>[1] = x /\ 1 \in 1..1 /\ \A i \in 1..1 : i = 1
  OBVIOUS
<1> QED
  BY <1>1 DEF short

\* It does when its parts do.
LEMMA RoomFits ==
  ASSUME NEW e, NEW up, NEW b, NEW a, NEW down, Parted(e, up, b, a, down)
  PROVE  /\ Fits(e.lines) => RoomFor(up, b, a, down)
         /\ RoomFor(up, b, a, down) => Fits(e.lines)
         /\ Len(e.lines) = Len(up) + 1 + Len(down)
         /\ Len(up) \in Nat /\ Len(down) \in Nat /\ Len(a) \in Nat /\ Len(b) \in Nat
         /\ Len(here(e)) = Len(b) + Len(a)
<1> DEFINE x == b \o a
           one == <<x>>
           top == up \o one
           all == top \o down
<1>1. /\ e \in DocType /\ up \in DocLines /\ b \in Seq(Chars) /\ a \in Seq(Chars) /\ down \in DocLines
      /\ e.lines = all
  BY DEF Parted
<1>2. x \in Seq(Chars) /\ Len(x) = Len(b) + Len(a) /\ Len(a) \in Nat /\ Len(b) \in Nat
  BY <1>1, ConcatProperties, LenProperties
<1>3. Len(up) \in Nat /\ Len(down) \in Nat
  BY <1>1, LenProperties DEF DocLines
<1>10. here(e) = x
  BY PartedReads
<1> HIDE DEF x
<1>4. one \in DocLines /\ top \in DocLines
  BY <1>1, <1>2, OneMore DEF DocLines
<1>5. PartsOf(all, up, x, down, Len(up) + 1)
  BY <1>1, <1>2, PartedLines
<1>6. Len(all) = Len(up) + 1 + Len(down)
  BY <1>5 DEF PartsOf
<1>7. (short(one) => Len(x) <= EDIT_MAX_COLS) /\ (Len(x) <= EDIT_MAX_COLS => short(one))
  BY ShortOne
<1> HIDE DEF one
<1>8. (short(top) => short(up) /\ short(one)) /\ (short(up) /\ short(one) => short(top))
  BY <1>1, <1>4, ShortJoined
<1> HIDE DEF top
<1>9. (short(all) => short(top) /\ short(down)) /\ (short(top) /\ short(down) => short(all))
  BY <1>1, <1>4, ShortJoined
<1> HIDE DEF all
<1>11. Fits(e.lines) => RoomFor(up, b, a, down)
  BY <1>1, <1>2, <1>6, <1>7, <1>8, <1>9 DEF Fits, RoomFor
<1>12. RoomFor(up, b, a, down) => Fits(e.lines)
  BY <1>1, <1>2, <1>6, <1>7, <1>8, <1>9 DEF Fits, RoomFor
<1> QED
  BY <1>1, <1>2, <1>3, <1>6, <1>10, <1>11, <1>12

\* A document whose parts have room, and whose view was followed, is in order.
LEMMA PartedOK ==
  ASSUME NEW e, DocOK(e),
         NEW f, NEW up, NEW b, NEW a, NEW down, Parted(f, up, b, a, down), RoomFor(up, b, a, down), Seen(e, f)
  PROVE  DocOK(f)
<1>1. Fits(f.lines)
  BY RoomFits
<1>2. CursorIn(f)
  BY PartedReads
<1>3. f.visible_lines >= 1 /\ InWindow(f)
  BY DEF DocOK, Seen
<1> QED
  BY <1>1, <1>2, <1>3 DEF DocOK

\* What a key may do to the one text that a document is.
OneEdit(e, f) ==
  \/ f = e
  \/ \E ch \in Chars :
       editor_text(f) = InsertAt(editor_text(e), place(e) + 1, ch) /\ place(f) = place(e) + 1
  \/ /\ place(e) > 0 /\ place(f) = place(e) - 1
     /\ editor_text(f) = RemoveAt(editor_text(e), place(e))
Edited(e, f) == DocOK(f) /\ OneEdit(e, f)

\* A character.
LEMMA InsertEdits ==
  ASSUME NEW e, DocOK(e), NEW ch \in Chars
  PROVE  Edited(e, editor_insert(e, ch))
<1>1. PICK up, b, a, down : Parted(e, up, b, a, down)
  BY CanBeParted DEF DocOK
<1>2. RoomFor(up, b, a, down)
  BY <1>1, RoomFits DEF DocOK
<1>3. Len(b) \in Nat /\ Len(a) \in Nat /\ Len(here(e)) = Len(b) + Len(a) /\ EDIT_MAX_COLS \in Nat
  BY <1>1, RoomFits, EditorAssumption
<1>4. CASE Len(here(e)) >= EDIT_MAX_COLS
  BY <1>4 DEF editor_insert, Edited, OneEdit
<1>5. CASE Len(here(e)) < EDIT_MAX_COLS
  <2> DEFINE f == editor_insert(e, ch)
             q == b \o <<ch>>
  <2>1. Parted(f, up, q, a, down) /\ Seen(e, f)
    BY <1>1, <1>5, InsertParts
  <2>2. b \in Seq(Chars) /\ up \in DocLines
    BY <1>1 DEF Parted
  <2>3. Len(q) = Len(b) + 1
    BY <2>2, OneMore
  <2>4. all_text(up \o <<q>>) = all_text(up \o <<b>>) \o <<ch>>
    <3> DEFINE one == <<ch>>
    <3>1. one \in Seq(Chars)
      OBVIOUS
    <3> HIDE DEF one
    <3>2. all_text(up \o <<b \o one>>) = all_text(up \o <<b>>) \o one
      BY <2>2, <3>1, TextGoesOn
    <3> QED
      BY <3>2 DEF one
  <2> HIDE DEF f, q
  <2>5. RoomFor(up, q, a, down)
    BY <1>2, <1>3, <1>5, <2>3 DEF RoomFor
  <2>6. DocOK(f)
    BY <2>1, <2>5, PartedOK
  <2> DEFINE fore == all_text(up \o <<b>>)
             aft == a \o under(down)
  <2>8. TextIs(e, fore, aft)
    BY <1>1, PartedText
  <2>9. TextIs(f, all_text(up \o <<q>>), aft)
    BY <2>1, PartedText
  <2>10. TextIs(f, fore \o <<ch>>, aft)
    BY <2>4, <2>9
  <2> HIDE DEF fore, aft
  <2>11. OneMoreThan(e, f, ch)
    BY <2>8, <2>10, OneMoreBefore
  <2> QED
    BY <2>6, <2>11 DEF Edited, OneEdit, OneMoreThan, f
<1> QED
  BY <1>3, <1>4, <1>5

\* The key that ends a line.
LEMMA NewlineEdits ==
  ASSUME NEW e, DocOK(e)
  PROVE  Edited(e, editor_newline(e))
<1>1. PICK up, b, a, down : Parted(e, up, b, a, down)
  BY CanBeParted DEF DocOK
<1>2. RoomFor(up, b, a, down)
  BY <1>1, RoomFits DEF DocOK
<1>3. /\ Len(b) \in Nat /\ Len(a) \in Nat /\ Len(up) \in Nat /\ Len(down) \in Nat
      /\ Len(e.lines) = Len(up) + 1 + Len(down)
  BY <1>1, RoomFits
<1>6. EDIT_MAX_COLS \in Nat /\ EDIT_MAX_LINES \in Nat
  BY EditorAssumption
<1>4. CASE Len(e.lines) >= EDIT_MAX_LINES
  BY <1>4 DEF editor_newline, Edited, OneEdit
<1>5. CASE Len(e.lines) < EDIT_MAX_LINES
  <2> DEFINE f == editor_newline(e)
             top == up \o <<b>>
             none == <<>>
  <2>1. Parted(f, top, none, a, down) /\ Seen(e, f)
    BY <1>1, <1>5, NewlineParts
  <2>2. b \in Seq(Chars) /\ up \in DocLines /\ none \in Seq(Chars) /\ Len(none) = 0
    BY <1>1, EmptySeq DEF Parted
  <2>3. Len(top) = Len(up) + 1 /\ top \in DocLines /\ top # <<>>
    <3>1. Len(top) = Len(up) + 1 /\ top \in DocLines
      BY <2>2, OneMore DEF DocLines
    <3> HIDE DEF top
    <3> QED
      BY <3>1, <1>3, EmptySeq
  <2>4. all_text(top \o <<none>>) = all_text(top) \o <<LineEnd>>
    <3> DEFINE one == <<LineEnd>>
    <3>1. one \o <<>> = one
      <4>1. one \in Seq(Chars)
        BY DEF Chars
      <4> QED
        BY <4>1, ConcatEmptySeq
    <3> HIDE DEF one, top
    <3>2. all_text(top \o <<none>>) = all_text(top) \o (<<LineEnd>> \o none)
      <4> HIDE DEF none
      <4> QED
        BY <2>2, <2>3, TextOfLast
    <3> QED
      BY <3>1, <3>2 DEF one
  <2>5. short(top)
    <3> DEFINE one == <<b>>
    <3>1. short(up) /\ Len(b) <= EDIT_MAX_COLS
      BY <1>2, <1>3, <1>6 DEF RoomFor
    <3>2. short(one)
      BY <3>1, ShortOne
    <3>3. one \in DocLines
      BY <2>2 DEF DocLines
    <3> HIDE DEF one
    <3>4. short(up \o one)
      BY <2>2, <3>1, <3>2, <3>3, ShortJoined
    <3> QED
      BY <3>4 DEF one
  <2>9. LineEnd \in Chars
    BY DEF Chars
  <2>10. all_text(top \o <<none>>) = all_text(up \o <<b>>) \o <<LineEnd>>
    BY <2>4
  <2> HIDE DEF f, top, none
  <2>6. RoomFor(top, none, a, down)
    BY <1>2, <1>3, <1>5, <1>6, <2>2, <2>3, <2>5 DEF RoomFor
  <2>7. DocOK(f)
    BY <2>1, <2>6, PartedOK
  <2> DEFINE fore == all_text(up \o <<b>>)
             aft == a \o under(down)
  <2>8. TextIs(e, fore, aft)
    BY <1>1, PartedText
  <2>11. TextIs(f, all_text(top \o <<none>>), aft)
    BY <2>1, PartedText
  <2>12. TextIs(f, fore \o <<LineEnd>>, aft)
    BY <2>10, <2>11
  <2> HIDE DEF fore, aft
  <2>13. OneMoreThan(e, f, LineEnd)
    BY <2>8, <2>9, <2>12, OneMoreBefore
  <2> QED
    BY <2>7, <2>9, <2>13 DEF Edited, OneEdit, OneMoreThan, f
<1> QED
  BY <1>3, <1>4, <1>5, <1>6

\* A sequence that is not empty ends in something.
LEMMA LastApart ==
  ASSUME NEW S, NEW s \in Seq(S), Len(s) # 0
  PROVE  \E r \in Seq(S), c \in S : s = r \o <<c>>
<1> DEFINE n == Len(s)
           r == SubSeq(s, 1, n - 1)
           c == s[n]
           t == r \o <<c>>
<1>1. n \in Nat /\ n # 0 /\ n - 1 \in 0..n /\ \A i \in 1..n : s[i] \in S
  BY LenProperties, ElementOfSeq
<1>8. n - 1 \in Nat /\ n - 1 <= Len(s)
  BY <1>1
<1>2. r \in Seq(S) /\ Len(r) = n - 1 /\ \A i \in 1..(n - 1) : r[i] = s[i]
  <2> DEFINE k == n - 1
  <2>1. k \in Nat /\ k <= Len(s) /\ \A i \in 1..Len(s) : s[i] \in S
    BY <1>1, <1>8
  <2> HIDE DEF k, n
  <2>2. SubSeq(s, 1, k) \in Seq(S) /\ Len(SubSeq(s, 1, k)) = k
        /\ \A i \in 1..k : SubSeq(s, 1, k)[i] = s[i]
    BY <2>1
  <2> QED
    BY <2>2 DEF k
<1>3. c \in S
  BY <1>1
<1> HIDE DEF r
<1>4. t \in Seq(S) /\ Len(t) = Len(r) + 1 /\ t[Len(r) + 1] = c /\ \A i \in 1..Len(r) : t[i] = r[i]
  BY <1>2, <1>3, OneMore
<1> HIDE DEF t
<1>5. Len(t) = n /\ t[n] = s[n] /\ \A i \in 1..(n - 1) : t[i] = s[i]
  BY <1>1, <1>2, <1>4
<1>6. \A i \in 1..Len(s) : s[i] = t[i]
  BY <1>1, <1>5
<1>7. s = t
  BY <1>4, <1>5, <1>6, SeqEqual
<1> QED
  BY <1>2, <1>3, <1>7 DEF t

\* The key that takes the character before the cursor away.
LEMMA RubbedEdits ==
  ASSUME NEW e, DocOK(e), e.cursor_column > 0
  PROVE  Edited(e, rubbed_out(e))
<1>1. PICK up, q, a, down : Parted(e, up, q, a, down)
  BY CanBeParted DEF DocOK
<1>2. RoomFor(up, q, a, down)
  BY <1>1, RoomFits DEF DocOK
<1>3. up \in DocLines /\ q \in Seq(Chars) /\ Len(q) = e.cursor_column
  BY <1>1 DEF Parted
<1>4. Len(q) # 0
  BY <1>3
<1>5. PICK b \in Seq(Chars), ch \in Chars : q = b \o <<ch>>
  BY <1>3, <1>4, LastApart
<1> DEFINE f == rubbed_out(e)
<1>6. Parted(e, up, b \o <<ch>>, a, down)
  BY <1>1, <1>5
<1>7. Parted(f, up, b, a, down) /\ Seen(e, f)
  BY <1>6, RubbedParts
<1>8. Len(q) = Len(b) + 1 /\ Len(b) \in Nat
  BY <1>5, OneMore, LenProperties
<1>9. Len(a) \in Nat /\ EDIT_MAX_COLS \in Nat
  BY <1>1, RoomFits, EditorAssumption
<1>10. RoomFor(up, b, a, down)
  BY <1>2, <1>8, <1>9 DEF RoomFor
<1>11. all_text(up \o <<q>>) = all_text(up \o <<b>>) \o <<ch>>
  <2> DEFINE one == <<ch>>
  <2>1. one \in Seq(Chars)
    OBVIOUS
  <2> HIDE DEF one
  <2>2. all_text(up \o <<b \o one>>) = all_text(up \o <<b>>) \o one
    BY <1>3, <2>1, TextGoesOn
  <2> QED
    BY <1>5, <2>2 DEF one
<1> HIDE DEF f
<1>12. DocOK(f)
  BY <1>7, <1>10, PartedOK
<1> DEFINE fore == all_text(up \o <<b>>)
           aft == a \o under(down)
<1>13. TextIs(e, all_text(up \o <<q>>), aft)
  BY <1>1, PartedText
<1>14. TextIs(f, fore, aft)
  BY <1>7, PartedText
<1>15. TextIs(e, fore \o <<ch>>, aft)
  BY <1>11, <1>13
<1> HIDE DEF fore, aft
<1>16. OneMoreThan(f, e, ch)
  BY <1>14, <1>15, OneMoreBefore
<1> QED
  BY <1>12, <1>16 DEF Edited, OneEdit, OneMoreThan, f

\* At the start of a line it takes the line's end above away.
LEMMA JoinedEdits ==
  ASSUME NEW e, DocOK(e), e.cursor_column = 0, e.cursor_line # 1,
         Len(e.lines[e.cursor_line - 1]) + Len(here(e)) <= EDIT_MAX_COLS
  PROVE  Edited(e, joined(e))
<1>1. PICK top, none, a, down : Parted(e, top, none, a, down)
  BY CanBeParted DEF DocOK
<1>2. RoomFor(top, none, a, down)
  BY <1>1, RoomFits DEF DocOK
<1>3. /\ top \in Seq(Seq(Chars)) /\ none \in Seq(Chars) /\ Len(none) = 0 /\ e.cursor_line = Len(top) + 1
      /\ a \in Seq(Chars) /\ down \in DocLines /\ e.lines = (top \o <<none \o a>>) \o down
  BY <1>1 DEF Parted, DocLines
<1>4. Len(top) # 0 /\ none = <<>>
  BY <1>3, EmptySeq
<1>5. PICK up \in Seq(Seq(Chars)), b \in Seq(Chars) : top = up \o <<b>>
  <2> DEFINE T == Seq(Chars)
  <2>1. top \in Seq(T) /\ Len(top) # 0
    BY <1>3, <1>4
  <2> HIDE DEF T
  <2>2. \E r \in Seq(T), c \in T : top = r \o <<c>>
    BY <2>1, LastApart
  <2> QED
    BY <2>2 DEF T
<1> DEFINE f == joined(e)
<1>6. up \in DocLines /\ top \in DocLines
  BY <1>3, <1>5 DEF DocLines
<1>7. Parted(e, up \o <<b>>, <<>>, a, down)
  BY <1>1, <1>4, <1>5
<1>8. Parted(f, up, b, a, down) /\ Seen(e, f)
  BY <1>6, <1>7, JoinedParts
<1>9. Len(top) = Len(up) + 1 /\ top[Len(up) + 1] = b /\ Len(up) \in Nat
  BY <1>5, OneMore, LenProperties
<1>10. e.lines[e.cursor_line - 1] = b
  <2> DEFINE rest == <<none \o a>>
  <2>1. none \o a \in Seq(Chars)
    BY <1>3, ConcatProperties
  <2>2. rest \in Seq(Seq(Chars)) /\ down \in Seq(Seq(Chars))
    BY <1>3, <2>1 DEF DocLines
  <2>3. e.lines = (top \o rest) \o down
    BY <1>3
  <2> HIDE DEF rest
  <2>4. (top \o rest) \o down = top \o (rest \o down) /\ rest \o down \in Seq(Seq(Chars))
    <3> DEFINE T == Seq(Chars)
    <3>1. top \in Seq(T) /\ rest \in Seq(T) /\ down \in Seq(T)
      BY <1>3, <2>2
    <3> HIDE DEF T
    <3>2. (top \o rest) \o down = top \o (rest \o down)
      BY <3>1, ConcatAssociative
    <3>3. rest \o down \in Seq(T)
      BY <3>1, ConcatProperties
    <3> QED
      BY <3>2, <3>3 DEF T
  <2> DEFINE more == rest \o down
  <2> HIDE DEF more
  <2>5. \A i \in 1..Len(top) : (top \o more)[i] = top[i]
    <3>1. more \in Seq(Seq(Chars))
      BY <2>4 DEF more
    <3> QED
      BY <1>3, <3>1, Joined
  <2>6. e.cursor_line - 1 = Len(top) /\ Len(top) \in 1..Len(top)
    BY <1>3, <1>9
  <2> QED
    BY <1>9, <2>3, <2>4, <2>5, <2>6 DEF more
<1>11. Len(here(e)) = Len(none) + Len(a) /\ Len(a) \in Nat /\ Len(down) \in Nat
  BY <1>1, RoomFits
<1>12. Len(b) + Len(a) <= EDIT_MAX_COLS
  <2>1. Len(here(e)) = Len(a)
    BY <1>3, <1>11
  <2> QED
    BY <1>10, <2>1
<1>13. short(up)
  <2> DEFINE one == <<b>>
  <2>1. one \in DocLines
    BY DEF DocLines
  <2>2. short(top) /\ top = up \o one
    BY <1>2, <1>5 DEF RoomFor
  <2> HIDE DEF one
  <2> QED
    BY <1>6, <2>1, <2>2, ShortJoined
<1>14. RoomFor(up, b, a, down)
  <2>1. EDIT_MAX_LINES \in Nat
    BY EditorAssumption
  <2> QED
    BY <1>2, <1>9, <1>11, <1>12, <1>13, <2>1 DEF RoomFor
<1>15. all_text(top \o <<none>>) = all_text(up \o <<b>>) \o <<LineEnd>>
  <2> DEFINE one == <<LineEnd>>
  <2>1. one \o <<>> = one
    <3>1. one \in Seq(Chars)
      BY DEF Chars
    <3> QED
      BY <3>1, ConcatEmptySeq
  <2>2. top # <<>>
    BY <1>4, EmptySeq
  <2>3. all_text(top \o <<none>>) = all_text(top) \o (<<LineEnd>> \o none)
    BY <1>3, <1>6, <2>2, TextOfLast
  <2> HIDE DEF one
  <2> QED
    BY <1>4, <1>5, <2>1, <2>3 DEF one
<1>16. LineEnd \in Chars
  BY DEF Chars
<1> HIDE DEF f
<1>17. DocOK(f)
  BY <1>8, <1>14, PartedOK
<1> DEFINE fore == all_text(up \o <<b>>)
           aft == a \o under(down)
<1>18. TextIs(e, all_text(top \o <<none>>), aft)
  BY <1>1, PartedText
<1>19. TextIs(f, fore, aft)
  BY <1>8, PartedText
<1>20. TextIs(e, fore \o <<LineEnd>>, aft)
  BY <1>15, <1>18
<1> HIDE DEF fore, aft
<1>21. OneMoreThan(f, e, LineEnd)
  BY <1>16, <1>19, <1>20, OneMoreBefore
<1>22. editor_text(f) = RemoveAt(editor_text(e), place(e)) /\ place(e) = place(f) + 1 /\ place(f) \in Nat
  BY <1>21 DEF OneMoreThan
<1>23. OneEdit(e, f)
  BY <1>22 DEF OneEdit
<1> QED
  BY <1>17, <1>23 DEF Edited, f

\* The key that rubs out makes one edit.
LEMMA BackspaceEdits ==
  ASSUME NEW e, DocOK(e)
  PROVE  Edited(e, editor_backspace(e))
<1>1. e.cursor_column \in 0..Len(e.lines[e.cursor_line]) /\ e.lines \in DocLines /\ e.cursor_line \in 1..Len(e.lines)
  BY DEF DocOK, CursorIn, DocType
<1>2. CASE e.cursor_column > 0
  BY <1>2, RubbedEdits DEF editor_backspace
<1>3. CASE ~(e.cursor_column > 0) /\ (e.cursor_line = 1 \/ Len(e.lines[e.cursor_line - 1]) + Len(here(e)) > EDIT_MAX_COLS)
  BY <1>3 DEF editor_backspace, Edited, OneEdit
<1>4. CASE ~(e.cursor_column > 0) /\ ~(e.cursor_line = 1 \/ Len(e.lines[e.cursor_line - 1]) + Len(here(e)) > EDIT_MAX_COLS)
  <2>1. e.cursor_column = 0
    BY <1>1, <1>4
  <2>2. e.cursor_line - 1 \in 1..Len(e.lines)
    BY <1>1, <1>4, LenProperties DEF DocLines
  <2>3. e.lines[e.cursor_line - 1] \in Seq(Chars) /\ e.lines[e.cursor_line] \in Seq(Chars)
    BY <1>1, <2>2, ElementOfSeq DEF DocLines
  <2>4. Len(e.lines[e.cursor_line - 1]) \in Nat /\ Len(here(e)) \in Nat /\ EDIT_MAX_COLS \in Nat
    BY <2>3, LenProperties, EditorAssumption DEF here
  <2>5. Len(e.lines[e.cursor_line - 1]) + Len(here(e)) <= EDIT_MAX_COLS
    BY <1>4, <2>4
  <2>6. Edited(e, joined(e))
    BY <1>4, <2>1, <2>5, JoinedEdits
  <2> QED
    BY <1>4, <2>6 DEF editor_backspace
<1> QED
  BY <1>2, <1>3, <1>4

\* The view follows a cursor on the text into the window.
LEMMA FollowOK ==
  ASSUME NEW f, CursorIn(f), Fits(f.lines), f.visible_lines >= 1
  PROVE  DocOK(follow_cursor(f))
<1>1. f \in DocType
  BY DEF CursorIn
<1>2. SameButView(f, follow_cursor(f))
  BY <1>1, FollowKeeps
<1>3. Seen(f, follow_cursor(f))
  BY <1>1, FollowShows
<1> DEFINE g == follow_cursor(f)
<1> HIDE DEF g
<1>4. SameButView(f, g) /\ Seen(f, g)
  BY <1>2, <1>3 DEF g
<1>5. CursorIn(g) /\ Fits(g.lines)
  BY <1>4 DEF CursorIn, SameButView
<1>6. g.visible_lines >= 1 /\ InWindow(g)
  BY <1>4 DEF Seen
<1> QED
  BY <1>5, <1>6 DEF DocOK, g

\* The keys that move the cursor, and the window that changes its height.
LEMMA MoveOK ==
  ASSUME NEW e, DocOK(e), NEW columns \in Int, NEW lines \in Int
  PROVE  DocOK(editor_move(e, columns, lines))
<1>1. /\ e \in DocType /\ e.lines \in DocLines /\ e.cursor_line \in 1..Len(e.lines) /\ e.cursor_column \in Int
      /\ Fits(e.lines) /\ e.visible_lines >= 1
  BY DEF DocOK, CursorIn, DocType
<1> DEFINE line == within(1, e.cursor_line + lines, Len(e.lines))
           column == within(0, e.cursor_column + columns, Len(e.lines[line]))
           f == [e EXCEPT !.cursor_line = line, !.cursor_column = column]
<1>2. Len(e.lines) \in Nat
  BY <1>1, LenProperties DEF DocLines
<1>3. line \in 1..Len(e.lines)
  BY <1>1, <1>2 DEF within
<1> HIDE DEF line
<1>4. e.lines[line] \in Seq(Chars)
  BY <1>1, <1>3, ElementOfSeq DEF DocLines
<1>5. Len(e.lines[line]) \in Nat
  BY <1>4, LenProperties
<1>6. column \in 0..Len(e.lines[line])
  BY <1>1, <1>5 DEF within
<1> HIDE DEF column
<1>7. line \in Int /\ column \in Int
  BY <1>2, <1>3, <1>5, <1>6
<1>8. f \in DocType /\ f.lines = e.lines /\ f.cursor_line = line /\ f.cursor_column = column
      /\ f.visible_lines = e.visible_lines
  BY <1>1, <1>7 DEF DocType
<1>9. editor_move(e, columns, lines) = follow_cursor(f)
  BY DEF editor_move, line, column
<1> HIDE DEF f
<1>10. CursorIn(f)
  BY <1>3, <1>6, <1>8 DEF CursorIn
<1>11. Fits(f.lines) /\ f.visible_lines >= 1
  BY <1>1, <1>8
<1> QED
  BY <1>9, <1>10, <1>11, FollowOK

\* The cursor may go to any column of its line.
LEMMA AlongOK ==
  ASSUME NEW e, DocOK(e), NEW column \in 0..Len(here(e))
  PROVE  DocOK([e EXCEPT !.cursor_column = column])
<1>1. /\ e \in DocType /\ e.lines \in DocLines /\ e.cursor_line \in 1..Len(e.lines)
      /\ Fits(e.lines) /\ e.visible_lines >= 1 /\ InWindow(e)
  BY DEF DocOK, CursorIn, DocType
<1>2. column \in Int
  OBVIOUS
<1> DEFINE f == [e EXCEPT !.cursor_column = column]
<1>3. f \in DocType /\ f.lines = e.lines /\ f.cursor_line = e.cursor_line /\ f.cursor_column = column
      /\ f.visible_lines = e.visible_lines /\ f.top_line = e.top_line
  BY <1>1, <1>2 DEF DocType
<1> HIDE DEF f
<1>4. CursorIn(f)
  BY <1>1, <1>3 DEF CursorIn, here
<1>5. InWindow(f)
  BY <1>1, <1>3 DEF InWindow
<1>6. DocOK(f)
  BY <1>1, <1>3, <1>4, <1>5 DEF DocOK
<1> QED
  BY <1>6 DEF f

\* The keys for the start and the end of a line keep the document in order.
LEMMA EndsOK ==
  ASSUME NEW e, DocOK(e)
  PROVE  DocOK(editor_home(e)) /\ DocOK(editor_end(e))
<1>1. e.lines \in DocLines /\ e.cursor_line \in 1..Len(e.lines)
  BY DEF DocOK, CursorIn, DocType
<1>2. here(e) \in Seq(Chars)
  BY <1>1, ElementOfSeq DEF here, DocLines
<1>3. Len(here(e)) \in Nat
  BY <1>2, LenProperties
<1>4. 0 \in 0..Len(here(e)) /\ Len(here(e)) \in 0..Len(here(e))
  BY <1>3
<1>5. DocOK([e EXCEPT !.cursor_column = 0]) /\ DocOK([e EXCEPT !.cursor_column = Len(here(e))])
  BY <1>4, AlongOK
<1> QED
  BY <1>5 DEF editor_home, editor_end

\* A window of another height keeps the document in order.
LEMMA FitOK ==
  ASSUME NEW e, DocOK(e), NEW height \in Heights
  PROVE  DocOK(editor_fit(e, height))
<1>1. e \in DocType /\ CursorIn(e) /\ Fits(e.lines)
  BY DEF DocOK, CursorIn
<1>2. height \in Nat \ {0}
  BY EditorAssumption
<1> DEFINE f == [e EXCEPT !.visible_lines = height]
<1>3. f \in DocType /\ f.lines = e.lines /\ f.cursor_line = e.cursor_line
      /\ f.cursor_column = e.cursor_column /\ f.visible_lines = height
  BY <1>1, <1>2 DEF DocType
<1>4. editor_fit(e, height) = follow_cursor(f)
  BY DEF editor_fit
<1> HIDE DEF f
<1>5. CursorIn(f) /\ Fits(f.lines)
  BY <1>1, <1>3 DEF CursorIn
<1>6. f.visible_lines >= 1
  BY <1>2, <1>3
<1> QED
  BY <1>4, <1>5, <1>6, FollowOK

\* Marking the document as saved keeps it in order.
LEMMA SavedOK ==
  ASSUME NEW e, DocOK(e)
  PROVE  DocOK([e EXCEPT !.changed = FALSE])
<1>1. e \in DocType
  BY DEF DocOK, CursorIn
<1> DEFINE f == [e EXCEPT !.changed = FALSE]
<1>2. f \in DocType /\ f.lines = e.lines /\ f.cursor_line = e.cursor_line /\ f.top_line = e.top_line
      /\ f.cursor_column = e.cursor_column /\ f.visible_lines = e.visible_lines
  BY <1>1 DEF DocType
<1> HIDE DEF f
<1>3. DocOK(f)
  BY <1>2 DEF DocOK, CursorIn, InWindow
<1> QED
  BY <1>3 DEF f

\* The document of an editor that has just started.
LEMMA FirstDocument == DocOK(editor_init)
<1> DEFINE none == <<>>
           one == <<none>>
           e == editor_init
<1>1. EDIT_MAX_COLS \in Nat /\ EDIT_MAX_LINES \in Nat \ {0}
  BY EditorAssumption
<1>2. none \in Seq(Chars) /\ Len(none) = 0
  BY EmptySeq
<1>3. e = [lines |-> one, cursor_line |-> 1, cursor_column |-> 0, top_line |-> 1,
           visible_lines |-> 1, changed |-> FALSE]
  BY DEF editor_init
<1> HIDE DEF none, e
<1>4. one \in DocLines /\ Len(one) = 1 /\ one[1] = none /\ short(one)
  BY <1>1, <1>2, ShortOne DEF DocLines
<1> HIDE DEF one
<1>5. e \in DocType
  BY <1>3, <1>4 DEF DocType
<1>7. e.lines = one /\ e.cursor_line = 1 /\ e.cursor_column = 0 /\ e.top_line = 1 /\ e.visible_lines = 1
  BY <1>3
<1>8. CursorIn(e)
  <2>1. 1 \in 1..Len(one) /\ 0 \in 0..Len(one[1])
    BY <1>2, <1>4
  <2> QED
    BY <1>5, <1>7, <2>1 DEF CursorIn
<1>9. Fits(e.lines)
  <2>1. 1 <= EDIT_MAX_LINES
    BY <1>1
  <2>2. Fits(one)
    BY <1>4, <2>1 DEF Fits
  <2> QED
    BY <1>7, <2>2
<1>6. CursorIn(e) /\ Fits(e.lines) /\ InWindow(e) /\ e.visible_lines >= 1
  BY <1>7, <1>8, <1>9 DEF InWindow
<1> QED
  BY <1>6 DEF DocOK, e

\* What has been read of a file: lines, one at least, of at most EDIT_MAX_COLS.
ReadLines == {lines \in DocLines : Len(lines) # 0 /\ short(lines)}

\* One more character of a file leaves lines that are short enough.
LEMMA LineLoaded ==
  ASSUME NEW lines \in ReadLines, NEW ch \in Chars
  PROVE  loaded_line(lines, ch) \in ReadLines
<1> DEFINE T == Seq(Chars)
           n == Len(lines)
<1>1. lines \in Seq(T) /\ n \in Nat /\ n # 0 /\ short(lines) /\ \A i \in 1..n : lines[i] \in T
  BY LenProperties, ElementOfSeq DEF ReadLines, DocLines
<1>2. EDIT_MAX_COLS \in Nat
  BY EditorAssumption
<1>3. CASE ch = LineEnd
  <2> DEFINE none == <<>>
             one == <<none>>
  <2>1. none \in T /\ Len(none) = 0
    BY EmptySeq
  <2> HIDE DEF none
  <2>2. short(one) /\ one \in DocLines
    BY <1>2, <2>1, ShortOne DEF DocLines
  <2> HIDE DEF T
  <2>3. lines \o <<none>> \in Seq(T) /\ Len(lines \o <<none>>) = n + 1
    BY <1>1, <2>1, OneMore
  <2> HIDE DEF one
  <2>4. short(lines \o one)
    BY <1>1, <2>2, ShortJoined DEF DocLines, T
  <2>5. Append(lines, none) = lines \o <<none>>
    BY <1>1, <2>1
  <2>6. loaded_line(lines, ch) = lines \o one
    BY <1>3, <2>5 DEF loaded_line, none, one
  <2>7. lines \o one \in Seq(T) /\ Len(lines \o one) # 0
    BY <1>1, <2>3 DEF one
  <2> QED
    BY <2>4, <2>6, <2>7 DEF ReadLines, DocLines, T
<1>4. CASE ch # LineEnd /\ Len(Last(lines)) >= EDIT_MAX_COLS
  BY <1>4 DEF loaded_line
<1>5. CASE ch # LineEnd /\ ~(Len(Last(lines)) >= EDIT_MAX_COLS)
  <2> DEFINE x == lines[n]
             y == Append(x, ch)
             g == [lines EXCEPT ![n] = y]
  <2>1. Last(lines) = x
    BY DEF Last
  <2>2. x \in T /\ Len(x) \in Nat
    BY <1>1, LenProperties
  <2>3. y \in T /\ Len(y) = Len(x) + 1
    BY <2>2, AppendProperties
  <2>4. loaded_line(lines, ch) = g
    BY <1>5 DEF loaded_line
  <2>5. Len(y) <= EDIT_MAX_COLS
    BY <1>2, <1>5, <2>1, <2>2, <2>3
  <2> HIDE DEF T, x, y
  <2>6. g \in Seq(T) /\ Len(g) = n /\ \A i \in 1..n : g[i] = IF i = n THEN y ELSE lines[i]
    BY <1>1, <2>3
  <2> HIDE DEF g
  <2>7. short(g)
    BY <1>1, <2>5, <2>6 DEF short
  <2> QED
    BY <1>1, <2>4, <2>6, <2>7 DEF ReadLines, DocLines, T
<1> QED
  BY <1>3, <1>4, <1>5

\* As many lines of what was read as a document holds.
LEMMA DocumentLoads ==
  ASSUME NEW text \in Seq(Chars)
  PROVE  DocOK(editor_load(text))
<1> DEFINE n == Len(text)
           none == << <<>> >>
           Eq(f) == f = [i \in 0..n |-> IF i = 0 THEN none ELSE loaded_line(f[i - 1], text[i])]
           after == CHOOSE f : Eq(f)
           step == [i \in 1..n |-> [x \in ReadLines |-> loaded_line(x, text[i])]]
<1>1. n \in Nat /\ \A i \in 1..n : text[i] \in Chars
  BY LenProperties, ElementOfSeq
<1>2. EDIT_MAX_COLS \in Nat /\ EDIT_MAX_LINES \in Nat \ {0}
  BY EditorAssumption
<1>3. none \in ReadLines
  <2>1. <<>> \in Seq(Chars) /\ Len(<<>>) = 0
    BY EmptySeq
  <2> DEFINE e0 == <<>>
  <2> HIDE DEF e0
  <2>2. e0 \in Seq(Chars) /\ Len(e0) = 0
    BY <2>1 DEF e0
  <2>3. short(<<e0>>) /\ <<e0>> \in DocLines /\ Len(<<e0>>) = 1
    BY <1>2, <2>2, ShortOne DEF DocLines
  <2>4. <<e0>> \in ReadLines
    BY <2>3 DEF ReadLines
  <2> QED
    BY <2>4 DEF e0
<1>4. \A i \in 1..n, x \in ReadLines : loaded_line(x, text[i]) \in ReadLines
  BY <1>1, LineLoaded
<1> HIDE DEF n, none
<1>5. step \in [1..n -> [ReadLines -> ReadLines]] /\ \A i \in 1..n, x \in ReadLines : step[i][x] = loaded_line(x, text[i])
  BY <1>4
<1> HIDE DEF step
<1>6. PICK h \in [0..n -> ReadLines] : Recurs(h, n, none, step)
  BY <1>1, <1>3, <1>5, RecursExist
<1>7. Eq(h)
  <2>1. h = [i \in 0..n |-> IF i = 0 THEN none ELSE step[i][h[i - 1]]]
    BY <1>6 DEF Recurs
  <2>2. \A i \in 0..n : i # 0 => i \in 1..n /\ i - 1 \in 0..n
    BY <1>1
  <2>3. \A i \in 0..n : i # 0 => step[i][h[i - 1]] = loaded_line(h[i - 1], text[i])
    BY <1>5, <1>6, <2>2
  <2> DEFINE g == [i \in 0..n |-> IF i = 0 THEN none ELSE loaded_line(h[i - 1], text[i])]
  <2>4. h = g
    BY <2>1, <2>3
  <2> QED
    BY <2>4
<1>8. Eq(after)
  BY <1>7
<1> HIDE DEF after
<1>9. \A i \in 0..n : after[i] \in ReadLines
  <2>1. after[0] \in ReadLines
    <3>1. 0 \in 0..n
      BY <1>1
    <3> QED
      BY <1>3, <1>8, <3>1
  <2>2. ASSUME NEW i \in 1..n, after[i - 1] \in ReadLines PROVE after[i] \in ReadLines
    <3>1. i \in 0..n /\ i # 0
      BY <1>1
    <3>2. after[i] = loaded_line(after[i - 1], text[i])
      BY <1>8, <3>1
    <3> QED
      BY <1>4, <2>2, <3>2
  <2> QED
    BY <1>1, <2>1, <2>2, RangeStays
<1> DEFINE all == after[n]
           m == EDIT_MAX_LINES
           held_back == IF Len(all) <= m THEN all ELSE SubSeq(all, 1, m)
           e == [editor_init EXCEPT !.lines = held_back]
<1>10. all \in ReadLines
  BY <1>1, <1>9
<1> HIDE DEF all
<1>11. held_back \in DocLines /\ Len(held_back) # 0 /\ Fits(held_back)
  <2>1. all \in DocLines /\ Len(all) \in Nat /\ Len(all) # 0 /\ short(all)
    BY <1>10, LenProperties DEF ReadLines, DocLines
  <2>2. CASE Len(all) <= m
    BY <2>1, <2>2 DEF Fits
  <2>3. CASE ~(Len(all) <= m)
    <3>1. m \in 1..Len(all) /\ m \in 0..Len(all)
      BY <1>2, <2>1, <2>3
    <3> DEFINE cut == SubSeq(all, 1, m)
    <3>2. cut \in DocLines /\ Len(cut) = m
      BY <2>1, <3>1, CutInTwo DEF DocLines
    <3>3. \A i \in 1..m : cut[i] = all[i]
      BY <1>2, <2>1, <3>1
    <3> HIDE DEF cut
    <3>4. short(cut)
      BY <2>1, <3>1, <3>2, <3>3 DEF short
    <3>5. Fits(cut) /\ Len(cut) # 0
      BY <1>2, <3>2, <3>4 DEF Fits
    <3> QED
      BY <2>3, <3>2, <3>5 DEF cut
  <2> QED
    BY <2>2, <2>3
<1>12. editor_load(text) = e
  BY DEF editor_load, all, after, n, none
<1> HIDE DEF held_back
<1>13. e.lines = held_back /\ e.cursor_line = 1 /\ e.cursor_column = 0 /\ e.top_line = 1 /\ e.visible_lines = 1
       /\ e \in DocType
  <2>1. /\ editor_init \in DocType /\ editor_init.cursor_line = 1 /\ editor_init.cursor_column = 0
        /\ editor_init.top_line = 1 /\ editor_init.visible_lines = 1
    BY FirstDocument DEF DocOK, CursorIn, editor_init
  <2>2. held_back \in DocLines
    BY <1>11
  <2> QED
    BY <2>1, <2>2 DEF DocType
<1> HIDE DEF e
<1>14. Len(held_back) \in Nat /\ Len(held_back[1]) \in Nat
  <2>1. Len(held_back) \in Nat
    BY <1>11, LenProperties DEF DocLines
  <2>2. 1 \in 1..Len(held_back)
    BY <1>11, <2>1
  <2>3. held_back[1] \in Seq(Chars)
    BY <1>11, <2>2, ElementOfSeq DEF DocLines
  <2> QED
    BY <2>1, <2>3, LenProperties
<1>15. CursorIn(e)
  <2>1. 1 \in 1..Len(held_back) /\ 0 \in 0..Len(held_back[1])
    BY <1>11, <1>14
  <2> QED
    BY <1>13, <2>1 DEF CursorIn
<1>16. InWindow(e) /\ e.visible_lines >= 1 /\ Fits(e.lines)
  BY <1>11, <1>13 DEF InWindow
<1>17. DocOK(e)
  BY <1>15, <1>16 DEF DocOK
<1> QED
  BY <1>12, <1>17

EditorSpec == EditorInit /\ [][EditorNext]_editor_vars

\* Every step of the editor keeps the document within its bounds and its cursor
\* on the text, and a key that edits it makes one edit of its text.
EditorInv == DocOK(editor)
KeyEdits == EditKey => OneEdit(editor, editor')
\* Every step of the editor keeps its document in order.
LEMMA EditorSteps ==
  ASSUME EditorInv, EditorNext
  PROVE  EditorInv'
<1>1. DocOK(editor)
  BY DEF EditorInv
<1> SUFFICES DocOK(editor')
  BY DEF EditorInv
<1>2. CASE Open
  <2>1. PICK text \in Documents \cup {<<>>} : editor' = editor_load(text)
    BY <1>2 DEF Open
  <2>2. text \in Seq(Chars)
    BY EditorAssumption, EmptySeq DEF Chars
  <2> QED
    BY <2>1, <2>2, DocumentLoads
<1>3. CASE Fit
  BY <1>1, <1>3, FitOK DEF Fit
<1>4. CASE EditKey
  <2>1. \A ch \in Letters : DocOK(editor_insert(editor, ch))
    BY <1>1, InsertEdits DEF Edited, Chars
  <2>2. DocOK(editor_newline(editor)) /\ DocOK(editor_backspace(editor))
    BY <1>1, NewlineEdits, BackspaceEdits DEF Edited
  <2> QED
    BY <1>4, <2>1, <2>2 DEF EditKey, Key
<1>5. CASE MoveKey
  <2>1. CASE \E d \in {<<0, -1>>, <<0, 1>>, <<-1, 0>>, <<1, 0>>} : Key(editor_move(editor, d[1], d[2]))
    <3>1. PICK d \in {<<0, -1>>, <<0, 1>>, <<-1, 0>>, <<1, 0>>} : Key(editor_move(editor, d[1], d[2]))
      BY <2>1
    <3>2. d[1] \in Int /\ d[2] \in Int
      BY <3>1
    <3> QED
      BY <1>1, <3>1, <3>2, MoveOK DEF Key
  <2>2. CASE Key(editor_home(editor)) \/ Key(editor_end(editor))
    BY <1>1, <2>2, EndsOK DEF Key
  <2> QED
    BY <1>5, <2>1, <2>2 DEF MoveKey
<1>6. CASE Save
  BY <1>1, <1>6, SavedOK DEF Save
<1>7. CASE RefusedSave
  BY <1>1, <1>7 DEF RefusedSave
<1> QED
  BY <1>2, <1>3, <1>4, <1>5, <1>6, <1>7 DEF EditorNext

\* A key that edits makes one edit of the text.
LEMMA KeyMakesOneEdit ==
  ASSUME EditorInv, EditKey
  PROVE  OneEdit(editor, editor')
<1>1. DocOK(editor)
  BY DEF EditorInv
<1>2. \A ch \in Letters : OneEdit(editor, editor_insert(editor, ch))
  BY <1>1, InsertEdits DEF Edited, Chars
<1>3. OneEdit(editor, editor_newline(editor)) /\ OneEdit(editor, editor_backspace(editor))
  BY <1>1, NewlineEdits, BackspaceEdits DEF Edited
<1> QED
  BY <1>2, <1>3 DEF EditKey, Key

\* The document of the editor is always in order.
LEMMA EditorKeeps == EditorSpec => []EditorInv
<1>1. EditorInit => EditorInv
  BY FirstDocument DEF EditorInit, EditorInv
<1>2. EditorInv /\ [EditorNext]_editor_vars => EditorInv'
  <2>1. CASE UNCHANGED editor_vars
    BY <2>1 DEF editor_vars, EditorInv
  <2> QED
    BY <2>1, EditorSteps
<1> QED
  BY <1>1, <1>2, PTL DEF EditorSpec

\* In every state the document fits the arrays it is kept in (EDIT_MAX_LINES
\* lines of EDIT_MAX_COLS characters), and the cursor is on its text and in the
\* window (editor.c:140-151, 246-307), for every limit, height and file.
THEOREM EditorStaysInBounds == EditorSpec => []EditorTypeOK
<1>1. EditorInv => EditorTypeOK
  <2> SUFFICES ASSUME DocOK(editor) PROVE EditorTypeOK
    BY DEF EditorInv
  <2>1. /\ editor.lines \in DocLines /\ Fits(editor.lines) /\ InWindow(editor)
        /\ editor.cursor_line \in 1..Len(editor.lines)
        /\ editor.cursor_column \in 0..Len(editor.lines[editor.cursor_line])
    BY DEF DocOK, CursorIn, DocType
  <2>2. Len(editor.lines) \in Nat /\ DOMAIN editor.lines = 1..Len(editor.lines) /\ EDIT_MAX_LINES \in Nat
    BY <2>1, LenProperties, EditorAssumption DEF DocLines
  <2>3. Len(editor.lines) \in 1..EDIT_MAX_LINES
    BY <2>1, <2>2 DEF Fits
  <2>4. \A i \in DOMAIN editor.lines : Len(editor.lines[i]) <= EDIT_MAX_COLS
    BY <2>1, <2>2 DEF Fits, short
  <2>5. CursorIsOnTheText
    BY <2>1, <2>2 DEF CursorIsOnTheText, InWindow, here
  <2> QED
    BY <2>3, <2>4, <2>5 DEF EditorTypeOK
<1> QED
  BY <1>1, EditorKeeps, PTL

\* A key puts one character of the document's text in where the cursor is, takes
\* the one before it out, or leaves the text as it is (editor.c:155-244), however
\* its lines are split and joined.
THEOREM EditorEditsOneText == EditorSpec => EditsOneText
<1> DEFINE P == (editor' # editor /\ EditKey) =>
                  LET text == editor_text(editor)
                      spot == place(editor)
                  IN  \/ \E ch \in Letters \cup {LineEnd} :
                           editor_text(editor') = InsertAt(text, spot + 1, ch) /\ place(editor') = spot + 1
                      \/ /\ spot > 0 /\ place(editor') = spot - 1
                         /\ editor_text(editor') = RemoveAt(text, spot)
<1>1. EditorInv /\ [EditorNext]_editor_vars => [P]_editor_vars
  <2> SUFFICES ASSUME EditorInv, editor' # editor, EditKey PROVE P
    OBVIOUS
  <2>1. OneEdit(editor, editor')
    BY KeyMakesOneEdit
  <2> QED
    BY <2>1 DEF OneEdit, Chars
<1>2. [][P]_editor_vars <=> EditsOneText
  BY DEF EditsOneText
<1> HIDE DEF P
<1> QED
  BY <1>1, <1>2, EditorKeeps, PTL DEF EditorSpec
=============================================================================
