------------------------------ MODULE Pointer -------------------------------
(***************************************************************************)
(* The mouse of the bare metal machine: the packets its interrupts bring,  *)
(* src/src/arch/x86/driver.cpp, and the pointer over the text,             *)
(* src/src/arch/x86/entry.cpp.                                             *)
(*                                                                         *)
(* The screen is one row of text, a column a cell of 8 pixels.  The mouse  *)
(* interrupt comes between any two of the steps of drawText, which         *)
(* switches no interrupts off; each loop over pixels is one step.          *)
(***************************************************************************)
EXTENDS Integers

CONSTANTS
  Columns,   \* the columns of the row that are modelled
  Row,       \* which row of text
  Glyphs     \* what can stand in a column

ASSUME PointerAssumption ==
  /\ Columns \subseteq Nat
  /\ Row \in Nat
  /\ "blank" \in Glyphs /\ "arrow" \notin Glyphs

VARIABLES
  current_packet,  \* how many bytes of the packet have come
  current_state,   \* flags, x and y of the packet
  mouse_state,     \* where the mouse is
  saved_under,     \* whether the pixels under the pointer are saved
  saved_x, saved_y,
  saved_pixels,    \* saved_under_pointer, by column
  shown,           \* the screen
  draw,            \* the drawText going on
  text,            \* history: the screen as it would be without a pointer
  clash            \* history: the mouse interrupted a drawText that it touched

packet_vars  == <<current_packet, current_state, mouse_state>>
overlay_vars == <<saved_under, saved_x, saved_y, saved_pixels, shown>>
pointer_vars == <<packet_vars, overlay_vars, draw, text, clash>>

Idle == [at |-> "idle", column |-> 0, length |-> 0, glyph |-> "blank", overlaps |-> FALSE]

\* initialize_mouse; the pointer is not painted yet.
PointerInit ==
  /\ current_packet = 0
  /\ current_state = [flags |-> 0, x |-> 0, y |-> 0]
  /\ mouse_state = [x |-> 40, y |-> 25]
  /\ saved_under = FALSE
  /\ saved_x = 0
  /\ saved_y = 0
  /\ saved_pixels = [c \in Columns |-> "blank"]
  /\ shown = [c \in Columns |-> "blank"]
  /\ draw = Idle
  /\ text = [c \in Columns |-> "blank"]
  /\ clash = FALSE

-----------------------------------------------------------------------------
(***************************************************************************)
(* The pointer on the screen.                                              *)
(***************************************************************************)
Least(a, b) == IF a < b THEN a ELSE b
Greatest(a, b) == IF a < b THEN b ELSE a

\* The columns of which a pointer of 8 x 16 pixels at (x, y) covers some.
Covered(x, y) ==
  {c \in Columns : 8*c < x + 8 /\ x < 8*c + 8 /\ 16*Row < y + 16 /\ y < 16*Row + 8}

\* overlapsMouse, for the pointer at (px, py).
Overlaps(px, py, column, length) ==
  ~( \/ 8*column > px + 8
     \/ 8*column + 8*length < px
     \/ 16*Row > py + 16
     \/ 16*Row + 8 < py )

\* restoreMouse.
Restored ==
  [c \in Columns |-> IF saved_under /\ c \in Covered(saved_x, saved_y)
                     THEN saved_pixels[c] ELSE shown[c]]

\* saveMouse and paintMouse at (x, y) of a screen.
Saved(screen, x, y) == [c \in Columns |-> IF c \in Covered(x, y) THEN screen[c] ELSE "blank"]
Painted(screen, x, y) == [c \in Columns |-> IF c \in Covered(x, y) THEN "arrow" ELSE screen[c]]

DrawMousePointer2(x, y) ==
  LET px == Least(5*x, 1280)
      py == Least(5*y, 1024)
  IN  /\ saved_x' = px
      /\ saved_y' = py
      /\ saved_under' = TRUE
      /\ saved_pixels' = Saved(Restored, px, py)
      /\ shown' = Painted(Restored, px, py)
      /\ clash' = (clash \/ /\ draw.at # "idle"
                            /\ \/ Overlaps(saved_x, saved_y, draw.column, draw.length)
                               \/ Overlaps(px, py, draw.column, draw.length))

-----------------------------------------------------------------------------
(***************************************************************************)
(* The packets: a byte of flags, one of movement in x and one in y.        *)
(***************************************************************************)
Bit(byte, n) == (byte \div 2^n) % 2 = 1
Int16(n) == ((n + 32768) % 65536) - 32768

ALWAYS_ONE == 3
X_SIGN == 4
Y_SIGN == 5
X_OVERFLOW == 6
Y_OVERFLOW == 7

\* A movement that overflowed leaves the one of the packet before.
Movement(flags, sign, overflow, byte, before) ==
  IF Bit(flags, overflow) THEN before
  ELSE IF Bit(flags, sign) THEN byte - 256 ELSE byte

\* on_complete and drawMousePointer: the mouse moves, and the pointer with it.
OnComplete(state) ==
  LET x == Int16(mouse_state.x + state.x)
      y == Int16(mouse_state.y - state.y)
  IN  /\ mouse_state' = [x |-> x, y |-> y]
      /\ DrawMousePointer2(Greatest(x \div 4, 0), Greatest(y \div 4, 0))

\* process_packet.
ProcessPacket(byte) ==
  LET flags == current_state.flags
      x == Movement(flags, X_SIGN, X_OVERFLOW, byte, current_state.x)
      y == Movement(flags, Y_SIGN, Y_OVERFLOW, byte, current_state.y)
  IN  /\ UNCHANGED <<draw, text>>
      /\ \/ /\ current_packet = 0
            /\ IF Bit(byte, ALWAYS_ONE)
               THEN /\ current_state' = [current_state EXCEPT !.flags = byte]
                    /\ current_packet' = 1
               ELSE UNCHANGED <<current_state, current_packet>>
            /\ UNCHANGED <<mouse_state, overlay_vars, clash>>
         \/ /\ current_packet = 1
            /\ current_state' = [current_state EXCEPT !.x = x]
            /\ current_packet' = 2
            /\ UNCHANGED <<mouse_state, overlay_vars, clash>>
         \/ /\ current_packet = 2
            /\ current_state' = [current_state EXCEPT !.y = y]
            /\ current_packet' = 0
            /\ OnComplete(current_state')

-----------------------------------------------------------------------------
(***************************************************************************)
(* drawText.                                                               *)
(***************************************************************************)
At(place) == draw' = [draw EXCEPT !.at = place]

BeginText(column, length, glyph) ==
  LET overlaps == Overlaps(saved_x, saved_y, column, length)
  IN  /\ draw.at = "idle"
      /\ draw' = [at |-> IF overlaps THEN "restore" ELSE "glyphs", column |-> column,
                  length |-> length, glyph |-> glyph, overlaps |-> overlaps]
      /\ UNCHANGED <<packet_vars, overlay_vars, text, clash>>

RestoreMouse ==
  /\ draw.at = "restore"
  /\ At("glyphs")
  /\ shown' = Restored
  /\ saved_under' = FALSE
  /\ UNCHANGED <<packet_vars, saved_x, saved_y, saved_pixels, text, clash>>

WithText(screen) ==
  [c \in Columns |-> IF c \in draw.column .. draw.column + draw.length - 1
                     THEN draw.glyph ELSE screen[c]]

PutGlyphs ==
  /\ draw.at = "glyphs"
  /\ shown' = WithText(shown)
  /\ text' = WithText(text)
  /\ IF draw.overlaps THEN At("save") ELSE draw' = Idle
  /\ UNCHANGED <<packet_vars, saved_under, saved_x, saved_y, saved_pixels, clash>>

\* A faulty drawText that paints the pointer without saving what is under it.
SaveMouse_not ==
  /\ draw.at = "save"
  /\ At("paint")
  /\ saved_under' = TRUE
  /\ UNCHANGED <<packet_vars, saved_x, saved_y, saved_pixels, shown, text, clash>>

SaveMouse ==
  /\ draw.at = "save"
  /\ At("paint")
  /\ saved_pixels' = Saved(shown, saved_x, saved_y)
  /\ saved_under' = TRUE
  /\ UNCHANGED <<packet_vars, saved_x, saved_y, shown, text, clash>>

PaintMouse ==
  /\ draw.at = "paint"
  /\ draw' = Idle
  /\ shown' = Painted(shown, saved_x, saved_y)
  /\ UNCHANGED <<packet_vars, saved_under, saved_x, saved_y, saved_pixels, text, clash>>

DrawStep == RestoreMouse \/ PutGlyphs \/ SaveMouse \/ PaintMouse

-----------------------------------------------------------------------------
\* As long as no packet was completed during a drawText whose text the pointer
\* touches before or after, the screen shows the text with the pointer over it,
\* and under the pointer the text is saved that moving it will put back, also
\* when packets come during other texts (entry.cpp:573).
PointerOverText ==
  ~clash /\ draw.at = "idle" =>
    \A c \in Columns :
      IF saved_under /\ c \in Covered(saved_x, saved_y)
      THEN shown[c] = "arrow" /\ saved_pixels[c] = text[c]
      ELSE shown[c] = text[c]
=============================================================================
