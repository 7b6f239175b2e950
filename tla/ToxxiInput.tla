---------------------------- MODULE ToxxiInput ----------------------------
(***************************************************************************)
(* The text field of the toxxi client (toxxi/src/widgets/input_box.rs).  A *)
(* text is a sequence of characters; a position is the number of           *)
(* characters before it, where the code has a byte offset.  Every          *)
(* character is a grapheme of width 1.                                     *)
(*                                                                         *)
(* A field is a record                                                     *)
(*   text, cur   the text and the cursor                                   *)
(*   sel         the selection: <<>>, or its two ends, the fixed one first *)
(*   clip        the clipboard; undo, redo: the stacks                     *)
(*   width       last_width: 0 when the layout is out of date              *)
(*   lines       the layout: the first position and the length of each     *)
(*               line                                                      *)
(*   dead        a slice was out of bounds: the client panics              *)
(***************************************************************************)
EXTENDS Integers, Sequences, SequencesExt

CONSTANTS
    Columns,    \* the width of the field on the screen
    Prompt,     \* the width of the prompt
    MaxUndo     \* 100

NL == "\n"
Space(c) == c \in {" ", NL}
Letters == {"a", "b", "c", "f", "g", "0", "1"}

CutOut(t, lo, hi) == SubSeq(t, 1, lo) \o SubSeq(t, hi + 1, Len(t))
Splice(t, at, s) == SubSeq(t, 1, at) \o s \o SubSeq(t, at + 1, Len(t))

Invalid(b) == [b EXCEPT !.width = 0]

-----------------------------------------------------------------------------
(* The layout *)

(* ensure_layout: a line ends at a newline, or where the next character    *)
(* would take the last column, which is the wrap indicator's.              *)
Layout(t) ==
    LET line(acc) == [from |-> acc.from, len |-> acc.len]
        step(acc, i) ==
            IF t[i] = NL
            THEN [done |-> Append(acc.done, line(acc)), from |-> i, len |-> 0]
            ELSE IF Prompt + acc.len + 1 > Columns - 1
            THEN [done |-> Append(acc.done, line(acc)), from |-> i - 1, len |-> 1]
            ELSE [acc EXCEPT !.len = @ + 1]
        all == FoldLeft(step, [done |-> <<>>, from |-> 0, len |-> 0],
                        [i \in 1 .. Len(t) |-> i])
    IN  Append(all.done, line(all))

Arranged(b) ==
    IF b.width = Columns THEN b
    ELSE [b EXCEPT !.width = Columns, !.lines = Layout(b.text)]

NewBox == Arranged([text |-> <<>>, cur |-> 0, sel |-> <<>>, clip |-> <<>>,
                    undo |-> <<>>, redo |-> <<>>, width |-> 0, lines |-> <<>>,
                    dead |-> FALSE])

(* find_cursor_2d, in the layout there is: the first line that holds the   *)
(* cursor or is empty; the cursor is nowhere when the set is empty.        *)
FindCursor(b) ==
    LET hits == {i \in DOMAIN b.lines :
                   \/ b.lines[i].len = 0
                   \/ b.cur \in b.lines[i].from .. b.lines[i].from + b.lines[i].len}
        at(i) == [line |-> i,
                  x |-> IF b.lines[i].len = 0 THEN 0
                        ELSE Prompt + b.cur - b.lines[i].from]
    IN  {at(i) : i \in {j \in hits : \A h \in hits : j <= h}}

(* cursor: the origin when it is nowhere. *)
Cursor(b) ==
    IF FindCursor(b) = {} THEN [line |-> 1, x |-> 0]
    ELSE CHOOSE p \in FindCursor(b) : TRUE

(* The column after the last character of a line. *)
LineEnd(b, i) == IF b.lines[i].len = 0 THEN 0 ELSE Prompt + b.lines[i].len

(* find_closest_pos *)
ClosestPos(b, i, x) ==
    LET n == b.lines[i].len IN
    IF n = 0 THEN b.cur
    ELSE b.lines[i].from + (IF x < Prompt THEN 0 ELSE IF x - Prompt > n THEN n
                            ELSE x - Prompt)

-----------------------------------------------------------------------------
(* Undo *)

Snapshot(b) == [text |-> b.text, cur |-> b.cur]

RecordUndo(b) ==
    LET undo == Append(b.undo, Snapshot(b)) IN
    Invalid([b EXCEPT !.undo = IF Len(undo) > MaxUndo THEN Tail(undo) ELSE undo,
                      !.redo = <<>>])

Restored(b, entry) ==
    Invalid([b EXCEPT !.text = entry.text, !.cur = entry.cur, !.sel = <<>>])

Undo(b) ==
    IF b.undo = <<>> THEN b
    ELSE [Restored(b, Last(b.undo)) EXCEPT !.undo = Front(@),
                                           !.redo = Append(@, Snapshot(b))]

Redo(b) ==
    IF b.redo = <<>> THEN b
    ELSE [Restored(b, Last(b.redo)) EXCEPT !.redo = Front(@),
                                           !.undo = Append(@, Snapshot(b))]

-----------------------------------------------------------------------------
(* Editing *)

Low(b) == IF b.sel[1] < b.sel[2] THEN b.sel[1] ELSE b.sel[2]
High(b) == IF b.sel[1] < b.sel[2] THEN b.sel[2] ELSE b.sel[1]

(* delete_selection.  A selection that a shorter text has left behind is   *)
(* out of bounds.                                                          *)
DeleteSelection(b) ==
    IF b.sel = <<>> THEN b
    ELSE IF High(b) > Len(b.text) THEN [b EXCEPT !.dead = TRUE]
    ELSE [b EXCEPT !.text = CutOut(@, Low(b), High(b)), !.cur = Low(b), !.sel = <<>>]

(* insert_char, insert_newline, insert_str and paste *)
Insert(b, s) ==
    LET b1 == DeleteSelection(RecordUndo(b)) IN
    IF b1.dead THEN b1
    ELSE [b1 EXCEPT !.text = Splice(@, b1.cur, s), !.cur = @ + Len(s)]

Copy(b) ==
    IF b.sel = <<>> THEN b
    ELSE IF High(b) > Len(b.text) THEN [b EXCEPT !.dead = TRUE]
    ELSE [b EXCEPT !.clip = SubSeq(b.text, Low(b) + 1, High(b))]

Cut(b) == IF b.sel = <<>> THEN b ELSE DeleteSelection(RecordUndo(Copy(b)))

Paste(b) == IF b.clip = <<>> THEN b ELSE Insert(b, b.clip)

(* clear and set_value *)
SetValue(b, t) ==
    [RecordUndo(b) EXCEPT !.text = t, !.cur = Len(t), !.sel = <<>>]

ClearBox(b) == IF b.text = <<>> THEN b ELSE SetValue(b, <<>>)

(* The selection goes, or else what is between two positions. *)
Erase(b, lo, hi) ==
    LET b1 == RecordUndo(b) IN
    IF b.sel # <<>> THEN DeleteSelection(b1)
    ELSE [b1 EXCEPT !.text = CutOut(@, lo, hi), !.cur = lo]

DeletePrev(b) == Erase(b, IF b.cur > 0 THEN b.cur - 1 ELSE 0, b.cur)
DeleteNext(b) == Erase(b, b.cur, IF b.cur < Len(b.text) THEN b.cur + 1 ELSE b.cur)

(* (Mutant: what is deleted cannot be brought back.)                       *)
DeleteForGood(b) ==
    Invalid([b EXCEPT !.text = SubSeq(@, b.cur + 1, Len(@)), !.cur = 0])

(* delete_to_start and delete_to_end keep the selection as it is. *)
DeleteToStart(b) ==
    [RecordUndo(b) EXCEPT !.text = SubSeq(@, b.cur + 1, Len(@)), !.cur = 0]

DeleteToEnd(b) == [RecordUndo(b) EXCEPT !.text = SubSeq(@, 1, b.cur)]

-----------------------------------------------------------------------------
(* Moving *)

(* handle_selection_movement *)
Moved(b, pos, extend) ==
    [b EXCEPT !.cur = pos,
              !.sel = IF ~extend THEN <<>>
                      ELSE IF b.sel # <<>>
                      THEN IF pos = b.sel[1] THEN <<>> ELSE <<b.sel[1], pos>>
                      ELSE IF pos # b.cur THEN <<b.cur, pos>> ELSE <<>>]

MoveLeft(b, extend) ==
    Invalid(Moved(b, IF b.cur > 0 THEN b.cur - 1 ELSE 0, extend))

MoveRight(b, extend) ==
    Invalid(Moved(b, IF b.cur < Len(b.text) THEN b.cur + 1 ELSE b.cur, extend))

(* move_cursor_up and move_cursor_down go to the line next to the          *)
(* cursor's, to an end of the text where there is none or no layout.       *)
MoveLine(b, by, end, extend) ==
    LET p == Cursor(b) IN
    Moved(b, IF b.width = 0 THEN end
             ELSE IF FindCursor(b) = {} THEN b.cur
             ELSE IF p.line + by \in DOMAIN b.lines THEN ClosestPos(b, p.line + by, p.x)
             ELSE end,
          extend)

MoveUp(b, extend) == MoveLine(b, -1, 0, extend)
MoveDown(b, extend) == MoveLine(b, 1, Len(b.text), extend)

(* Where a run of characters of one kind ends, to the left and right of i. *)
RunLeft(t, i, P(_)) ==
    CHOOSE j \in 0 .. i : /\ \A k \in j + 1 .. i : P(t[k])
                          /\ j = 0 \/ ~P(t[j])
RunRight(t, i, P(_)) ==
    CHOOSE j \in i .. Len(t) : /\ \A k \in i + 1 .. j : P(t[k])
                               /\ j = Len(t) \/ ~P(t[j + 1])

Alike(c, d) == ~Space(c) /\ (c \in Letters) = (d \in Letters)

(* Over blanks, then over a word or over other signs. *)
WordLeft(b) ==
    LET i == RunLeft(b.text, b.cur, Space) IN
    IF i = 0 THEN 0 ELSE RunLeft(b.text, i, LAMBDA c : Alike(c, b.text[i]))

WordRight(b) ==
    LET i == RunRight(b.text, b.cur, Space) IN
    IF i = Len(b.text) THEN i
    ELSE RunRight(b.text, i, LAMBDA c : Alike(c, b.text[i + 1]))

(* At the end of the text nothing happens, to the selection neither. *)
MoveWordLeft(b, extend) == IF b.cur = 0 THEN b ELSE Moved(b, WordLeft(b), extend)
MoveWordRight(b, extend) ==
    IF b.cur = Len(b.text) THEN b ELSE Moved(b, WordRight(b), extend)

DeleteWordLeft(b) == Erase(b, WordLeft(b), b.cur)
DeleteWordRight(b) == Erase(b, b.cur, WordRight(b))

SelectAll(b) ==
    Invalid([b EXCEPT !.cur = Len(b.text), !.sel = <<0, Len(b.text)>>])

-----------------------------------------------------------------------------
(* handle_event: the field after the key, and whether its text is taken to *)
(* have changed.  Enter does not come here.                                *)
Unchanged(b) == [b |-> b, changed |-> FALSE]
Changed(b) == [b |-> b, changed |-> TRUE]

CtrlKeys == {"c", "v", "x", "z", "y", "a", "w", "u", "k"}

BoxCtrl(b, c) ==
    CASE c = "c" -> Unchanged(Copy(b))
      [] c = "a" -> Unchanged(SelectAll(b))
      [] c = "v" -> Changed(Paste(b))
      [] c = "x" -> Changed(Cut(b))
      [] c = "z" -> Changed(Undo(b))
      [] c = "y" -> Changed(Redo(b))
      [] c = "w" -> Changed(DeleteWordLeft(b))
      [] c = "u" -> Changed(DeleteToStart(b))
      [] c = "k" -> Changed(DeleteToEnd(b))

HandleEvent(b, key) ==
    LET ctrl   == "ctrl" \in key.mods
        extend == "shift" \in key.mods
    IN  CASE key.char /\ ctrl /\ key.code \in CtrlKeys -> BoxCtrl(b, key.code)
          [] key.char /\ key.mods \subseteq {"shift"} -> Changed(Insert(b, <<key.code>>))
          [] key.code = "Backspace" ->
               Changed(IF ctrl THEN DeleteWordLeft(b) ELSE DeletePrev(b))
          [] key.code = "Delete" ->
               Changed(IF ctrl THEN DeleteWordRight(b) ELSE DeleteNext(b))
          [] key.code = "Left" ->
               Unchanged(IF ctrl THEN MoveWordLeft(b, extend) ELSE MoveLeft(b, extend))
          [] key.code = "Right" ->
               Unchanged(IF ctrl THEN MoveWordRight(b, extend) ELSE MoveRight(b, extend))
          [] key.code = "Up"   -> Unchanged(MoveUp(b, extend))
          [] key.code = "Down" -> Unchanged(MoveDown(b, extend))
          [] key.code = "Home" -> Unchanged(Moved(b, 0, extend))
          [] key.code = "End"  -> Unchanged(Moved(b, Len(b.text), extend))
          [] OTHER -> Unchanged(b)
=============================================================================
