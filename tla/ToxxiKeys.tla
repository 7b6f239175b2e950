---------------------------- MODULE ToxxiKeys -----------------------------
(***************************************************************************)
(* The keys of the toxxi client (update.rs, handle_key_event): the text    *)
(* field, its history, the completion of words, the menu of commands, the  *)
(* quick switcher and the emoji picker.  A key is a record: code, mods (a  *)
(* set), char (whether the code is a character).                           *)
(*                                                                         *)
(* The input state is a record                                             *)
(*   box      the field                                                    *)
(*   multi    input_mode is MultiLine; nav: ui_mode is Navigation          *)
(*   hist     input_history; hidx: the entry shown, 0 for none; saved: the *)
(*            text before it                                               *)
(*   comp     the completion: on, cands, idx, orig                         *)
(*   menu, switch, pick   the menu, the switcher, the picker: <<>> or one  *)
(* Letter case is not modelled; names are sequences of characters.         *)
(***************************************************************************)
EXTENDS ToxxiInput, ToxxiCommands

CONSTANTS
    NameOf(_),      \* the names of the windows
    Commands,       \* the commands in order: name, args, friend (whether the
                    \* argument is the number of a friend)
    Emojis,         \* the emojis: name, sign
    Cols,           \* the columns of the picker
    GridCols,       \* 10: those of the completion
    Blocked,        \* the strings that are not to be sent
    Pasted,         \* what the terminal pastes
    LineCommand(_)  \* the command that a line is

NewInput(hist) ==
    [box |-> NewBox, multi |-> FALSE, nav |-> FALSE, hist |-> hist, hidx |-> 0,
     saved |-> <<>>,
     comp |-> [on |-> FALSE, cands |-> <<>>, idx |-> 1, orig |-> <<>>],
     menu |-> <<>>, switch |-> <<>>, pick |-> <<>>]

StartsWith(s, t) == IsPrefix(t, s)
IsCommand(t) == t # <<>> /\ t[1] = "/"
EndsBlank(t) == t # <<>> /\ Last(t) = " "

(* split_whitespace *)
Parts(t) ==
    LET starts == {i \in DOMAIN t : ~Space(t[i]) /\ (i = 1 \/ Space(t[i - 1]))}
        from(k) == CHOOSE i \in starts : Cardinality({j \in starts : j <= i}) = k
    IN  [k \in 1 .. Cardinality(starts) |->
           SubSeq(t, from(k), RunRight(t, from(k), LAMBDA c : ~Space(c)))]

(* What a step of the input leaves behind, with or without work for others. *)
Pressed(k, u) == [k |-> k, u |-> u]
Quietly(m, k) == Pressed(k, Done(m))
WithBox(k, b) == [k EXCEPT !.box = b]

-----------------------------------------------------------------------------
(* Fuzzy search *)

(* find_fuzzy_indices: the places of the signs of the query in the name,   *)
(* as far as they are found one after the other.                           *)
FuzzyIndices(name, query) ==
    LET q == SelectSeq(query, LAMBDA c : ~Space(c)) IN
    FoldLeft(LAMBDA acc, i : IF Len(acc) < Len(q) /\ name[i] = q[Len(acc) + 1]
                             THEN Append(acc, i) ELSE acc,
             <<>>, [i \in 1 .. Len(name) |-> i])

AllFound(at, query) ==
    at # <<>> /\ Len(at) = Len(SelectSeq(query, LAMBDA c : ~Space(c)))

Fuzzy(name, query) == AllFound(FuzzyIndices(name, query), query)

(* calculate_score, given the indices; below zero is no match. *)
ScoreAt(name, query, at) ==
    IF name = query THEN 1000
    ELSE IF StartsWith(name, query) THEN 500 - Len(name)
    ELSE IF ~AllFound(at, query) THEN -1
    ELSE 100 - 5 * (at[1] - 1) - 10 * (Last(at) - at[1] - Len(at) + 1)

Score(name, query) == ScoreAt(name, query, FuzzyIndices(name, query))

(* get_ranked_commands: the best first, in order among equals. *)
InOrder(cmds, hits, score) ==
    LET ahead(i) == {j \in hits : score[j] > score[i] \/ (score[j] = score[i] /\ j <= i)}
    IN  [r \in 1 .. Cardinality(hits) |->
           cmds[CHOOSE i \in hits : Cardinality(ahead(i)) = r]]

RankedBy(cmds, score) == InOrder(cmds, {i \in DOMAIN cmds : score[i] >= 0}, score)

Ranked(cmds, query) ==
    IF query = <<>> THEN cmds
    ELSE RankedBy(cmds, [i \in DOMAIN cmds |-> Score(cmds[i].name, query)])

(* One of n: the next and the one before, round the ends. *)
NextOf(sel, n) == IF n = 0 THEN sel ELSE IF sel >= n THEN 1 ELSE sel + 1
PreviousOf(sel, n) == IF n = 0 THEN sel ELSE IF sel <= 1 THEN n ELSE sel - 1

-----------------------------------------------------------------------------
(* The menu of commands: path, filter, dyn (the arguments offered), sel *)

(* (Mutant: the selection stays where it was.)                             *)
KeepSelection(menu, n) == IF n = 0 THEN 0 ELSE IF menu.sel = 0 THEN 1 ELSE menu.sel

(* refresh_selection; nothing is selected when there is nothing to select. *)
RefreshSelection(menu, n) ==
    IF n = 0 THEN 0 ELSE IF menu.sel \in 1 .. n THEN menu.sel ELSE 1

(* filtered_commands: the commands as long as none has been chosen, then   *)
(* the arguments.                                                          *)
Filtered(menu) ==
    Ranked(IF menu.path = <<>> THEN Commands ELSE <<>>, menu.filter)
    \o Ranked(menu.dyn, menu.filter)

Refreshed(menu) ==
    [menu EXCEPT !.sel = RefreshSelection(menu, Len(Filtered(menu)))]

NewMenu == Refreshed([path |-> <<>>, filter |-> <<>>, dyn |-> <<>>, sel |-> 0])

(* set_filter and resolve_path: the words that are complete are the path,  *)
(* the last one is the filter.                                             *)
FilterBy(menu, t, parts) ==
    Refreshed([menu EXCEPT
        !.path = IF EndsBlank(t) \/ parts = <<>> THEN parts ELSE Front(parts),
        !.filter = IF parts = <<>> THEN Tail(t)
                   ELSE IF EndsBlank(t) THEN <<>> ELSE Last(parts)])

SetFilter(menu, t) == FilterBy(menu, t, Parts(Tail(t)))

(* complete_command_arguments: the numbers of the friends, for the first   *)
(* argument of a command that takes one.                                   *)
FriendArguments(m, t) ==
    LET parts == Parts(t)
        name  == SubSeq(parts[1], RunRight(parts[1], 0, LAMBDA c : c = "/") + 1,
                        Len(parts[1]))
        args  == Tail(parts) \o (IF EndsBlank(t) THEN << <<>> >> ELSE <<>>)
        ids   == SelectSeq(<<0, 1>>, LAMBDA n : n \in DOMAIN m.fnum)
        names == [i \in DOMAIN ids |-> IF ids[i] = 0 THEN <<"0">> ELSE <<"1">>]
    IN  IF /\ Len(args) = 1
           /\ \E i \in DOMAIN Commands : Commands[i].name = name /\ Commands[i].friend
        THEN SelectSeq(names, LAMBDA n : StartsWith(n, args[1]))
        ELSE <<>>

SetDynamic(menu, names) ==
    Refreshed([menu EXCEPT !.dyn = [i \in DOMAIN names |->
                 [name |-> names[i], args |-> TRUE, friend |-> FALSE]]])

(* complete *)
Completed(menu) ==
    LET cmd == Filtered(menu)[menu.sel] IN
    <<"/">> \o FoldLeft(LAMBDA acc, p : acc \o p \o <<" ">>, <<>>, menu.path)
    \o cmd.name \o (IF cmd.args THEN <<" ">> ELSE <<>>)

(* Tab leaves the menu as it is, though the text is another. *)
MenuKey(k, key) ==
    LET menu == k.menu[1]
        n    == Len(Filtered(menu))
    IN  CASE key.code = "Up"   -> [k EXCEPT !.menu[1].sel = PreviousOf(@, n)]
          [] key.code = "Down" -> [k EXCEPT !.menu[1].sel = NextOf(@, n)]
          [] key.code = "Tab"  -> IF menu.sel \in 1 .. n
                                  THEN WithBox(k, SetValue(k.box, Completed(menu))) ELSE k

(* After a change of the text: the menu follows a command on one line.     *)
Followed(m, k) ==
    LET t    == k.box.text
        menu == IF k.menu = <<>> THEN NewMenu ELSE k.menu[1]
    IN  [k EXCEPT
           !.comp.on = FALSE,
           !.menu = IF IsCommand(t) /\ ~k.multi
                    THEN <<SetDynamic(SetFilter(menu, t), FriendArguments(m, t))>>
                    ELSE <<>>]

-----------------------------------------------------------------------------
(* The quick switcher: box, items (the windows when it was opened), sel *)

Kinds == <<"Console", "Logs", "Files">>

SwitcherItems(m) ==
    Kinds \o SetToSeq(DOMAIN m.friends) \o SetToSeq(DOMAIN m.convs \cap Groups)
    \o SetToSeq(DOMAIN m.convs \cap Confs)

NewSwitcher(m) == [box |-> NewBox, items |-> SwitcherItems(m), sel |-> 1]

PrefixOf(w) == IF w \in Friends THEN "f" ELSE IF w \in Groups THEN "g"
               ELSE IF w \in Confs THEN "c" ELSE ">"

(* parse_query: "f:" and the like ask for windows of one kind. *)
Asked(t) ==
    {c \in DOMAIN t : /\ t[c] = ":" /\ \A i \in 1 .. c - 1 : t[i] # ":"
                      /\ Parts(SubSeq(t, 1, c - 1)) \in
                           {<< <<x>> >> : x \in {"f", "g", "h", ">"}}}
Query1(t) ==
    IF Asked(t) = {} THEN t ELSE SubSeq(t, RunRight(t, Min(Asked(t)), Space) + 1, Len(t))

(* get_filtered_items *)
FilteredItems(s) ==
    SelectSeq(s.items, LAMBDA w :
        /\ Asked(s.box.text) # {} => PrefixOf(w) = Parts(s.box.text)[1][1]
        /\ Query1(s.box.text) = <<>> \/ Fuzzy(NameOf(w), Query1(s.box.text)))

(* Enter looks for the window by its name. *)
Target(m, w) ==
    CASE w = "Console" -> {1}
      [] w \in {"Logs", "Files"} -> {i \in DOMAIN m.wins : m.wins[i] = w}
      [] OTHER -> {i \in DOMAIN m.wins : /\ m.wins[i] \in DOMAIN m.convs \cup DOMAIN m.friends
                                        /\ NameOf(m.wins[i]) = NameOf(w)}

Jump(m, s) ==
    LET items == FilteredItems(s)
        at    == IF s.sel \in DOMAIN items THEN Target(m, items[s.sel]) ELSE {}
    IN  IF at = {} THEN m ELSE SetActiveWindow(m, Min(at))

(* Any key that may change the query selects the first item. *)
Edits(key) == key.char \/ key.code \in {"Backspace", "Delete"}

SwitcherKey(m, k, key) ==
    LET s == k.switch[1]
        n == Len(FilteredItems(s))
    IN  CASE key.code = "Up"   -> Quietly(m, [k EXCEPT !.switch[1].sel = PreviousOf(@, n)])
          [] key.code = "Down" -> Quietly(m, [k EXCEPT !.switch[1].sel = NextOf(@, n)])
          [] key.code = "Enter" -> Quietly(Jump(m, s), [k EXCEPT !.switch = <<>>])
          [] OTHER ->
               Quietly(m, [k EXCEPT !.switch[1] =
                   [s EXCEPT !.box = HandleEvent(@, key).b,
                             !.sel = IF Edits(key) THEN 1 ELSE @]])

-----------------------------------------------------------------------------
(* The emoji picker: box, sel, cols (0 before it is drawn) *)

NewPicker == [box |-> NewBox, sel |-> 1, cols |-> 0]

HasInside(s, t) == \E i \in 0 .. Len(s) - Len(t) : SubSeq(s, i + 1, i + Len(t)) = t

(* filtered_emojis: each sign once. *)
FilteredEmojis(p) ==
    LET fits(i) == HasInside(Emojis[i].name, p.box.text)
        hits == SelectSeq([i \in DOMAIN Emojis |-> i], LAMBDA i :
                    fits(i) /\ ~\E j \in 1 .. i - 1 : fits(j) /\ Emojis[j].sign = Emojis[i].sign)
    IN  [i \in DOMAIN hits |-> Emojis[hits[i]].sign]

(* next and previous: a row on, or the next one, or round the end. *)
NextRow(sel, cols, n) ==
    IF n = 0 THEN sel ELSE IF sel + cols <= n THEN sel + cols
    ELSE IF sel < n THEN sel + 1 ELSE 1
PreviousRow(sel, cols, n) ==
    IF n = 0 THEN sel ELSE IF sel > cols THEN sel - cols
    ELSE IF sel > 1 THEN sel - 1 ELSE n

(* next_item and previous_item *)
NextItem(sel, n) == IF n = 0 THEN sel ELSE (sel % n) + 1

PickerKey(m, k, key) ==
    LET p == k.pick[1]
        n == Len(FilteredEmojis(p))
    IN  CASE key.code = "Up"    -> Quietly(m, [k EXCEPT !.pick[1].sel = PreviousRow(@, p.cols, n)])
          [] key.code = "Down"  -> Quietly(m, [k EXCEPT !.pick[1].sel = NextRow(@, p.cols, n)])
          [] key.code = "Left"  -> Quietly(m, [k EXCEPT !.pick[1].sel = PreviousOf(@, n)])
          [] key.code = "Right" -> Quietly(m, [k EXCEPT !.pick[1].sel = NextItem(@, n)])
          [] key.code = "Enter" ->
               Quietly(m, [k EXCEPT
                   !.pick = <<>>,
                   !.box = IF p.sel \in 1 .. n THEN Insert(@, <<FilteredEmojis(p)[p.sel]>>)
                           ELSE @])
          [] OTHER ->
               Quietly(m, [k EXCEPT !.pick[1] =
                   [p EXCEPT !.box = HandleEvent(@, key).b,
                             !.sel = IF Edits(key) THEN 1 ELSE @]])

-----------------------------------------------------------------------------
(* The completion of a word *)

Signs == {Emojis[i].sign : i \in DOMAIN Emojis}
IsEmoji(t) == Len(t) = 1 /\ t[1] \in Signs

(* complete_text: the emojis whose names begin with the last word, then    *)
(* the friends.  A single letter is no beginning of an emoji's name.  (The *)
(* user and the peers of a room have no names here.)                       *)
CompleteText(m, t) ==
    LET word  == Last(Parts(t))
        fits(i) == /\ StartsWith(Emojis[i].name, word)
                   /\ Len(word) = 1 /\ word[1] \in Letters => Emojis[i].name = word
        same(i) == {j \in DOMAIN Emojis : Emojis[j].sign = Emojis[i].sign}
        hits  == SelectSeq([i \in DOMAIN Emojis |-> i], LAMBDA i :
                    i = Min(same(i)) /\ \E j \in same(i) : fits(j))
    IN  IF Parts(t) = <<>> THEN <<>>
        ELSE [i \in DOMAIN hits |-> <<Emojis[hits[i]].sign>>]
             \o SetToSeq({n \in {NameOf(pk) : pk \in DOMAIN m.friends} : StartsWith(n, word)})

(* get_replacement, for a line that is no command. *)
Replacement(t, cand) ==
    LET blanks == {i \in DOMAIN t : t[i] = " "} IN
    IF blanks # {} THEN SubSeq(t, 1, Max(blanks)) \o cand
    ELSE IF IsEmoji(cand) THEN cand ELSE cand \o <<":", " ">>

(* apply_completion, at candidate i. *)
ApplyCompletion(k, i) ==
    [k EXCEPT !.comp.idx = i,
              !.box = SetValue(@, Replacement(k.comp.orig, k.comp.cands[i]))]

StartCompletion(m, k) ==
    LET t == k.box.text
        cands == CompleteText(m, t)
    IN  IF IsCommand(t) \/ cands = <<>> THEN k
        ELSE ApplyCompletion([k EXCEPT !.comp = [on |-> TRUE, cands |-> cands, idx |-> 1,
                                                 orig |-> t]], 1)

(* Tab and the arrows while a completion is on: a grid when there are      *)
(* emojis only, a list otherwise.                                          *)
CompletionKey(k, code) ==
    LET i    == k.comp.idx
        n    == Len(k.comp.cands)
        grid == \A j \in DOMAIN k.comp.cands : IsEmoji(k.comp.cands[j])
    IN  CASE code = "Tab" -> ApplyCompletion(k, NextOf(i, n))
          [] code = "Up" /\ grid -> ApplyCompletion(k, IF i > GridCols THEN i - GridCols ELSE i)
          [] code = "Down" /\ grid ->
               ApplyCompletion(k, IF i + GridCols <= n THEN i + GridCols ELSE i)
          [] code = "Up" /\ ~grid -> ApplyCompletion(k, PreviousOf(i, n))
          [] code = "Down" /\ ~grid -> ApplyCompletion(k, NextOf(i, n))
          [] code = "Left" -> IF i > 1 THEN ApplyCompletion(k, i - 1) ELSE k
          [] code = "Right" -> IF grid /\ i < n THEN ApplyCompletion(k, i + 1) ELSE k

OnGrid(k) == k.comp.on /\ \A j \in DOMAIN k.comp.cands : IsEmoji(k.comp.cands[j])

-----------------------------------------------------------------------------
(* The history of lines *)

HistoryUp(k) ==
    LET i == IF k.hidx = 0 THEN Len(k.hist) ELSE IF k.hidx > 1 THEN k.hidx - 1 ELSE 1 IN
    IF k.hist = <<>> THEN k
    ELSE [k EXCEPT !.saved = IF k.hidx = 0 THEN k.box.text ELSE @,
                   !.hidx = i,
                   !.box = SetValue(@, k.hist[i])]

HistoryDown(k) ==
    IF k.hidx = 0 THEN k
    ELSE IF k.hidx < Len(k.hist)
    THEN [k EXCEPT !.hidx = @ + 1, !.box = SetValue(@, k.hist[k.hidx + 1])]
    ELSE [k EXCEPT !.hidx = 0, !.box = SetValue(@, k.saved)]

-----------------------------------------------------------------------------
(* handle_key_event *)

Closed(k) == [k EXCEPT !.comp.on = FALSE, !.menu = <<>>]

(* Enter or Ctrl-D: the field is emptied, the line goes to the history and *)
(* is handled; one with a string that is blocked is put back.              *)
Send(m, k) ==
    LET t  == k.box.text
        k1 == [Closed(k) EXCEPT
                 !.box = ClearBox(@), !.hidx = 0,
                 !.hist = IF @ # <<>> /\ Last(@) = t THEN @ ELSE Append(@, t)]
    IN  IF t = <<>> THEN Quietly(m, Closed(k))
        ELSE IF IsCommand(t) THEN Pressed(k1, Execute(m, LineCommand(t)))
        ELSE IF \E s \in Blocked : HasInside(t, s)
        THEN Quietly(m, WithBox(k1, SetValue(k1.box, t)))
        ELSE Pressed(k1, Enter(m, 1))

Newline(m, k) == Pressed(WithBox(k, Insert(k.box, <<NL>>)), UpdateTypingStatus(m))

(* Esc closes what is open, or changes between typing and navigating. *)
Escape(k) ==
    IF k.menu # <<>> THEN [k EXCEPT !.menu = <<>>]
    ELSE IF k.switch # <<>> THEN [k EXCEPT !.switch = <<>>]
    ELSE IF k.pick # <<>> THEN [k EXCEPT !.pick = <<>>]
    ELSE IF k.comp.on THEN [k EXCEPT !.comp.on = FALSE]
    ELSE [k EXCEPT !.nav = ~@]

(* Up and Down with no completion: within the text when it has several     *)
(* lines, else in the history.                                             *)
VerticalKey(m, k, key) ==
    LET line   == Cursor(k.box).line
        extend == "shift" \in key.mods
        inside == k.multi /\ IF key.code = "Up" THEN line > 1 ELSE line < Len(k.box.lines)
    IN  IF inside
        THEN Pressed(WithBox(k, IF key.code = "Up" THEN MoveUp(k.box, extend)
                                ELSE MoveDown(k.box, extend)),
                     UpdateTypingStatus(m))
        ELSE Quietly(m, IF key.code = "Up" THEN HistoryUp(k) ELSE HistoryDown(k))

(* Right stops at the end of a line unless there may be several. *)
StopsRight(k) ==
    ~k.multi /\ k.box.lines # <<>> /\ Cursor(k.box).x >= LineEnd(k.box, Cursor(k.box).line)

CtrlIntercepted(k) ==
    {"t", "n", "p", " ", "w", "u", "l", "f", "e", "o", "b"}
    \cup (IF k.multi THEN {"d"} ELSE {})
    \cup (IF k.box.sel = <<>> THEN {"c"} ELSE {})

OpenSwitcher(m, k) == Quietly(m, [k EXCEPT !.switch = <<NewSwitcher(m)>>])

ControlKey(m, k, c) ==
    CASE c = "t" -> Quietly(m, [k EXCEPT !.multi = ~@])
      [] c = "d" -> Send(m, k)
      [] c = "n" -> Quietly(NextWindow(m), k)
      [] c = "p" -> Quietly(PrevWindow(m), k)
      [] c = " " -> OpenSwitcher(m, k)
      [] c = "c" -> Quietly(m, Closed(WithBox(k, ClearBox(k.box))))
      [] c = "w" -> Pressed(WithBox(k, DeleteWordLeft(k.box)), UpdateTypingStatus(m))
      [] c = "u" -> Pressed(WithBox(k, DeleteToStart(k.box)), UpdateTypingStatus(m))
      [] c = "f" -> Quietly(OpenTool(m, "Files"), k)
      [] c = "e" -> Quietly(m, [k EXCEPT !.pick = <<NewPicker>>])
      [] c = "o" -> Newline(m, [k EXCEPT !.comp.on = FALSE])
      [] c \in {"l", "b"} -> Quietly(m, k)

(* Alt and a digit: the window of that number. *)
AltKey(m, k, c) ==
    Quietly(IF c = "0" THEN SetActiveWindow(m, 1)
            ELSE IF c = "1" THEN SetActiveWindow(m, 2) ELSE m, k)

(* The end of the handler: the field takes the key. *)
BoxTook(m, k, r) ==
    IF r.changed THEN Pressed(Followed(m, WithBox(k, r.b)), UpdateTypingStatus(m))
    ELSE Quietly(m, WithBox(k, r.b))

BoxKey(m, k, key) == BoxTook(m, k, HandleEvent(k.box, key))

EnterKey(m, k, key) ==
    IF IF k.multi THEN key.mods \cap {"ctrl", "alt"} # {} ELSE "alt" \notin key.mods
    THEN Send(m, k) ELSE Newline(m, Closed(k))

(* The keys of navigation that concern the field alone. *)
NavigationKey(k, key) ==
    IF key.code \in {"Enter", "i"} THEN [k EXCEPT !.nav = FALSE] ELSE k

ChatKey(m, k, key) ==
    CASE key.char /\ "ctrl" \in key.mods /\ key.code \in CtrlIntercepted(k) ->
           ControlKey(m, k, key.code)
      [] key.char /\ "alt" \in key.mods /\ "ctrl" \notin key.mods -> AltKey(m, k, key.code)
      [] key.code = "Enter"   -> EnterKey(m, k, key)
      [] key.code = "BackTab" -> OpenSwitcher(m, k)
      [] key.code = "Tab" ->
           Quietly(m, IF k.comp.on THEN CompletionKey(k, "Tab") ELSE StartCompletion(m, k))
      [] key.code \in {"Up", "Down"} ->
           IF k.comp.on THEN Quietly(m, CompletionKey(k, key.code)) ELSE VerticalKey(m, k, key)
      [] key.code = "Left" /\ OnGrid(k) -> Quietly(m, CompletionKey(k, "Left"))
      [] key.code = "Right" /\ k.comp.on -> Quietly(m, CompletionKey(k, "Right"))
      [] key.code = "Right" /\ ~k.comp.on /\ StopsRight(k) -> Quietly(m, k)
      [] key.code \in {"PageUp", "PageDown"} \/ (key.code \in {"Home", "End"} /\ "ctrl" \in key.mods) ->
           Quietly(m, k)
      [] OTHER -> BoxKey(m, k, key)

(* handle_key_event, and what the terminal pastes. *)
Press(m, k, key) ==
    IF key.code = "Paste"
    THEN Pressed(WithBox(k, Insert(k.box, Pasted)), UpdateTypingStatus(m))
    ELSE IF key.code = "Esc" THEN Quietly(m, Escape(k))
    ELSE IF k.switch # <<>> THEN SwitcherKey(m, k, key)
    ELSE IF k.pick # <<>> THEN PickerKey(m, k, key)
    ELSE IF k.menu # <<>> /\ key.code \in {"Up", "Down", "Tab"} THEN Quietly(m, MenuKey(k, key))
    ELSE IF k.nav THEN Quietly(m, NavigationKey(k, key))
    ELSE ChatKey(m, k, key)

(* Drawing lays the fields out and moves selections back into range.       *)
Drawn(k) ==
    LET fit(sel, n) == IF sel \in 1 .. n THEN sel ELSE IF n > 0 THEN 1 ELSE 0 IN
    [k EXCEPT
       !.box = Arranged(@),
       !.switch = [i \in DOMAIN @ |->
           [@[i] EXCEPT !.box = Arranged(@), !.sel = fit(@, Len(FilteredItems(k.switch[i])))]],
       !.pick = [i \in DOMAIN @ |->
           [@[i] EXCEPT !.box = Arranged(@), !.cols = Cols,
                        !.sel = IF FilteredEmojis(k.pick[i]) = <<>> THEN @
                                ELSE fit(@, Len(FilteredEmojis(k.pick[i])))]]]

Panics(k) == k.box.dead \/ \E b \in Range(k.switch) \cup Range(k.pick) : b.box.dead
=============================================================================
