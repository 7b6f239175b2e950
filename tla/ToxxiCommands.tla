--------------------------- MODULE ToxxiCommands ---------------------------
(***************************************************************************)
(* What the user does in the toxxi client: the commands (toxxi/src/        *)
(* commands) and the keys that act on more than the input line (update.rs, *)
(* handle_key_event and handle_enter).  An input is a record c with field  *)
(* cmd.  Usage errors and the listings only leave a note in the window     *)
(* shown, as "note" does.                                                  *)
(***************************************************************************)
EXTENDS ToxxiUpdate

Ask(m, action) == Tell(Note(m), <<action>>, <<>>)

(* handle_enter on a line that is not a command: it is split into parts,   *)
(* each a message of its own.                                              *)
Enter(m, parts) ==
    LET w == ActiveWindow(m) IN
    IF w \in {"Console", "Files"} THEN Done(m)
    ELSE FoldLeft(LAMBDA u, i : After(u, SendText(u.m, w)), Done(m),
                  [i \in 1 .. parts |-> i])

(* /me *)
Me(m) ==
    IF ActiveWindow(m) = "Console" THEN Done(Note(m)) ELSE SendText(m, ActiveWindow(m))

(* /query and /msg *)
Query(m, n) ==
    IF n \in DOMAIN m.fnum THEN Done(Show(m, m.fnum[n])) ELSE Done(Note(m))

Msg(m, n) ==
    LET u == SendText(m, m.fnum[n]) IN
    IF n \in DOMAIN m.fnum
    THEN [u EXCEPT !.m = SetActiveWindow(@, Position(@, m.fnum[n]))]
    ELSE Done(Note(m))

(* /friend remove: nothing is told of the friend's files. *)
FriendRemove(m, n) ==
    LET pk == m.fnum[n]
        m1 == Note(m)
    IN  IF n \notin DOMAIN m.fnum THEN Done(Note(m))
        ELSE IF pk \notin DOMAIN m.friends THEN Done(m)
        ELSE Tell(DropWindow([m1 EXCEPT !.friends = Without(@, pk),
                                        !.fnum = Without(@, n)], pk),
                  <<[do |-> "DeleteFriend", pk |-> pk]>>, <<>>)

(* /close: the group or conference is left. *)
Close(m) ==
    LET w == ActiveWindow(m) IN
    IF w = "Console" THEN Done(Note(m))
    ELSE Tell(Note([DropWindow(m, w) EXCEPT !.unread[w] = 0]),
              IF w \in Groups THEN <<[do |-> "LeaveGroup", win |-> w]>>
              ELSE IF w \in Confs THEN <<[do |-> "DeleteConference", win |-> w]>>
              ELSE <<>>,
              <<>>)

(* /topic *)
Topic(m, topic) ==
    IF ActiveWindow(m) \in Groups \cup Confs
    THEN Ask(m, [do |-> "SetTopic", win |-> ActiveWindow(m), topic |-> topic])
    ELSE Done(Note(m))

(* /accept and /reject *)
Accept(m, i) ==
    LET item == m.pending[i]
        m1   == [m EXCEPT !.pending = RemoveAt(@, i)]
    IN  IF i \notin DOMAIN m.pending THEN Done(Note(m))
        ELSE Tell(IF item.kind = "friend"
                     \/ (item.kind = "conf" /\ item.who \notin DOMAIN m.friends)
                  THEN m1 ELSE Note(m1),
                  <<[do |-> "Accept", kind |-> item.kind, who |-> item.who,
                     win |-> item.room]>>, <<>>)

Reject(m, i) ==
    Done(Note(IF i \in DOMAIN m.pending THEN [m EXCEPT !.pending = RemoveAt(@, i)]
              ELSE m))

(* handle_ignore_command: /ignore toggles, /unignore takes back. *)
Ignore(m, p, toggle) ==
    LET w   == ActiveWindow(m)
        new == toggle /\ ~m.convs[w].peers[p].ign
    IN  IF w \notin DOMAIN m.convs \cap Groups THEN Done(Note(m))
        ELSE IF p \notin DOMAIN m.convs[w].peers \/ m.convs[w].peers[p].ign = new
        THEN Done(Note(m))
        ELSE Ask([m EXCEPT !.convs[w].peers[p].ign = new,
                           !.convs[w].ignored = IF new THEN @ \cup {p} ELSE @ \ {p}],
                 [do |-> "SetGroupPeerIgnore", win |-> w, p |-> p, on |-> new])

-----------------------------------------------------------------------------
(* /file.  A file that is being received is not in the working directory:  *)
(* every transfer starts at its beginning.                                 *)

FileSend(m, n, file) ==
    IF n \in DOMAIN m.fnum
    THEN Ask(m, [do |-> "FileSend", pk |-> m.fnum[n], file |-> file])
    ELSE Done(Note(m))

FileAccept(m, n, file) ==
    IF n \in DOMAIN m.fnum
    THEN Tell(SetTransfer(Note(m), file, "Active"), <<FileControl(file, "resume")>>,
              <<OpenFile(m.fnum[n], file, "recv")>>)
    ELSE Done(Note(m))

ControlStatus == [pause |-> "Paused", resume |-> "Active", cancel |-> "Canceled"]

FileCommand(m, n, file, control) ==
    IF n \in DOMAIN m.fnum
    THEN Tell(SetTransfer(m, file, ControlStatus[control]),
              <<FileControl(file, control)>>, <<>>)
    ELSE Done(Note(m))

(* The keys a, x and p on a transfer: in the window of the files, or on    *)
(* its message in the friend's window.  x and p only tell the Tox worker.  *)
Selected(m, file) ==
    LET w == ActiveWindow(m) IN
    IF w = "Files"
    THEN {[pk |-> m.files[f].pk, accept |-> m.files[f].recv, control |-> TRUE] :
             f \in {file} \cap DOMAIN m.files}
    ELSE {[pk |-> w,
           accept |-> msg.by # "Me" /\ msg.status.s # "Received",
           control |-> msg.status.s \in {"Incoming", "Pending"}] :
             msg \in {x \in IF w \in DOMAIN m.convs \cap Friends
                            THEN Range(m.convs[w].msgs) ELSE {} :
                        x.kind = "file" /\ x.file = file}}

FileKey(m, sel, file, key) ==
    CASE key = "a" /\ sel.accept ->
           Tell(m, <<FileControl(file, "resume")>>, <<OpenFile(sel.pk, file, "recv")>>)
      [] key = "x" /\ sel.control -> Tell(m, <<FileControl(file, "cancel")>>, <<>>)
      [] key = "p" /\ sel.control ->
           Tell(m, <<FileControl(file,
                        IF file \in DOMAIN m.files /\ m.files[file].status = "Paused"
                        THEN "resume" ELSE "pause")>>, <<>>)
      [] OTHER -> Done(m)

-----------------------------------------------------------------------------
(* Windows *)

(* Ctrl-N and Ctrl-P *)
NextWindow(m) == SetActiveWindow(m, IF m.active = Len(m.wins) THEN 1 ELSE m.active + 1)
PrevWindow(m) == SetActiveWindow(m, IF m.active > 1 THEN m.active - 1 ELSE Len(m.wins))

(* /win, the quick switcher; Alt with a digit does not ask whether there   *)
(* is such a window.                                                       *)
Win(m, i) == IF i \in DOMAIN m.wins THEN SetActiveWindow(m, i) ELSE Note(m)

(* /file list and /logs *)
OpenTool(m, w) == Show(m, w)

(* /clear and /pop: what is shown, not what is on disk. *)
Clear(m, all) ==
    LET w == ActiveWindow(m) IN
    IF w \in DOMAIN m.convs
    THEN [m EXCEPT !.convs[w].msgs =
            IF all THEN <<>> ELSE SelectSeq(@, LAMBDA x : x.by # "System")]
    ELSE m

Pop(m) ==
    LET w    == ActiveWindow(m)
        hits == {i \in DOMAIN m.convs[w].msgs : m.convs[w].msgs[i].by = "System"}
    IN  IF w \in DOMAIN m.convs /\ hits # {}
        THEN [m EXCEPT !.convs[w].msgs = RemoveAt(@, Max(hits))] ELSE m

(* handle_command.  Requests to the Tox worker that leave nothing but a    *)
(* note behind are "ask".                                                  *)
Execute(m, c) ==
    CASE c.cmd = "enter"   -> Enter(m, c.parts)
      [] c.cmd = "me"      -> Me(m)
      [] c.cmd = "query"   -> Query(m, c.n)
      [] c.cmd = "msg"     -> Msg(m, c.n)
      [] c.cmd = "ask"     -> Ask(m, c.action)
      [] c.cmd = "remove"  -> FriendRemove(m, c.n)
      [] c.cmd = "close"   -> Close(m)
      [] c.cmd = "topic"   -> Topic(m, c.topic)
      [] c.cmd = "accept"  -> Accept(m, c.i)
      [] c.cmd = "reject"  -> Reject(m, c.i)
      [] c.cmd = "ignore"  -> Ignore(m, c.p, c.toggle)
      [] c.cmd = "send"    -> FileSend(m, c.n, c.file)
      [] c.cmd = "take"    -> FileAccept(m, c.n, c.file)
      [] c.cmd = "file"    -> FileCommand(m, c.n, c.file, c.control)
      [] c.cmd = "key"     -> FoldSet(LAMBDA sel, u : After(u, FileKey(m, sel, c.file, c.key)),
                                      Done(m), Selected(m, c.file))
      [] c.cmd = "next"    -> Done(NextWindow(m))
      [] c.cmd = "prev"    -> Done(PrevWindow(m))
      [] c.cmd = "win"     -> Done(Win(m, c.i))
      [] c.cmd = "alt"     -> Done(SetActiveWindow(m, c.i))
      [] c.cmd = "tool"    -> Done(OpenTool(m, c.win))
      [] c.cmd = "clear"   -> Done(Clear(m, c.all))
      [] c.cmd = "pop"     -> Done(Pop(m))
      [] c.cmd = "note"    -> Done(Note(m))
      [] c.cmd = "type"    -> UpdateTypingStatus(m)
=============================================================================
