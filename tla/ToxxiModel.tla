---------------------------- MODULE ToxxiModel ----------------------------
(***************************************************************************)
(* The data of the toxxi client (toxxi/src/model.rs) and the operations on *)
(* it.  A model is a record                                                *)
(*   convs    the conversations, by window                                 *)
(*   wins     the windows in order; active: the index of the one shown     *)
(*   unread   the unread count of each window (window_state)               *)
(*   next     next_internal_id; now: the clock messages are stamped with   *)
(*   friends  the friends, each with whether it is connected               *)
(*   fnum, gnum, cnum, pnum   the session maps from the numbers of the Tox *)
(*            instance to keys: friends, groups, conferences, group peers  *)
(*   pending  the requests and invites that wait for /accept or /reject    *)
(*   files    file_transfers: who with, direction, status, chunks done     *)
(*   typing   is_typing_sent; online: self_connection_status               *)
(* Names, roles and user statuses are one label; texts are told apart by   *)
(* the time they were written at.  Window 1 is the console.                *)
(***************************************************************************)
EXTENDS Naturals, Sequences, FiniteSets, FiniteSetsExt, SequencesExt, Functions

CONSTANTS
    Friends,    \* public keys of friends
    Groups,     \* chat ids
    Confs,      \* conference ids
    Peers,      \* public keys of the peers of groups and conferences
    Files       \* file ids

Windows == {"Console", "Logs", "Files"} \cup Friends \cup Groups \cup Confs

Empty == [x \in {} |-> x]
Without(f, x) == Restrict(f, DOMAIN f \ {x})
With(f, x, v) == [y \in DOMAIN f \cup {x} |-> IF y = x THEN v ELSE f[y]]
KeysOf(f, v) == {x \in DOMAIN f : f[x] = v}

(* MessageStatus; n is the message id of Sent. *)
Status(s) == [s |-> s, n |-> 0]
Sent(n) == [s |-> "Sent", n |-> n]

NoConv == [msgs |-> <<>>, peers |-> Empty, topic |-> 0, self |-> 0,
           ignored |-> {}]

NewModel ==
    [convs |-> Empty, wins |-> <<"Console">>, active |-> 1,
     unread |-> [w \in Windows |-> 0], next |-> 1, now |-> 1,
     friends |-> Empty, fnum |-> Empty, gnum |-> Empty, cnum |-> Empty,
     pnum |-> Empty, pending |-> <<>>, files |-> Empty,
     typing |-> FALSE, online |-> FALSE]

(* What a handler leaves behind: the model, the actions for the Tox worker *)
(* and those for the I/O worker, in the order they are sent.               *)
Done(m) == [m |-> m, tox |-> <<>>, io |-> <<>>]
Tell(m, tox, io) == [m |-> m, tox |-> tox, io |-> io]
After(u, v) == [m |-> v.m, tox |-> u.tox \o v.tox, io |-> u.io \o v.io]

LogMessage(w, msg) == [do |-> "LogMessage", win |-> w, msg |-> msg]

ActiveWindow(m) == m.wins[m.active]
HasWindow(m, w) == \E i \in DOMAIN m.wins : m.wins[i] = w
Position(m, w) == CHOOSE i \in DOMAIN m.wins : m.wins[i] = w

SetActiveWindow(m, i) ==
    IF i \in DOMAIN m.wins
    THEN [m EXCEPT !.active = i, !.unread[m.wins[i]] = 0, !.typing = FALSE]
    ELSE m

(* ensure_window: the windows of the client have no conversation. *)
EnsureWindow(m, w) ==
    LET m1 == IF HasWindow(m, w) THEN m ELSE [m EXCEPT !.wins = Append(@, w)]
    IN  IF w \in DOMAIN m.convs \/ w \in {"Console", "Logs", "Files"} THEN m1
        ELSE [m1 EXCEPT !.convs = With(@, w, NoConv)]

Show(m, w) == SetActiveWindow(EnsureWindow(m, w), Position(EnsureWindow(m, w), w))

(* A window is taken away; the index stays, or is moved back into range.   *)
(* window_state is dropped by /close alone.                                *)
DropWindow(m, w) ==
    LET wins == SelectSeq(m.wins, LAMBDA x : x # w) IN
    [m EXCEPT !.wins = wins,
              !.convs = Without(@, w),
              !.active = IF @ > Len(wins) THEN Len(wins) ELSE @]

-----------------------------------------------------------------------------
(* Messages *)

Message(m, kind, by, status, file) ==
    [id |-> m.next, at |-> m.now, kind |-> kind, by |-> by, status |-> status,
     file |-> file]

Append1(m, w, msg) ==
    [m EXCEPT !.next = @ + 1, !.now = @ + 1,
              !.convs[w].msgs = Append(@, msg)]

CountUnread(m, w) ==
    IF ActiveWindow(m) = w THEN m ELSE [m EXCEPT !.unread[w] = @ + 1]

(* add_incoming_message and add_system_message_to on a conversation: the   *)
(* message is logged by the caller.                                        *)
AddIncoming(m, w, kind, by) ==
    LET msg == Message(m, kind, by, Status("Incoming"), "none") IN
    IF w \in DOMAIN m.convs
    THEN Tell(CountUnread(Append1(m, w, msg), w), <<>>, <<LogMessage(w, msg)>>)
    ELSE Done(m)

(* add_info_message, add_status_message, add_error_message: a note in the  *)
(* window shown, which is not logged.                                      *)
Note(m) == AddIncoming(m, ActiveWindow(m), "note", "System").m

(* add_file_transfer_message *)
AddFileMessage(m, w, by, file) ==
    LET msg == Message(m, "file", by,
                       Status(IF by = "Me" THEN "Pending" ELSE "Incoming"), file)
    IN  IF w \in DOMAIN m.convs
        THEN Tell(Append1(m, w, msg), <<>>, <<LogMessage(w, msg)>>)
        ELSE Done(m)

(* mark_message_status and update_file_status change the newest message    *)
(* that matches, in the conversation named.                                *)
LogAt(m, w, i) == Tell(m, <<>>, <<LogMessage(w, m.convs[w].msgs[i])>>)

ChangeNewest(m, w, match(_), status) ==
    LET hits == IF w \in DOMAIN m.convs
                THEN {i \in DOMAIN m.convs[w].msgs : match(m.convs[w].msgs[i])}
                ELSE {}
        change(i) == LogAt([m EXCEPT !.convs[w].msgs[i].status = status], w, i)
    IN  IF hits = {} THEN Done(m) ELSE change(Max(hits))

MarkMessageStatus(m, w, id, status) ==
    ChangeNewest(m, w, LAMBDA msg : msg.id = id, status)

UpdateFileStatus(m, w, file, status) ==
    ChangeNewest(m, w, LAMBDA msg : msg.kind = "file" /\ msg.file = file, status)

(* The request that hands a text to the Tox worker, by kind of window. *)
SendAction(w, id, at) == [do |-> "SendMessage", to |-> w, id |-> id, at |-> at]

(* add_outgoing_message, then the message is marked as being sent.  A      *)
(* window without a conversation gets neither.                             *)
HandOver(u, w, msg) ==
    Tell(u.m, <<SendAction(w, msg.id, msg.at)>>, <<LogMessage(w, msg)>> \o u.io)

SendMessage(m, w, msg) ==
    IF w \in DOMAIN m.convs
    THEN HandOver(MarkMessageStatus(Append1(m, w, msg), w, msg.id, Status("Sending")), w, msg)
    ELSE Tell([m EXCEPT !.next = @ + 1, !.now = @ + 1], <<>>, <<LogMessage(w, msg)>>)

SendText(m, w) ==
    SendMessage(EnsureWindow(m, w), w,
                Message(m, "text", "Me", Status("Pending"), "none"))

-----------------------------------------------------------------------------
(* Start *)


(* load_conversation_logs: one message for each (timestamp, internal_id),  *)
(* its last line, in the order of the timestamps.                          *)
LastLines(log) ==
    {i \in DOMAIN log : \A j \in DOMAIN log :
        j > i => <<log[j].at, log[j].id>> # <<log[i].at, log[i].id>>}

LoadConversationLogs(log) ==
    LET last == LastLines(log)
        rank(i) == Cardinality({j \in last : log[j].at < log[i].at}) + 1
    IN  [k \in 1 .. Cardinality(last) |->
           log[CHOOSE i \in last : rank(i) = k]]

(* reconcile: the session maps are rebuilt from the Tox instance, every    *)
(* group, conference and friend has its window, and no peer has been seen. *)
Reconcile(m, tox) ==
    LET m1 == [m EXCEPT
                 !.fnum = tox.friends, !.gnum = tox.groups, !.cnum = tox.confs,
                 !.pnum = Empty,
                 !.friends = [pk \in Range(tox.friends) |-> FALSE]]
        EnsureAll(x, ws) == FoldSet(LAMBDA w, y : EnsureWindow(y, w), x, ws)
        m2 == EnsureAll(EnsureAll(EnsureAll(m1, Range(tox.groups)),
                                  Range(tox.confs)), Range(tox.friends))
    IN  [m2 EXCEPT !.convs = [w \in DOMAIN @ |->
            [@[w] EXCEPT !.peers = [p \in DOMAIN @ |-> [@[p] EXCEPT !.seen = FALSE]]]]]

(* load_or_initialize: from the state saved at the last orderly exit, if   *)
(* there is one; the messages come from the logs alone.                    *)
LoadOrInitialize(states, logs, tox, now) ==
    LET fresh == [NewModel EXCEPT !.now = now]
        state == CHOOSE s \in states : TRUE
        base  == IF states = {} THEN Reconcile(fresh, tox)
                 ELSE SetActiveWindow(
                          Reconcile([fresh EXCEPT
                              !.convs = state.convs, !.wins = state.wins,
                              !.unread = state.unread, !.next = state.next,
                              !.pending = state.pending, !.files = state.files,
                              !.online = state.online],
                              tox),
                          state.active)
    IN  [base EXCEPT !.convs = [w \in DOMAIN @ |->
            [@[w] EXCEPT !.msgs = LoadConversationLogs(logs[w])]]]

(* save_state *)
SavedState(m) ==
    [convs |-> m.convs, wins |-> m.wins, unread |-> m.unread, next |-> m.next,
     pending |-> m.pending, files |-> m.files, online |-> m.online,
     active |-> m.active]
=============================================================================
