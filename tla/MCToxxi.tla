------------------------------ MODULE MCToxxi ------------------------------
(***************************************************************************)
(* The scenes in which the toxxi client is checked.  In each, the inputs   *)
(* of the user and the events of the network happen in the order given,    *)
(* interleaved in every way with each other and with the threads.          *)
(***************************************************************************)
EXTENDS Toxxi, TLC

CONSTANTS f1, f2, g1, g2, c1, p1, p2, p3, file

MCFriends == {f1, f2}
MCGroups == {g1, g2}
MCConfs == {c1}
MCPeers == {p1, p2, p3}
MCFiles == {file}
MCHome == (p1 :> g1) @@ (p2 :> g2) @@ (p3 :> c1)

F1 == 0 :> f1
F12 == (0 :> f1) @@ (1 :> f2)

Scene(friends, groups, confs, user, net) ==
    [friends |-> friends, groups |-> groups, confs |-> confs, script |-> <<>>,
     plan |-> [user |-> user, net |-> net, keys |-> <<>>, ticks |-> 0, refusals |-> 0, starts |-> 0,
               crashes |-> 0, scripted |-> FALSE]]

Cmd(c) == [cmd |-> c]
Say1(n) == [cmd |-> "msg", n |-> n]
Line(k) == [cmd |-> "enter", parts |-> k]
Win1(i) == [cmd |-> "win", i |-> i]
AskFor(action) == [cmd |-> "ask", action |-> action]
Join(w) == AskFor([do |-> "Enter", win |-> w])
FileDo(control) == [cmd |-> "file", n |-> 0, file |-> file, control |-> control]
Key(key) == [cmd |-> "key", file |-> file, key |-> key]

Conn(n, on) == [ev |-> "Connection", n |-> n, on |-> on]
Text(n, pk) == [ev |-> "Message", kind |-> "friend", n |-> n, by |-> pk]
GroupText(n, pk) == [ev |-> "Message", kind |-> "group", n |-> n, by |-> pk]
ConfText(n, pk) == [ev |-> "Message", kind |-> "conf", n |-> n, by |-> pk]
Request(pk) == [ev |-> "Pending", kind |-> "friend", n |-> 0, room |-> pk]
InviteTo(kind, n, w) == [ev |-> "Pending", kind |-> kind, n |-> n, room |-> w]
PeerIn(n, p, pk, name) ==
    [ev |-> "GroupPeerJoin", n |-> n, p |-> p, pk |-> pk, name |-> name,
     room |-> MCHome[pk]]
PeerNamed(n, pk, name) == [ev |-> "GroupPeerName", n |-> n, pk |-> pk, name |-> name]
PeerOut(n, pk) == [ev |-> "GroupPeerExit", n |-> n, pk |-> pk]
PeerStatus(n, pk) == [ev |-> "GroupPeerStatus", n |-> n, pk |-> pk]
SelfJoin(n) == [ev |-> "GroupSelfJoin", n |-> n]
List(n, peers) == [ev |-> "PeerList", n |-> n, peers |-> peers]
ConfName(n, pk, name) == [ev |-> "ConfPeerName", n |-> n, pk |-> pk, name |-> name]
Offer(avatar) == [ev |-> "Offer", n |-> 0, file |-> file, avatar |-> avatar]
Control(c) == [ev |-> "Control", file |-> file, control |-> c]

Wait(w) == [wait |-> w, n |-> 0]
Run(c) == [wait |-> "command", command |-> c]

(* Two texts to a friend who comes and goes; one is refused. *)
Talk == [Scene(F1, Empty, Empty, <<[cmd |-> "query", n |-> 0], Line(2)>>,
               <<Conn(0, TRUE), Conn(0, FALSE), Conn(0, TRUE)>>)
         EXCEPT !.plan.ticks = 1, !.plan.refusals = 1]

(* The client quits in the middle of a talk and starts again. *)
QuitTalk == [Scene(F1, Empty, Empty, <<Say1(0), Cmd("quit"), Line(1)>>,
                   <<Conn(0, TRUE), Text(0, f1), Conn(0, TRUE)>>)
             EXCEPT !.plan.ticks = 1, !.plan.starts = 1]

(* A file is offered and accepted, held and let go on; a disk error. *)
Receive == [Scene(F1, Empty, Empty,
                  <<Win1(2), Key("a"), FileDo("pause"), FileDo("resume")>>,
                  <<Conn(0, TRUE), Offer(FALSE)>>)
            EXCEPT !.plan.refusals = 1]

(* Another one, which the friend cancels while it comes in. *)
Cancelled == Scene(F1, Empty, Empty,
                   <<[cmd |-> "take", n |-> 0, file |-> file], [cmd |-> "tool", win |-> "Files"],
                     Key("p"), Key("x")>>,
                   <<Conn(0, TRUE), Offer(FALSE), Control("pause"), Control("resume"),
                     Control("cancel")>>)

(* A file is sent; the send queue is full once. *)
SendFile == [Scene(F1, Empty, Empty,
                   <<[cmd |-> "send", n |-> 0, file |-> file]>>,
                   <<Conn(0, TRUE), Control("resume"), Control("pause"), Control("resume")>>)
             EXCEPT !.plan.refusals = 1]

(* The friend goes away while a file is sent, and comes back. *)
BrokenFile == Scene(F1, Empty, Empty,
                    <<[cmd |-> "send", n |-> 0, file |-> file], Win1(2), Key("x")>>,
                    <<Conn(0, TRUE), Control("resume"), Conn(0, FALSE), Conn(0, TRUE),
                      Offer(TRUE)>>)

(* A group is made, a peer comes, speaks, is renamed and leaves. *)
GroupLife == Scene(Empty, Empty, Empty,
                   <<Join(g1), Line(1), [cmd |-> "ignore", p |-> p1, toggle |-> TRUE],
                     [cmd |-> "topic", topic |-> 1]>>,
                   <<SelfJoin(0), PeerIn(0, 1, p1, 1), PeerNamed(0, p1, 2), GroupText(0, p1),
                     PeerOut(0, p1), PeerIn(0, 2, p1, 2)>>)

(* Groups are left and joined; numbers are given out again. *)
GroupSwap == Scene(Empty, 0 :> g1, Empty,
                   <<Win1(2), Line(1), Cmd("close"), Join(g2), Line(1)>>,
                   <<PeerIn(0, 1, p1, 1), GroupText(0, p1), PeerStatus(0, p1),
                     PeerIn(0, 1, p2, 1), GroupText(0, p2)>>)

(* A conference, its peers, and a restart. *)
Conference == [Scene(F1, Empty, 0 :> c1,
                     <<Win1(2), Line(1), [cmd |-> "topic", topic |-> 1], Cmd("quit")>>,
                     <<List(0, p3 :> 1), ConfText(0, p3), List(0, p3 :> 2),
                       ConfName(0, p3, 1), List(0, Empty)>>)
               EXCEPT !.plan.starts = 1]

(* Requests and invites, a friend who is removed and asks again. *)
Requests == Scene(F1, Empty, Empty,
                  <<[cmd |-> "remove", n |-> 0], [cmd |-> "accept", i |-> 1],
                    [cmd |-> "query", n |-> 0], Line(1), [cmd |-> "reject", i |-> 1]>>,
                  <<Conn(0, TRUE), Text(0, f1), Request(f2), Conn(0, TRUE), Text(0, f2),
                    Request(f1)>>)

Invites == Scene(F1, Empty, Empty,
                 <<[cmd |-> "accept", i |-> 1], [cmd |-> "accept", i |-> 1], Cmd("prev")>>,
                 <<Conn(0, TRUE), InviteTo("group", 0, g1), InviteTo("conf", 0, c1)>>)

(* Friends are removed and the instance is loaded again. *)
Reload == Scene(F12, Empty, Empty,
                <<[cmd |-> "remove", n |-> 0], Cmd("reload"), Say1(1)>>,
                <<Conn(1, TRUE), Conn(0, TRUE), Text(0, f2)>>)

(* Windows, typing, clearing *)
Windows1 == Scene(F12, 0 :> g1, Empty,
                  <<Win1(2), Cmd("type"), Cmd("next"), [cmd |-> "tool", win |-> "Logs"], Line(1),
                    Cmd("note"), [cmd |-> "remove", n |-> 1], Cmd("pop"), Cmd("close"), Win1(9),
                    [cmd |-> "alt", i |-> 9],
                    [cmd |-> "clear", all |-> FALSE], Cmd("next"), Cmd("prev")>>,
                  <<Conn(0, TRUE), Text(0, f1)>>)

(* A script *)
Scripted == [Scene(F1, Empty, Empty, <<>>,
                   <<[ev |-> "SelfConnection", on |-> TRUE], Conn(0, TRUE), Text(0, f1),
                     Offer(FALSE)>>)
             EXCEPT !.plan.scripted = TRUE, !.plan.starts = 1,
                    !.script = <<Wait("online"), Wait("friend_online"), Run(Say1(0)),
                                 Wait("friend_msg"), Wait("sleep"), Run(Cmd("me"))>>]

(* A crash *)
Crashing == [Scene(F1, Empty, Empty, <<Say1(0), Line(1)>>,
                   <<Conn(0, TRUE), Conn(0, TRUE)>>)
             EXCEPT !.plan.crashes = 1, !.plan.starts = 1]

-----------------------------------------------------------------------------
(* The text field.  In these scenes the first keys are given, then the     *)
(* user presses any of some keys, n times.                                 *)

MCNameOf(w) == CASE w \in {f1, g1} -> <<"a", "b">> [] w = f2 -> <<"b">>
                 [] OTHER -> <<"f", "g">>
MCCommands == <<[name |-> <<"a">>, args |-> FALSE, friend |-> FALSE],
                [name |-> <<"a", "b">>, args |-> TRUE, friend |-> TRUE],
                [name |-> <<"c">>, args |-> TRUE, friend |-> FALSE]>>
MCEmojis == <<[name |-> <<"a">>, sign |-> "A"], [name |-> <<"a", "b">>, sign |-> "B"],
              [name |-> <<"b", "a">>, sign |-> "A"], [name |-> <<"a", "b", "c">>, sign |-> "C"]>>
MCBlocked == {<<"b", "b">>}
MCPasted == <<"a", "b", "-", " ", "c">>
MCLineCommand(t) ==
    IF Parts(t) = << <<"/", "a", "b">>, <<"0">> >> THEN [cmd |-> "query", n |-> 0] ELSE Cmd("note")

Char(c) == [code |-> c, mods |-> {}, char |-> TRUE]
Ctrl(c) == [code |-> c, mods |-> {"ctrl"}, char |-> TRUE]
Alt(c) == [code |-> c, mods |-> {"alt"}, char |-> TRUE]
Special(c) == [code |-> c, mods |-> {}, char |-> FALSE]
Shift(c) == [code |-> c, mods |-> {"shift"}, char |-> FALSE]
CtrlMove(c) == [code |-> c, mods |-> {"ctrl"}, char |-> FALSE]

Typing(friends, groups, first, n, keys) ==
    [Scene(friends, groups, Empty, <<>>, <<>>) EXCEPT
        !.plan.keys = [i \in 1 .. Len(first) |-> {first[i]}] \o [i \in 1 .. n |-> keys]]

(* Selecting, cutting and undoing *)
Editing == Typing(Empty, Empty, <<Char("a"), Char("b")>>, 6,
    {Char("c"), Shift("Left"), Special("Right"), Special("Backspace"), Ctrl("u"), Ctrl("x"),
     Ctrl("v"), Ctrl("z"), Ctrl("y"), Ctrl("c")})

(* Words *)
Wording == Typing(Empty, Empty, <<Special("Paste")>>, 5,
    {CtrlMove("Left"), CtrlMove("Right"), Ctrl("w"), CtrlMove("Delete"), Ctrl("k"), Shift("Home"),
     Ctrl("a"), Ctrl("z"), Special("Delete")})

(* Several lines *)
Lines == Typing(Empty, Empty, <<Ctrl("t"), Char("a"), Special("Enter"), Char("b")>>, 5,
    {Special("Up"), Special("Down"), Shift("Up"), Special("Enter"), Special("Right"), Special("End"),
     Special("Left"), Ctrl("d"), Special("Paste"), Ctrl("z")})

(* The history of lines *)
Recalling == Typing(Empty, Empty, <<Char("a"), Special("Enter"), Char("b"), Special("Enter")>>, 5,
    {Special("Up"), Special("Down"), Char("a"), Special("Enter"), Ctrl("c"), Ctrl("o"), Ctrl("z")})

(* A text is sent, another is blocked; the client quits and starts. *)
Sending == [Typing(F1, Empty, <<Ctrl("n")>>, 3, {Char("b"), Special("Enter"), Special("Up")})
            EXCEPT !.plan.net = <<Conn(0, TRUE)>>, !.plan.starts = 1,
                   !.plan.user = <<Cmd("quit")>>]

(* The completion of a word *)
Completing == Typing(F12, Empty, <<Char("a"), Special("Tab")>>, 5,
    {Special("Tab"), Special("Up"), Special("Down"), Special("Left"), Special("Right"), Char("b"),
     Char(" "), Special("Esc"), Ctrl("u")})

(* The menu of commands *)
Choosing == Typing(F12, Empty, <<Char("/")>>, 5,
    {Char("a"), Char("b"), Char(" "), Special("Tab"), Special("Up"), Special("Down"), Ctrl("u"),
     Special("Backspace"), Special("Enter"), Char("0"), Special("Esc")})

(* The quick switcher; a friend is removed while it is open. *)
Switching == [Typing(F12, 0 :> g1, <<Special("BackTab")>>, 4,
    {Char("f"), Char(":"), Char("b"), Special("Up"), Special("Down"), Special("Enter"),
     Special("Backspace"), Special("Esc"), Ctrl(" ")})
    EXCEPT !.plan.user = <<[cmd |-> "remove", n |-> 0]>>]

(* The emoji picker *)
Picking == Typing(Empty, Empty, <<Ctrl("e")>>, 5,
    {Char("a"), Char("c"), Special("Up"), Special("Down"), Special("Left"), Special("Right"),
     Special("Enter"), Special("Backspace"), Ctrl("z")})

(* Modes and windows *)
Modes == Typing(F12, Empty, <<Char("a")>>, 4,
    {Special("Esc"), Char("i"), Ctrl("t"), Ctrl("o"), Ctrl("p"), Ctrl("d"), Special("Enter"),
     Alt("1"), Alt("a"), Ctrl("f"), Ctrl("l")})

MCScenes == {Talk, QuitTalk, Receive, Cancelled, SendFile, BrokenFile, GroupLife, GroupSwap, Conference, Requests, Invites, Reload, Windows1, Scripted, Crashing, Editing, Wording, Lines, Recalling, Sending, Completing, Choosing, Switching, Picking, Modes}
=============================================================================
