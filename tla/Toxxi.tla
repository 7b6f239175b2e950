------------------------------- MODULE Toxxi -------------------------------
(***************************************************************************)
(* The toxxi client: the user interface, the Tox worker and the I/O worker *)
(* are three threads with a queue each (main.rs, worker.rs, io.rs); a      *)
(* script, when there is one, is a fourth (script.rs).  The queues are     *)
(* unbounded and keep their order.                                         *)
(*                                                                         *)
(* Phases: "run" is the loop of main; "quit" is main waiting for the Tox   *)
(* worker to end; "drain" is the final drain; "exit" is the I/O worker     *)
(* finishing its queue; then the client is "down", or "crashed".           *)
(***************************************************************************)
EXTENDS ToxxiWorker, ToxxiKeys

CONSTANT
    Scenes      \* what the user, the network and a script do, and how often
                \* things go wrong

CONSTANT
    Home,       \* the room each peer is in
    Times       \* the times texts are written at

VARIABLES
    ui,         \* the model (ToxxiModel)
    inp,        \* the text field and what opens around it (ToxxiKeys)
    rx,         \* messages for the user interface
    toTox,      \* actions for the Tox worker
    toIo,       \* actions for the I/O worker
    tox,        \* the Tox worker and its instance (ToxxiWorker)
    open,       \* active_files of the I/O worker
    disk,       \* the logs, state.json, the profile, the files received
    phase,
    script,     \* the script's position, and what the loop waits for
    plan,       \* what is still to happen of the scene
    ghost       \* lost: texts in flight at the last exit; cancelled: files;
                \* renumbered: the numbers of the session may be out of date;
                \* crashed: the client crashed once

vars == <<ui, inp, rx, toTox, toIo, tox, open, disk, phase, script, plan, ghost>>

Logged == Friends \cup Groups \cup Confs

Init ==
    \E s \in Scenes :
        /\ tox = NewTox(s.friends, s.groups, s.confs)
        /\ disk = [logs |-> [w \in Logged |-> <<>>], state |-> {},
                   save |-> Profile(tox), files |-> [f \in Files |-> {}],
                   hist |-> <<>>]
        /\ inp = NewInput(<<>>)
        /\ ui = LoadOrInitialize({}, disk.logs, tox, 1)
        /\ rx = StartEvents(tox)
        /\ toTox = <<>> /\ toIo = <<>> /\ open = {} /\ phase = "run"
        /\ script = [todo |-> s.script, state |-> "run", req |-> <<>>]
        /\ plan = s.plan
        /\ ghost = [lost |-> {}, cancelled |-> {}, renumbered |-> FALSE,
                     crashed |-> FALSE]

-----------------------------------------------------------------------------
(* The user interface *)

Listening == phase \in {"run", "drain"}

(* execute: the worker is gone when the final drain begins. *)
Apply(u) ==
    /\ ui' = u.m
    /\ toTox' = IF phase = "run" THEN toTox \o u.tox ELSE toTox
    /\ toIo' = toIo \o u.io

(* AppCmd::Quit: the worker is told and waited for.  The rest of the batch *)
(* that was being handled is dropped.  In the final drain the worker has   *)
(* been waited for already: the client panics and the state is not saved.  *)
Quit ==
    \/ /\ phase = "run"
       /\ \E k \in 0 .. Len(rx) : rx' = SubSeq(rx, k + 1, Len(rx))
       /\ toTox' = Append(toTox, [do |-> "Shutdown"])
       /\ phase' = "quit"
    \/ /\ phase = "drain"
       /\ phase' = "exit"
       /\ UNCHANGED <<rx, toTox>>

(* WaitDef::is_fulfilled *)
Fulfilled(req, m, e) ==
    CASE req.wait = "online"        -> m.online
      [] req.wait = "friend_online" -> /\ req.n \in DOMAIN m.fnum
                                       /\ m.fnum[req.n] \in DOMAIN m.friends
                                       /\ m.friends[m.fnum[req.n]]
      [] req.wait = "friend_msg"    -> e.ev = "Message" /\ e.kind = "friend" /\ e.n = req.n
      [] req.wait = "file_recv"     -> e.ev = "FileRecv" /\ e.n = req.n
      [] req.wait = "read_receipt"  -> FALSE
      [] req.wait = "sleep"         -> TRUE

(* check_fulfillment: with the model as it was before the message. *)
CheckFulfillment(e) ==
    script' = IF phase = "run" /\ script.req # <<>> /\ Fulfilled(script.req[1], ui, e)
              THEN [script EXCEPT !.req = <<>>, !.state = "run"] ELSE script

(* One message of the batch. *)
HandleMessage ==
    /\ Listening
    /\ rx # <<>>
    /\ Head(rx).ev # "ScriptRequest"
    /\ rx' = Tail(rx)
    /\ CheckFulfillment(Head(rx))
    /\ Apply(Update(ui, Head(rx)))
    /\ ghost' = IF Head(rx).ev = "FileRecvControl" /\ Head(rx).control = "cancel"
                THEN [ghost EXCEPT !.cancelled = @ \cup {Head(rx).file}] ELSE ghost
    /\ UNCHANGED <<inp, tox, open, disk, phase, plan>>

(* A tick.  Every 25th sends again what waits; the ticks at which all of   *)
(* that is bound to fail are counted, as each adds lines to the log.       *)
Hopeful == \E w \in DOMAIN ui.convs : \E i \in DOMAIN ui.convs[w].msgs :
              /\ ui.convs[w].msgs[i].kind = "text"
              /\ ui.convs[w].msgs[i].status.s = "Pending"
              /\ w \notin Friends \/ w \in tox.on

Tick ==
    /\ Listening
    /\ CheckFulfillment([ev |-> "Tick"])
    /\ \/ /\ ui.typing
          /\ Apply(StopTyping(ui))
          /\ UNCHANGED plan
       \/ /\ \/ Hopeful /\ UNCHANGED plan
             \/ ~Hopeful /\ plan.ticks > 0 /\ plan' = [plan EXCEPT !.ticks = @ - 1]
          /\ Apply(ResendPending(ui))
    /\ UNCHANGED <<inp, rx, tox, open, disk, phase, ghost>>

(* What the user has done when several keys have been pressed. *)
Input ==
    /\ Listening
    /\ plan.user # <<>>
    /\ plan' = [plan EXCEPT !.user = Tail(@)]
    /\ CASE Head(plan.user).cmd = "quit" ->
              Quit /\ UNCHANGED <<ui, toIo>>
         [] Head(plan.user).cmd = "reload" ->
              /\ toTox' = IF phase = "run" THEN Append(toTox, [do |-> "Reload"]) ELSE toTox
              /\ UNCHANGED <<ui, rx, toIo, phase>>
         [] OTHER -> Apply(Execute(ui, Head(plan.user))) /\ UNCHANGED <<rx, phase>>
    /\ UNCHANGED <<inp, tox, open, disk, script, ghost>>

(* A key, one of those the scene allows.  A slice that is out of bounds is *)
(* a panic: nothing is saved.                                              *)
KeyPress ==
    /\ Listening
    /\ plan.keys # <<>>
    /\ plan' = [plan EXCEPT !.keys = Tail(@)]
    /\ \E r \in {Press(ui, inp, key) : key \in Head(plan.keys)} :
          /\ inp' = r.k
          /\ IF Panics(r.k)
             THEN /\ phase' = "crashed"
                  /\ rx' = <<>> /\ toTox' = <<>> /\ toIo' = <<>> /\ open' = {}
                  /\ ghost' = [ghost EXCEPT !.crashed = TRUE]
                  /\ UNCHANGED ui
             ELSE Apply(r.u) /\ UNCHANGED <<rx, open, phase, ghost>>
    /\ UNCHANGED <<tox, disk, script>>

(* The screen is drawn after a batch, which may hold any number of keys.   *)
Draw ==
    /\ phase = "run"
    /\ Drawn(inp) # inp
    /\ inp' = Drawn(inp)
    /\ UNCHANGED <<ui, rx, toTox, toIo, tox, open, disk, phase, script, plan, ghost>>

(* The final drain is over: save_state.  The logs are finished by the I/O  *)
(* worker, which ends when nobody can send to it any more.                 *)
SaveState ==
    /\ phase = "drain"
    /\ rx = <<>>
    /\ disk' = [disk EXCEPT !.state = {SavedState(ui)}, !.hist = inp.hist]
    /\ phase' = "exit"
    /\ UNCHANGED <<inp, ui, rx, toTox, toIo, tox, open, script, plan, ghost>>

Exit ==
    /\ phase = "exit"
    /\ toIo = <<>>
    /\ phase' = "down"
    /\ rx' = <<>> /\ open' = {}
    /\ UNCHANGED <<inp, ui, toTox, toIo, tox, disk, script, plan, ghost>>

Crash ==
    /\ phase \in {"run", "quit", "drain"}
    /\ plan.crashes > 0
    /\ plan' = [plan EXCEPT !.crashes = @ - 1]
    /\ phase' = "crashed"
    /\ rx' = <<>> /\ toTox' = <<>> /\ toIo' = <<>> /\ open' = {}
    /\ ghost' = [ghost EXCEPT !.crashed = TRUE]
    /\ UNCHANGED <<inp, ui, tox, disk, script>>

TextsIn(m, status) ==
    {m.convs[p[1]].msgs[p[2]].at :
        p \in {<<w, i>> \in UNION {{w} \X DOMAIN m.convs[w].msgs : w \in DOMAIN m.convs} :
                 /\ m.convs[w].msgs[i].kind = "text"
                 /\ m.convs[w].msgs[i].status.s = status}}

Start ==
    /\ phase \in {"down", "crashed"}
    /\ plan.starts > 0
    /\ plan' = [plan EXCEPT !.starts = @ - 1]
    /\ phase' = "run"
    /\ tox' = StartTox(tox, disk.save)
    /\ ui' = LoadOrInitialize(disk.state, disk.logs, tox', ui.now)
    /\ inp' = NewInput(disk.hist)
    /\ rx' = StartEvents(tox')
    /\ ghost' = [ghost EXCEPT !.lost = @ \cup TextsIn(ui', "Sending"),
                              !.renumbered = FALSE]
    /\ UNCHANGED <<toTox, toIo, open, disk, script>>

-----------------------------------------------------------------------------
(* The Tox worker *)

Working == phase \in {"run", "quit"}

(* tx.send: nobody listens any more once the client is past its drain. *)
Post(es) == rx' = IF phase = "exit" THEN rx ELSE rx \o es

Put(o) ==
    /\ tox' = o.x
    /\ Post(o.rx)

(* An action; the instance refuses it at most plan.refusals times. *)
WorkerAction ==
    /\ Working
    /\ toTox # <<>>
    /\ LET a == Head(toTox) IN
       CASE a.do = "Reload" ->
              /\ disk' = [disk EXCEPT !.save = Profile(tox)]
              /\ tox' = StartTox(tox, Profile(tox))
              /\ Post(StartEvents(tox'))
              /\ toTox' = Tail(toTox)
              /\ ghost' = [ghost EXCEPT !.renumbered = TRUE]
              /\ UNCHANGED <<phase, plan>>
         [] a.do = "Shutdown" ->
              /\ disk' = [disk EXCEPT !.save = Profile(tox)]
              /\ phase' = "drain"
              /\ toTox' = <<>>
              /\ UNCHANGED <<tox, rx, plan, ghost>>
         [] OTHER ->
              /\ \E ok \in BOOLEAN :
                    /\ ok \/ plan.refusals > 0
                    /\ plan' = IF ok THEN plan ELSE [plan EXCEPT !.refusals = @ - 1]
                    /\ Put(DoAction(tox, a, ok))
              /\ toTox' = Tail(toTox)
              /\ UNCHANGED <<disk, phase, ghost>>
    /\ UNCHANGED <<inp, ui, toIo, open, script>>

(* A chunk that was put off finds room. *)
WorkerDeferred ==
    /\ Working
    /\ tox.deferred # <<>>
    /\ Put(SendDeferred(tox))
    /\ UNCHANGED <<inp, ui, toTox, toIo, open, disk, phase, script, plan, ghost>>

(* Something happens on the network. *)
WorkerEvent ==
    /\ Working
    /\ plan.net # <<>>
    /\ CanHappen(tox, Head(plan.net))
    /\ Put(Passed(tox, Head(plan.net)))
    /\ plan' = [plan EXCEPT !.net = Tail(@)]
    /\ UNCHANGED <<inp, ui, toTox, toIo, open, disk, phase, script, ghost>>

(* The instance goes on with what it has. *)
WorkerProgress ==
    /\ Working
    /\ \/ \E n \in Receipts(tox) : Put(OnReceipt(tox, n)) /\ UNCHANGED toIo
       \/ \E f \in Wanting(tox) : Put(OnChunkRequest(tox, f)) /\ UNCHANGED toIo
       \/ \E f \in Arriving(tox) :
             /\ Put(OnRecvChunk(tox, f))
             /\ toIo' = toIo \o OnRecvChunk(tox, f).io
    /\ UNCHANGED <<inp, ui, toTox, open, disk, phase, script, plan, ghost>>

-----------------------------------------------------------------------------
(* The I/O worker *)

FileEvent(ev, a) == [ev |-> ev, pk |-> a.pk, file |-> a.file]
ChunkEvent(ev, a, len) == [ev |-> ev, file |-> a.file, pos |-> a.pos, len |-> len]

IoOpen(a, ok) ==
    /\ open' = IF ok THEN open \cup {a.file} ELSE open
    /\ Post(IF ok THEN <<>> ELSE <<FileEvent("FileError", a)>>)
    /\ UNCHANGED <<toTox, disk>>

IoRead(a) ==
    /\ IF a.file \in open
       THEN /\ toTox' = IF Working
                        THEN Append(toTox, [do |-> "FileSendChunk", pk |-> a.pk,
                                            file |-> a.file, pos |-> a.pos, len |-> a.len])
                        ELSE toTox
            /\ Post(<<ChunkEvent("FileChunkRead", a, a.len)>>)
       ELSE Post(<<FileEvent("FileError", a)>>) /\ UNCHANGED toTox
    /\ UNCHANGED <<open, disk>>

IoWrite(a) ==
    /\ IF a.file \in open
       THEN /\ disk' = [disk EXCEPT !.files[a.file] = @ \cup {a.pos}]
            /\ Post(<<ChunkEvent("FileChunkWritten", a, 1)>>)
       ELSE UNCHANGED <<disk, rx>>
    /\ UNCHANGED <<open, toTox>>

IoClose(a) ==
    /\ open' = open \ {a.file}
    /\ Post(<<FileEvent("FileFinished", a)>>)
    /\ UNCHANGED <<toTox, disk>>

IoLog(a) ==
    /\ disk' = IF a.win \in Logged
               THEN [disk EXCEPT !.logs[a.win] = Append(@, a.msg)] ELSE disk
    /\ UNCHANGED <<rx, open, toTox>>

IoAction ==
    /\ phase \notin {"down", "crashed"}
    /\ toIo # <<>>
    /\ toIo' = Tail(toIo)
    /\ LET a == Head(toIo) IN
       CASE a.do = "OpenFile" ->
              \E ok \in BOOLEAN :
                 /\ ok \/ plan.refusals > 0
                 /\ plan' = IF ok THEN plan ELSE [plan EXCEPT !.refusals = @ - 1]
                 /\ IoOpen(a, ok)
         [] a.do = "ReadChunk"  -> IoRead(a) /\ UNCHANGED plan
         [] a.do = "WriteChunk" -> IoWrite(a) /\ UNCHANGED plan
         [] a.do = "CloseFile"  -> IoClose(a) /\ UNCHANGED plan
         [] a.do = "LogMessage" -> IoLog(a) /\ UNCHANGED plan
    /\ UNCHANGED <<inp, ui, tox, phase, script, ghost>>

-----------------------------------------------------------------------------
(* The script *)

(* A function of the script sends its request and waits for the answer. *)
ScriptAsk ==
    /\ phase = "run"
    /\ script.state = "run"
    /\ script.todo # <<>>
    /\ rx' = Append(rx, [ev |-> "ScriptRequest", req |-> Head(script.todo)])
    /\ script' = [script EXCEPT !.todo = Tail(@), !.state = "asked"]
    /\ UNCHANGED <<inp, ui, toTox, toIo, tox, open, disk, phase, plan, ghost>>

(* The loop takes the request: a command is run at once and answered, a    *)
(* wait is looked at when the next message comes.  The final drain does    *)
(* not know requests.                                                      *)
HandleRequest ==
    /\ Listening
    /\ rx # <<>>
    /\ Head(rx).ev = "ScriptRequest"
    /\ rx' = Tail(rx)
    /\ LET req == Head(rx).req IN
       IF phase = "run" /\ req.wait = "command"
       THEN /\ Apply(Execute(ui, req.command))
            /\ script' = [script EXCEPT !.state = "run"]
       ELSE /\ script' = IF phase = "run" THEN [script EXCEPT !.req = <<req>>] ELSE script
            /\ UNCHANGED <<ui, toTox, toIo>>
    /\ UNCHANGED <<inp, tox, open, disk, phase, plan, ghost>>

(* The script has ended: the client quits after the batch. *)
ScriptEnd ==
    /\ phase = "run"
    /\ script.state = "run" /\ script.todo = <<>> /\ plan.scripted
    /\ toTox' = Append(toTox, [do |-> "Shutdown"])
    /\ phase' = "quit"
    /\ script' = [script EXCEPT !.state = "ended"]
    /\ UNCHANGED <<inp, ui, rx, toIo, tox, open, disk, plan, ghost>>

-----------------------------------------------------------------------------
(* Where no crash can come, writing a line to a log has no order with any  *)
(* other step but the next line: nothing reads the logs before the client  *)
(* has ended.  It is done at once.                                         *)
Logging == plan.crashes = 0 /\ toIo # <<>> /\ Head(toIo).do = "LogMessage"

Next ==
    \/ IoAction
    \/ /\ ~Logging
       /\ \/ HandleMessage \/ Tick \/ Input \/ KeyPress \/ Draw \/ SaveState \/ Exit \/ Crash \/ Start
          \/ WorkerAction \/ WorkerDeferred \/ WorkerEvent \/ WorkerProgress
          \/ ScriptAsk \/ HandleRequest \/ ScriptEnd

(* Each thread goes on as long as it has something to do, and ticks come   *)
(* while a text waits that can be sent: weak fairness of HandleMessage and  *)
(* HandleRequest, of WorkerAction, IoAction and Tick, written out.  The    *)
(* user, the network and crashes owe nothing.                              *)
Fairness ==
    /\ []<>(~Listening \/ rx = <<>>)
       \/ []<><<rx # <<>> /\ rx' = Tail(rx)>>_vars
    /\ []<>(~Working \/ toTox = <<>>)
       \/ []<><<toTox # <<>> /\ toTox' = Tail(toTox)>>_vars
    /\ []<>(phase \in {"down", "crashed"} \/ toIo = <<>>)
       \/ []<><<toIo # <<>> /\ toIo' = Tail(toIo)>>_vars
    /\ []<>(~Listening \/ ~Hopeful) \/ []<><<Tick>>_vars

Spec == Init /\ [][Next]_vars /\ Fairness

-----------------------------------------------------------------------------
(* Properties *)

Statuses == {"Pending", "Sending", "Sent", "Received", "Failed", "Incoming"}
Phases == {"run", "quit", "drain", "exit", "down", "crashed"}

Boxes == {inp.box} \cup {s.box : s \in Range(inp.switch) \cup Range(inp.pick)}

InputTypeOK ==
    /\ \A b \in Boxes :
          /\ \A e \in {Snapshot(b)} \cup Range(b.undo) \cup Range(b.redo) :
                e.cur \in 0 .. Len(e.text)
          /\ Len(b.undo) + Len(b.redo) <= MaxUndo
    /\ inp.hidx \in 0 .. Len(inp.hist)
    /\ inp.comp.on => inp.comp.idx \in DOMAIN inp.comp.cands
    /\ \A menu \in Range(inp.menu) :
          IF Filtered(menu) = <<>> THEN menu.sel = 0 ELSE menu.sel \in DOMAIN Filtered(menu)

(* The state has its shape, so that nothing is indexed outside of what is  *)
(* there.  The window shown exists, the console is the first one, no       *)
(* window is there twice and every conversation is a window                *)
(* (set_active_window, /close, /friend remove, reconcile).  Whatever is    *)
(* pressed and however rarely the screen is drawn, cursors are in their    *)
(* texts, also those that undo and redo go back to, which together are no  *)
(* more than are kept; the entry of the history, the candidate of a        *)
(* completion and the line of the menu that are shown exist (input_box.rs; *)
(* history_up, apply_completion, refresh_selection).                       *)
ToxxiTypeOK ==
    /\ phase \in Phases
    /\ ui.active \in DOMAIN ui.wins
    /\ ui.wins[1] = "Console"
    /\ \A i, j \in DOMAIN ui.wins : i # j => ui.wins[i] # ui.wins[j]
    /\ DOMAIN ui.convs \subseteq Range(ui.wins)
    /\ \A w \in DOMAIN ui.convs : \A i \in DOMAIN ui.convs[w].msgs :
          ui.convs[w].msgs[i].status.s \in Statuses
    /\ DOMAIN ui.files \subseteq Files
    /\ open \subseteq Files
    /\ InputTypeOK

Messages(m, w) == IF w \in DOMAIN m.convs THEN Range(m.convs[w].msgs) ELSE {}

Waiting(w, msg) ==
    Cardinality({i \in DOMAIN toTox :
        toTox[i].do = "SendMessage" /\ toTox[i].to = w /\ toTox[i].at = msg.at})

Answers(w, id) ==
    Cardinality({i \in DOMAIN rx :
        /\ rx[i].ev \in {"MessageSent", "MessageSendFailed"}
        /\ rx[i].id = id
        /\ IF rx[i].ev = "MessageSent"
           THEN rx[i].kind = Kind(w) /\ rx[i].n \in KeysOf(Numbers(ui, Kind(w)), w)
           ELSE rx[i].win = w})

Found(w) == (IF w \in Friends THEN FindFriend(tox, w) ELSE FindRoom(tox, w)) # {}

(* A text that is shown as being sent is on its way: its request is in the *)
(* queue of the Tox worker or its answer in that of the user interface,    *)
(* and there is one of them only (handle_enter, the resending of Tick,     *)
(* worker.rs SendMessage).  A text that was on its way when the client     *)
(* ended stays as it is, a chat that the worker cannot find has no answer, *)
(* and after /reload answers may be taken for another chat.                *)
SendingAnswered ==
    phase = "run" /\ ~ghost.renumbered =>
        \A w \in DOMAIN ui.convs : \A msg \in Messages(ui, w) :
            /\ msg.kind = "text" /\ msg.status.s = "Sending"
            /\ msg.at \notin ghost.lost
            /\ Found(w)
            => Waiting(w, msg) + Answers(w, msg.id) = 1

(* No text is accepted by Tox twice, whatever is resent, lost by quitting  *)
(* or loaded again (Tick, MessageSendFailed, load_or_initialize), as long  *)
(* as the client does not crash.                                           *)
SentOnce ==
    ghost.crashed \/ \A i, j \in DOMAIN tox.sent : i # j => tox.sent[i] # tox.sent[j]

(* A text is filed in the conversation it was written in, though numbers   *)
(* are given out again when friends and rooms come and go (OnMessage,      *)
(* FriendStatus, GroupCreated, /friend remove, /close).  After /reload the *)
(* numbers of the session are those of the old instance.                   *)
FiledRight ==
    ghost.renumbered \/
    \A w \in DOMAIN ui.convs : \A msg \in Messages(ui, w) :
        /\ msg.by \in Friends => w = msg.by
        /\ msg.by \in Peers => w = Home[msg.by]

Settled(s) == IF s = "Received" THEN "Sent" ELSE s



Positions(q, file, Match(_)) ==
    LET hits == SelectSeq(q, LAMBDA c : Match(c) /\ c.file = file)
    IN  [i \in DOMAIN hits |-> hits[i].pos]


Seen(w) == {<<pk, ui.convs[w].peers[pk].name>> :
              pk \in {p \in DOMAIN ui.convs[w].peers : ui.convs[w].peers[p].seen}}

(* When nothing is under way, the peers shown online in a room are those   *)
(* the instance has there, under their names (GroupPeerJoin and the like,  *)
(* the comparison of conference lists).  An instance that was reloaded, or *)
(* a number that a conference left behind, has peers the client is not     *)
(* told of.                                                                *)
PeersAgree ==
    phase = "run" /\ rx = <<>> /\ toTox = <<>> /\ ~ghost.renumbered =>
        /\ \A n \in DOMAIN tox.groups :
              LET w == tox.groups[n] IN
              w \in DOMAIN ui.convs =>
                Seen(w) = {<<pk, tox.gpeers[w][pk].name>> : pk \in DOMAIN tox.gpeers[w]}
        /\ \A n \in DOMAIN tox.confs :
              LET w == tox.confs[n] IN
              w \in DOMAIN ui.convs =>
                Seen(w) = {<<pk, tox.cpeers[w][pk]>> : pk \in DOMAIN tox.cpeers[w]}

Unsent(w, at) ==
    \E msg \in Messages(ui, w) :
        /\ msg.at = at /\ msg.kind = "text" /\ msg.by = "Me"
        /\ msg.status.s \in {"Pending", "Sending"}
        /\ at \notin ghost.lost

(* A text to a friend who stays connected is sent at last, however often   *)
(* sending it failed before (MessageSendFailed, the resending of Tick).    *)
Delivers ==
    \A pk \in Friends, at \in Times :
        <>[](phase = "run" /\ pk \in tox.on /\ ~ghost.renumbered) =>
            []<>~Unsent(pk, at)

(* No key loses a text for good: when the text in the field becomes        *)
(* another, what was there is what undo or redo gives next (record_undo;   *)
(* clear, set_value, the history, the completion and the menu, a text that *)
(* is sent).                                                               *)
NothingLost ==
    [][phase = "run" /\ phase' = "run" /\ inp'.box.text # inp.box.text =>
        \/ inp'.box.undo # <<>> /\ Last(inp'.box.undo) = Snapshot(inp.box)
        \/ inp'.box.redo # <<>> /\ Last(inp'.box.redo) = Snapshot(inp.box)]_vars
=============================================================================
