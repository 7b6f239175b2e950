---------------------------- MODULE ToxxiUpdate ---------------------------
(***************************************************************************)
(* What the user interface of toxxi does with a message (update.rs) and    *)
(* with a command of the user (commands/): every operator takes the model  *)
(* and returns what is left behind, in the form of ToxxiModel!Tell.        *)
(* Events are records named by their field ev; n is a number of the Tox    *)
(* instance, kind the sort of chat it is a number of.                      *)
(***************************************************************************)
EXTENDS ToxxiModel

CONSTANT Size       \* the number of chunks of a file

(* The session map for a kind of number. *)
Numbers(m, kind) ==
    CASE kind = "friend" -> m.fnum
      [] kind = "group"  -> m.gnum
      [] kind = "conf"   -> m.cnum

-----------------------------------------------------------------------------
(* Events of the Tox worker: texts *)

(* Message, GroupMessage, ConferenceMessage.  The text goes where the      *)
(* session map says; e.by is who wrote it.                                 *)
OnMessage(m, e) ==
    LET to == Numbers(m, e.kind) IN
    IF e.n \in DOMAIN to
    THEN AddIncoming(EnsureWindow(m, to[e.n]), to[e.n], "text", e.by)
    ELSE Done(m)

(* MessageSent, GroupMessageSent, ConferenceMessageSent *)
OnMessageSent(m, e) ==
    LET to == Numbers(m, e.kind) IN
    IF e.n \in DOMAIN to
    THEN MarkMessageStatus(m, to[e.n], e.id,
                           IF e.kind = "friend" THEN Sent(e.sid)
                           ELSE Status("Received"))
    ELSE Done(m)

(* (Mutant: the failure is passed over.)                                   *)
PassOverFailure(m, e) == Done(m)

OnMessageSendFailed(m, e) ==
    MarkMessageStatus(m, e.win, e.id, Status("Pending"))

(* ReadReceipt: everything sent up to that id has been read.  This is not  *)
(* logged.                                                                 *)
OnReadReceipt(m, e) ==
    LET pk == m.fnum[e.n] IN
    Done(IF e.n \in DOMAIN m.fnum /\ pk \in DOMAIN m.convs
         THEN [m EXCEPT !.convs[pk].msgs = [i \in DOMAIN @ |->
                 IF @[i].status.s = "Sent" /\ @[i].status.n <= e.sid
                 THEN [@[i] EXCEPT !.status = Status("Received")] ELSE @[i]]]
         ELSE m)

-----------------------------------------------------------------------------
(* Friends, rooms and their peers *)

OnConnectionStatus(m, e) == Done([m EXCEPT !.online = e.on])

(* FriendStatus: whoever it is becomes a friend of the model. *)
OnFriendStatus(m, e) ==
    Done([m EXCEPT !.fnum = With(@, e.n, e.pk), !.friends = With(@, e.pk, e.on)])

OnPending(m, e) ==
    Done(IF e.kind = "friend" \/ e.n \in DOMAIN m.fnum
         THEN [m EXCEPT !.pending = Append(@,
                 [kind |-> e.kind, room |-> e.room,
                  who |-> IF e.kind = "friend" THEN e.room ELSE m.fnum[e.n]])]
         ELSE m)

(* (Mutant: a number that is known keeps its room.)                        *)
OnCreatedFirst(m, e) ==
    LET m1 == IF e.kind = "group"
              THEN [m EXCEPT !.gnum = With(@, e.n,
                       IF e.n \in DOMAIN @ THEN @[e.n] ELSE e.win)]
              ELSE [m EXCEPT !.cnum = With(@, e.n, e.win)]
    IN  Done(IF e.win \in DOMAIN m.convs THEN EnsureWindow(m1, e.win)
             ELSE Show(m1, e.win))

(* GroupCreated, ConferenceCreated: a conversation that is new is shown. *)
OnCreated(m, e) ==
    LET m1 == IF e.kind = "group"
              THEN [m EXCEPT !.gnum = With(@, e.n, e.win)]
              ELSE [m EXCEPT !.cnum = With(@, e.n, e.win)]
    IN  Done(IF e.win \in DOMAIN m.convs THEN EnsureWindow(m1, e.win)
             ELSE Show(m1, e.win))

(* GroupTopic and ConferenceTitle; a change is put in the conversation.    *)
(* GroupName, GroupSelfJoin and GroupSelfRole only make the window.        *)
OnTopic(m, e) ==
    LET w  == Numbers(m, e.kind)[e.n]
        m1 == EnsureWindow(m, w)
    IN  IF e.n \notin DOMAIN Numbers(m, e.kind) THEN Done(m)
        ELSE IF e.topic = m1.convs[w].topic THEN Done(m1)
        ELSE AddIncoming([m1 EXCEPT !.convs[w].topic = e.topic], w, "sys", "System")

OnSelfJoin(m, e) ==
    Done(IF e.n \in DOMAIN m.gnum THEN EnsureWindow(m, m.gnum[e.n]) ELSE m)

HasPeers(m, kind, n) ==
    n \in DOMAIN Numbers(m, kind) /\ Numbers(m, kind)[n] \in DOMAIN m.convs

PutPeer(m, w, pk, name) ==
    [m EXCEPT !.convs[w].peers =
        With(@, pk, [name |-> name, seen |-> TRUE,
                     ign |-> pk \in m.convs[w].ignored])]

(* GroupPeerJoin; our own join is passed over. *)
OnGroupPeerJoin(m, e) ==
    LET m1 == [m EXCEPT !.pnum = With(@, <<e.n, e.p>>, e.pk)]
        w  == m.gnum[e.n]
        u  == AddIncoming(m1, w, "sys", "System")
    IN  IF HasPeers(m, "group", e.n)
        THEN Tell(PutPeer(u.m, w, e.pk, e.name), <<>>, u.io)
        ELSE Done(m1)

(* GroupPeerLeave: the peer is the one its number stands for. *)
OnGroupPeerLeave(m, e) ==
    LET m1 == [m EXCEPT !.pnum = Without(@, <<e.n, e.p>>)]
        pk == m.pnum[<<e.n, e.p>>]
        w  == m.gnum[e.n]
        u  == IF pk \in DOMAIN m.convs[w].peers
              THEN AddIncoming(m1, w, "sys", "System") ELSE Done(m1)
    IN  IF <<e.n, e.p>> \in DOMAIN m.pnum /\ HasPeers(m, "group", e.n)
        THEN Tell([u.m EXCEPT !.convs[w].peers = Without(@, pk)], <<>>, u.io)
        ELSE Done(m1)

(* GroupPeerName: a peer, or we ourselves, under another name. *)
OnGroupPeerName(m, e) ==
    LET m1 == [m EXCEPT !.pnum = With(@, <<e.n, e.p>>, e.pk)]
        w  == m.gnum[e.n]
        m2 == IF e.pk = "Me" THEN [m1 EXCEPT !.convs[w].self = e.name]
              ELSE IF e.pk \in DOMAIN m1.convs[w].peers
              THEN [m1 EXCEPT !.convs[w].peers[e.pk].name = e.name,
                              !.convs[w].peers[e.pk].seen = TRUE]
              ELSE m1
        old == IF e.pk = "Me" THEN {m1.convs[w].self}
               ELSE {m1.convs[w].peers[q].name : q \in DOMAIN m1.convs[w].peers \cap {e.pk}}
    IN  IF ~HasPeers(m, "group", e.n) THEN Done(m1)
        ELSE IF old \subseteq {e.name} THEN Done(m2)
        ELSE AddIncoming(m2, w, "sys", "System")

(* GroupPeerStatus *)
OnGroupPeerStatus(m, e) ==
    LET pk == m.pnum[<<e.n, e.p>>]
        w  == m.gnum[e.n]
    IN  Done(IF /\ <<e.n, e.p>> \in DOMAIN m.pnum
                /\ HasPeers(m, "group", e.n)
                /\ pk \in DOMAIN m.convs[w].peers
             THEN [m EXCEPT !.convs[w].peers[pk].seen = TRUE]
             ELSE m)

(* ConferencePeerJoin, ConferencePeerLeave, ConferencePeerName *)
OnConfPeer(m, e) ==
    LET w == m.cnum[e.n] IN
    Done(IF ~HasPeers(m, "conf", e.n) THEN m
         ELSE CASE e.ev = "ConfPeerJoin"  -> PutPeer(m, w, e.pk, e.name)
                [] e.ev = "ConfPeerLeave" ->
                     [m EXCEPT !.convs[w].peers = Without(@, e.pk)]
                [] e.ev = "ConfPeerName"  ->
                     IF e.pk \in DOMAIN m.convs[w].peers
                     THEN PutPeer(m, w, e.pk, e.name) ELSE m)

-----------------------------------------------------------------------------
(* File transfers.  A chunk is named by its position; done counts the      *)
(* chunks transferred.                                                     *)

Transfer(pk, receiving) ==
    [pk |-> pk, recv |-> receiving, status |-> "Active", done |-> 0]

CloseFile(pk, file) == [do |-> "CloseFile", pk |-> pk, file |-> file]
FileControl(file, control) ==
    [do |-> "FileControl", file |-> file, control |-> control]
OpenFile(pk, file, way) ==
    [do |-> "OpenFile", pk |-> pk, file |-> file, way |-> way]

(* FileRecv: only plain files are offered to the user. *)
OnFileRecv(m, e) ==
    LET pk == m.fnum[e.n] IN
    IF e.n \notin DOMAIN m.fnum THEN Done(m)
    ELSE IF e.avatar THEN Tell(m, <<FileControl(e.file, "cancel")>>, <<>>)
    ELSE AddFileMessage([m EXCEPT !.files = With(@, e.file, Transfer(pk, TRUE))],
                        pk, pk, e.file)

SetTransfer(m, file, status) ==
    IF file \in DOMAIN m.files THEN [m EXCEPT !.files[file].status = status] ELSE m

(* FileRecvControl *)
OnFileRecvControl(m, e) ==
    LET pk == m.fnum[e.n]
        m1 == [m EXCEPT !.files = Without(@, e.file)]
    IN  IF e.n \notin DOMAIN m.fnum THEN Done(m)
        ELSE CASE e.control = "cancel" ->
                    After(Tell(m1, <<>>, <<CloseFile(pk, e.file)>>),
                          UpdateFileStatus(m1, pk, e.file, Status("Failed")))
               [] e.control = "pause"  -> Done(SetTransfer(m, e.file, "Paused"))
               [] e.control = "resume" -> Done(SetTransfer(m, e.file, "Active"))


(* FileChunkSent, FileChunkRead and FileChunkWritten: the progress.  The   *)
(* file is closed when the last chunk has been sent or written.            *)
OnProgress(m, e) ==
    IF e.file \in DOMAIN m.files
    THEN Tell([m EXCEPT !.files[e.file].done = e.pos + e.len], <<>>,
              IF e.ev # "FileChunkRead" /\ e.pos + e.len >= Size
              THEN <<CloseFile(m.files[e.file].pk, e.file)>> ELSE <<>>)
    ELSE Done(m)

(* FileChunkRequest *)
OnFileChunkRequest(m, e) ==
    IF e.n \in DOMAIN m.fnum
    THEN Tell(m, <<>>, <<[do |-> "ReadChunk", pk |-> m.fnum[e.n], file |-> e.file,
                          pos |-> e.pos, len |-> e.len]>>)
    ELSE Done(m)

(* FileStarted *)
OnFileStarted(m, e) ==
    LET m1 == [m EXCEPT !.files = With(@, e.file, Transfer(e.pk, FALSE))]
        u  == AddFileMessage(m1, e.pk, "Me", e.file)
    IN  After(u, Tell(u.m, <<>>, <<OpenFile(e.pk, e.file, "send")>>))

(* FileFinished: a transfer that is not known any more counts as received. *)
OnFileFinished(m, e) ==
    LET received == e.file \notin DOMAIN m.files \/ m.files[e.file].recv IN
    UpdateFileStatus([m EXCEPT !.files = Without(@, e.file)], e.pk, e.file,
                     IF received THEN Status("Received") ELSE Sent(0))

OnFileError(m, e) ==
    UpdateFileStatus([m EXCEPT !.files = Without(@, e.file)], e.pk, e.file,
                     Status("Failed"))

(* A log line of severity error goes to the conversation it is about. *)
OnLog(m, e) == AddIncoming(m, e.win, "sys", "System")

-----------------------------------------------------------------------------
(* update, handle_tox_event, handle_io_event, handle_system_event *)

HandleToxEvent(m, e) ==
    CASE e.ev = "Message"           -> OnMessage(m, e)
      [] e.ev = "MessageSent"       -> OnMessageSent(m, e)
      [] e.ev = "MessageSendFailed" -> OnMessageSendFailed(m, e)
      [] e.ev = "ReadReceipt"       -> OnReadReceipt(m, e)
      [] e.ev = "ConnectionStatus"  -> OnConnectionStatus(m, e)
      [] e.ev = "FriendStatus"      -> OnFriendStatus(m, e)
      [] e.ev = "Pending"           -> OnPending(m, e)
      [] e.ev = "Created"           -> OnCreated(m, e)
      [] e.ev = "Topic"             -> OnTopic(m, e)
      [] e.ev = "GroupSelfJoin"     -> OnSelfJoin(m, e)
      [] e.ev = "GroupPeerJoin"     -> OnGroupPeerJoin(m, e)
      [] e.ev = "GroupPeerLeave"    -> OnGroupPeerLeave(m, e)
      [] e.ev = "GroupPeerName"     -> OnGroupPeerName(m, e)
      [] e.ev = "GroupPeerStatus"   -> OnGroupPeerStatus(m, e)
      [] e.ev \in {"ConfPeerJoin", "ConfPeerLeave", "ConfPeerName"} -> OnConfPeer(m, e)
      [] e.ev = "FileRecv"          -> OnFileRecv(m, e)
      [] e.ev = "FileRecvControl"   -> OnFileRecvControl(m, e)
      [] e.ev = "FileChunkSent"     -> IF e.n \in DOMAIN m.fnum THEN OnProgress(m, e)
                                       ELSE Done(m)
      [] e.ev = "FileChunkRequest"  -> OnFileChunkRequest(m, e)

HandleIoEvent(m, e) ==
    CASE e.ev \in {"FileChunkRead", "FileChunkWritten"} -> OnProgress(m, e)
      [] e.ev = "FileStarted"  -> OnFileStarted(m, e)
      [] e.ev = "FileFinished" -> OnFileFinished(m, e)
      [] e.ev = "FileError"    -> OnFileError(m, e)

IoEvents == {"FileChunkRead", "FileChunkWritten", "FileStarted", "FileFinished",
             "FileError"}

Update(m, e) ==
    IF e.ev = "Log" THEN OnLog(m, e)
    ELSE IF e.ev \in IoEvents THEN HandleIoEvent(m, e)
    ELSE HandleToxEvent(m, e)

(* (Mutant: the texts that are being sent are sent again as well.)         *)
ResendUnsent(m) ==
    LET Again(u, w) ==
          FoldLeft(LAMBDA v, msg :
                     LET v1 == After(v, MarkMessageStatus(v.m, w, msg.id, Status("Sending")))
                     IN  After(v1, Tell(v1.m, <<SendAction(w, msg.id, msg.at)>>, <<>>)),
                   u,
                   SelectSeq(m.convs[w].msgs, LAMBDA x :
                     x.kind = "text" /\ x.status.s \in {"Pending", "Sending"}))
    IN  FoldSet(LAMBDA w, u : Again(u, w), Done(m), DOMAIN m.convs)

(* Tick, every 25th time: the texts that wait are sent again.  Which       *)
(* message is marked is found by its id, what is sent is its text.         *)
ResendPending(m) ==
    LET Again(u, w) ==
          FoldLeft(LAMBDA v, msg :
                     LET v1 == After(v, MarkMessageStatus(v.m, w, msg.id, Status("Sending")))
                     IN  After(v1, Tell(v1.m, <<SendAction(w, msg.id, msg.at)>>, <<>>)),
                   u,
                   SelectSeq(m.convs[w].msgs, LAMBDA x :
                     x.kind = "text" /\ x.status.s = "Pending"))
    IN  FoldSet(LAMBDA w, u : Again(u, w), Done(m), DOMAIN m.convs)

(* Tick: when nothing was typed for three seconds, the friend whose window *)
(* is shown is told.                                                       *)
SetTyping(pk, on) == [do |-> "SetTyping", pk |-> pk, on |-> on]

StopTyping(m) ==
    Tell([m EXCEPT !.typing = FALSE],
         IF ActiveWindow(m) \in Friends THEN <<SetTyping(ActiveWindow(m), FALSE)>>
         ELSE <<>>,
         <<>>)

(* update_typing_status *)
UpdateTypingStatus(m) ==
    IF ActiveWindow(m) \in DOMAIN m.friends /\ ~m.typing
    THEN Tell([m EXCEPT !.typing = TRUE], <<SetTyping(ActiveWindow(m), TRUE)>>, <<>>)
    ELSE Done(m)
=============================================================================
