---------------------------- MODULE ToxxiWorker ----------------------------
(***************************************************************************)
(* The Tox worker of toxxi (worker.rs) and the Tox instance it owns.  The  *)
(* instance is a library: what it does is taken from how the worker uses   *)
(* it.  Both are one record x                                              *)
(*   friends, groups, confs   the chats by number; topics: of rooms        *)
(*   on       the friends that are connected; mid: message ids used        *)
(*   unread   what each friend has still to confirm                        *)
(*   sent     the texts accepted, in order                                 *)
(*   gpeers, cpeers   the peers of the rooms; ignore: those left unheard   *)
(*   wgroup, wconf    group_peers and conference_peers, by number          *)
(*   maps     file_id_map and file_number_map                              *)
(*   xfer     the transfers of the instance; took: the chunks it accepted  *)
(*   deferred the deferred_chunks                                          *)
(* An operator returns the record, the messages for the user interface and *)
(* the actions for the I/O worker.                                         *)
(***************************************************************************)
EXTENDS ToxxiCommands

Out(x, rx, io) == [x |-> x, rx |-> rx, io |-> io]
Quiet(x) == Out(x, <<>>, <<>>)
Say(x, e) == Out(x, <<e>>, <<>>)

NewTox(friends, groups, confs) ==
    [friends |-> friends, groups |-> groups, confs |-> confs,
     topics |-> [w \in Groups \cup Confs |-> 0],
     on |-> {}, mid |-> [pk \in Friends |-> 0], unread |-> [pk \in Friends |-> {}],
     sent |-> <<>>,
     gpeers |-> [w \in Groups |-> Empty], cpeers |-> [w \in Confs |-> Empty],
     ignore |-> [w \in Groups |-> {}],
     wgroup |-> Empty, wconf |-> Empty, maps |-> Empty, xfer |-> Empty,
     took |-> [f \in Files |-> 0], deferred |-> <<>>]

(* A new entry gets the lowest number that is free. *)
FreeNumber(f) == CHOOSE n \in 0 .. Cardinality(DOMAIN f) :
                    n \notin DOMAIN f /\ \A k \in 0 .. n - 1 : k \in DOMAIN f

(* A profile that is loaded again numbers its entries without gaps. *)
Renumber(f) ==
    [k \in 0 .. Cardinality(DOMAIN f) - 1 |->
        f[CHOOSE n \in DOMAIN f : Cardinality({j \in DOMAIN f : j < n}) = k]]

(* find_friend and find_conference look at every entry, find_group at the  *)
(* numbers below the number of groups.                                     *)
FindFriend(x, pk) == KeysOf(x.friends, pk)
FindGroup(x, w) == {n \in KeysOf(x.groups, w) : n < Cardinality(DOMAIN x.groups)}
FindConference(x, w) == KeysOf(x.confs, w)

FindRoom(x, w) == IF w \in Groups THEN FindGroup(x, w) ELSE FindConference(x, w)
Kind(w) == IF w \in Friends THEN "friend" ELSE IF w \in Groups THEN "group" ELSE "conf"
One(ns) == CHOOSE n \in ns : TRUE

LogFor(w) == [ev |-> "Log", win |-> w]

-----------------------------------------------------------------------------
(* Actions; ok is the answer of the instance, where it may refuse. *)

SendFailed(w, id) == [ev |-> "MessageSendFailed", win |-> w, id |-> id]

MessageSent(w, n, id, sid) ==
    [ev |-> "MessageSent", kind |-> Kind(w), n |-> n, id |-> id, sid |-> sid]

(* (Mutant: only a refusal of the instance is reported, not that a friend  *)
(* is not connected.)                                                      *)
SendIfConnected(x, a, ok) ==
    LET w   == a.to
        ns  == IF w \in Friends THEN FindFriend(x, w) ELSE FindRoom(x, w)
        x1  == [x EXCEPT !.sent = Append(@, [to |-> w, at |-> a.at])]
    IN  IF ns = {} THEN Say(x, SendFailed("Console", a.id))
        ELSE IF w \in Friends /\ w \notin x.on THEN Quiet(x)
        ELSE IF ok THEN Say(x1, MessageSent(w, One(ns), a.id, 1))
        ELSE Say(x, SendFailed(w, a.id))

(* SendMessage, SendGroupMessage, SendConferenceMessage *)
DoSendMessage(x, a, ok) ==
    LET w   == a.to
        ns  == IF w \in Friends THEN FindFriend(x, w) ELSE FindRoom(x, w)
        sid == IF w \in Friends THEN x.mid[w] + 1 ELSE 0
        x1  == [x EXCEPT !.sent = Append(@, [to |-> w, at |-> a.at])]
        x2  == IF w \in Friends
               THEN [x1 EXCEPT !.mid[w] = sid, !.unread[w] = @ \cup {sid}] ELSE x1
    IN  IF ns = {} THEN Say(x, SendFailed("Console", a.id))
        ELSE IF w \in Friends /\ w \notin x.on THEN Say(x, SendFailed(w, a.id))
        ELSE IF ok THEN Say(x2, MessageSent(w, One(ns), a.id, sid))
        ELSE Out(x, (IF w \in Friends THEN <<LogFor(w)>> ELSE <<>>)
                    \o <<SendFailed(w, a.id)>>, <<>>)

FriendStatus(n, pk, on) == [ev |-> "FriendStatus", n |-> n, pk |-> pk, on |-> on]
Created(n, w) == [ev |-> "Created", kind |-> Kind(w), n |-> n, win |-> w]

(* AddFriend, AcceptFriend *)
DoAddFriend(x, pk) ==
    LET n == FreeNumber(x.friends) IN
    IF FindFriend(x, pk) # {} THEN Quiet(x)
    ELSE Say([x EXCEPT !.friends = With(@, n, pk)], FriendStatus(n, pk, FALSE))

(* DeleteFriend *)
DoDeleteFriend(x, pk) ==
    Quiet([x EXCEPT !.friends = Restrict(@, DOMAIN @ \ FindFriend(x, pk)),
                    !.on = @ \ {pk}, !.unread[pk] = {},
                    !.xfer = Restrict(@, {f \in DOMAIN @ :
                                            @[f].n \notin FindFriend(x, pk)})])

(* CreateGroup, JoinGroup, AcceptGroupInvite, CreateConference,            *)
(* JoinConference: an invite is good as long as its sender is a friend.    *)
DoEnter(x, w, inviters) ==
    LET ours == IF w \in Groups THEN x.groups ELSE x.confs
        n    == FreeNumber(ours)
    IN  IF w \in Range(ours) \/ \E pk \in inviters : FindFriend(x, pk) = {} THEN Quiet(x)
        ELSE Say(IF w \in Groups THEN [x EXCEPT !.groups = With(@, n, w)]
                 ELSE [x EXCEPT !.confs = With(@, n, w)],
                 Created(n, w))

(* LeaveGroup, DeleteConference: the worker's own maps of peers stay. *)
DoLeave(x, w) ==
    Quiet(IF w \in Groups
          THEN [x EXCEPT !.groups = Restrict(@, DOMAIN @ \ FindGroup(x, w)),
                         !.gpeers[w] = Empty, !.ignore[w] = {}]
          ELSE [x EXCEPT !.confs = Restrict(@, DOMAIN @ \ FindConference(x, w)),
                         !.cpeers[w] = Empty])

TopicEvent(w, n, topic) == [ev |-> "Topic", kind |-> Kind(w), n |-> n, topic |-> topic]

(* SetGroupTopic is told to the user interface, SetConferenceTopic is not. *)
DoSetTopic(x, w, topic, ok) ==
    LET ns == FindRoom(x, w) IN
    IF ns = {} THEN Quiet(x)
    ELSE IF ~ok THEN (IF w \in Groups THEN Say(x, LogFor(w)) ELSE Quiet(x))
    ELSE Out([x EXCEPT !.topics[w] = topic],
             IF w \in Groups THEN <<TopicEvent(w, One(ns), topic)>> ELSE <<>>, <<>>)

(* SetGroupNickname: our own number in a group is 0. *)
DoSetNick(x, w, name) ==
    LET ns == FindGroup(x, w) IN
    Say(x, IF ns = {} THEN LogFor(w)
           ELSE [ev |-> "GroupPeerName", n |-> One(ns), p |-> 0, pk |-> "Me",
                 name |-> name])

(* SetGroupPeerIgnore: the peer's number is the one the worker knows. *)
DoIgnore(x, w, pk, on) ==
    LET ns == FindGroup(x, w) IN
    Quiet(IF /\ ns # {}
             /\ One(ns) \in DOMAIN x.wgroup
             /\ pk \in DOMAIN x.wgroup[One(ns)]
             /\ pk \in DOMAIN x.gpeers[w]
          THEN [x EXCEPT !.ignore[w] = IF on THEN @ \cup {pk} ELSE @ \ {pk}]
          ELSE x)

-----------------------------------------------------------------------------
(* Files *)

(* FileSend *)
DoFileSend(x, a, ok) ==
    LET ns == FindFriend(x, a.pk) IN
    IF ns = {} THEN Quiet(x)
    ELSE IF ~ok \/ a.pk \notin x.on THEN Say(x, LogFor(a.pk))
    ELSE Say([x EXCEPT !.maps = With(@, a.file, One(ns)),
                       !.xfer = With(@, a.file,
                           [n |-> One(ns), recv |-> FALSE, held |-> {"them"},
                            asked |-> 0, done |-> 0])],
             [ev |-> "FileStarted", pk |-> a.pk, file |-> a.file])

(* A transfer goes on when neither side holds it. *)
Hold(x, file, side, control) ==
    [x EXCEPT !.xfer[file].held =
        IF control = "resume" THEN @ \ {side} ELSE @ \cup {side}]

(* FileControl *)
DoFileControl(x, a) ==
    LET x1 == IF a.control = "cancel"
              THEN [x EXCEPT !.xfer = Without(@, a.file), !.maps = Without(@, a.file)]
              ELSE IF a.file \in DOMAIN x.xfer
              THEN Hold(x, a.file, "us", a.control) ELSE x
    IN  Quiet(IF a.file \in DOMAIN x.maps THEN x1 ELSE x)

ChunkSent(n, file, pos, len) ==
    [ev |-> "FileChunkSent", n |-> n, file |-> file, pos |-> pos, len |-> len]

(* send_chunk of the instance takes the chunk at the position it has got   *)
(* to, and nothing else.                                                   *)
Takes(x, file, pos) ==
    file \in DOMAIN x.xfer /\ x.xfer[file].done = pos /\ pos < Size

Taken(x, file) ==
    [x EXCEPT !.xfer[file].done = @ + 1, !.took[file] = @ + 1]


(* FileSendChunk: room says whether the send queue has space.  The maps    *)
(* are dropped at the last position, whatever became of the chunk, but not *)
(* when it only joins the chunks that were put off.                        *)
DoFileSendChunk(x, a, room) ==
    LET n    == x.maps[a.file]
        pos  == a.pos
        wait == Append(x.deferred, [n |-> n, file |-> a.file, pos |-> pos])
        last == IF pos + a.len >= Size THEN [x EXCEPT !.maps = Without(@, a.file)] ELSE x
    IN  IF a.file \notin DOMAIN x.maps THEN Quiet(x)
        ELSE IF x.deferred # <<>> THEN Quiet([x EXCEPT !.deferred = wait])
        ELSE IF ~Takes(x, a.file, pos) THEN Say(last, LogFor(a.pk))
        ELSE IF room
        THEN Say(Taken(last, a.file),
                 ChunkSent(n, a.file, pos, a.len))
        ELSE Quiet([last EXCEPT !.deferred = wait])

(* The chunks put off are tried first, in order; the first that finds the  *)
(* queue full stays in front, one that is refused is given up.             *)
SendDeferred(x) ==
    LET c == Head(x.deferred)
        y == [x EXCEPT !.deferred = Tail(@)]
    IN  IF Takes(x, c.file, c.pos)
        THEN Say(Taken(y, c.file),
                 ChunkSent(c.n, c.file, c.pos, 1))
        ELSE Out(y, IF c.n \in DOMAIN x.friends THEN <<LogFor(x.friends[c.n])>> ELSE <<>>,
                 <<>>)

(* What an action of the user interface, or of the I/O worker, comes to.   *)
(* Reload and Shutdown are steps of the whole client; typing notices,      *)
(* invites and names leave nothing behind here.                            *)
DoAction(x, a, ok) ==
    CASE a.do = "SendMessage"        -> DoSendMessage(x, a, ok)
      [] a.do = "AddFriend"          -> DoAddFriend(x, a.pk)
      [] a.do = "DeleteFriend"       -> DoDeleteFriend(x, a.pk)
      [] a.do = "Accept"             -> IF a.kind = "friend" THEN DoAddFriend(x, a.who)
                                        ELSE DoEnter(x, a.win, {a.who})
      [] a.do = "Enter"              -> DoEnter(x, a.win, {})
      [] a.do \in {"LeaveGroup", "DeleteConference"} -> DoLeave(x, a.win)
      [] a.do = "SetTopic"           -> DoSetTopic(x, a.win, a.topic, ok)
      [] a.do = "SetNick"            -> DoSetNick(x, a.win, a.name)
      [] a.do = "SetGroupPeerIgnore" -> DoIgnore(x, a.win, a.p, a.on)
      [] a.do = "FileSend"           -> DoFileSend(x, a, ok)
      [] a.do = "FileControl"        -> DoFileControl(x, a)
      [] a.do = "FileSendChunk"      -> DoFileSendChunk(x, a, ok)
      [] a.do \in {"SetTyping", "Invite"} -> Quiet(x)

-----------------------------------------------------------------------------
(* Events.  v is what happens on the network; the instance takes it in and *)
(* the worker passes it on.                                                *)

(* FriendConnectionStatus: a friend that is gone takes its transfers and   *)
(* its outstanding confirmations along.                                    *)
OnConnection(x, v) ==
    LET pk == x.friends[v.n] IN
    Say(IF v.on THEN [x EXCEPT !.on = @ \cup {pk}]
        ELSE [x EXCEPT !.on = @ \ {pk}, !.unread[pk] = {},
                       !.xfer = Restrict(@, {f \in DOMAIN @ : @[f].n # v.n})],
        FriendStatus(v.n, pk, v.on))

(* FriendReadReceipt: in the order the texts were sent. *)
OnReceipt(x, n) ==
    LET pk == x.friends[n] IN
    Say([x EXCEPT !.unread[pk] = @ \ {Min(@)}],
        [ev |-> "ReadReceipt", n |-> n, sid |-> Min(x.unread[pk])])

PeerEvent(ev, n, p, pk, name) == [ev |-> ev, n |-> n, p |-> p, pk |-> pk, name |-> name]

(* GroupPeerJoin, GroupPeerName, GroupPeerExit *)
OnGroupPeer(x, v) ==
    LET w == x.groups[v.n]
        known == IF v.n \in DOMAIN x.wgroup THEN x.wgroup[v.n] ELSE Empty
        p == IF v.ev = "GroupPeerJoin" THEN v.p ELSE x.gpeers[w][v.pk].p
    IN  IF v.ev = "GroupPeerExit"
        THEN Say([x EXCEPT !.gpeers[w] = Without(@, v.pk), !.ignore[w] = @ \ {v.pk},
                           !.wgroup = With(@, v.n, Restrict(known,
                                        {k \in DOMAIN known : known[k] # p}))],
                 [ev |-> "GroupPeerLeave", n |-> v.n, p |-> p])
        ELSE Say([x EXCEPT !.gpeers[w] = With(@, v.pk, [p |-> p, name |-> v.name]),
                           !.wgroup = With(@, v.n, With(known, v.pk, p))],
                 PeerEvent(v.ev, v.n, p, v.pk, v.name))

(* (Mutant: a peer that is already in the list is not looked at again.)    *)
OnPeerListJoins(x, v) ==
    LET w    == x.confs[v.n]
        old  == IF v.n \in DOMAIN x.wconf THEN x.wconf[v.n] ELSE Empty
        new  == v.peers
        Events(ev, pks, f) == FoldSet(LAMBDA pk, s : Append(s, PeerEvent(ev, v.n, 0, pk, f[pk])),
                                      <<>>, pks)
    IN  Out([x EXCEPT !.cpeers[w] = new, !.wconf = With(@, v.n, new)],
            <<TopicEvent(w, v.n, x.topics[w])>>
            \o Events("ConfPeerJoin", DOMAIN new \ DOMAIN old, new)
            \o Events("ConfPeerLeave", DOMAIN old \ DOMAIN new, old),
            <<>>)

(* ConferencePeerListChanged: the list is compared with the last one, and  *)
(* what changed is told.                                                   *)
OnPeerListChanged(x, v) ==
    LET w    == x.confs[v.n]
        old  == IF v.n \in DOMAIN x.wconf THEN x.wconf[v.n] ELSE Empty
        new  == v.peers
        both == DOMAIN old \cap DOMAIN new
        Events(ev, pks, f) == FoldSet(LAMBDA pk, s : Append(s, PeerEvent(ev, v.n, 0, pk, f[pk])),
                                      <<>>, pks)
    IN  Out([x EXCEPT !.cpeers[w] = new, !.wconf = With(@, v.n, new)],
            <<TopicEvent(w, v.n, x.topics[w])>>
            \o Events("ConfPeerJoin", DOMAIN new \ DOMAIN old, new)
            \o Events("ConfPeerName", {pk \in both : old[pk] # new[pk]}, new)
            \o Events("ConfPeerLeave", DOMAIN old \ DOMAIN new, old),
            <<>>)

(* ConferencePeerName *)
OnConfPeerName(x, v) ==
    LET w == x.confs[v.n]
        x1 == [x EXCEPT !.cpeers[w][v.pk] = v.name]
    IN  Say(IF v.n \in DOMAIN x.wconf /\ v.pk \in DOMAIN x.wconf[v.n]
            THEN [x1 EXCEPT !.wconf[v.n][v.pk] = v.name] ELSE x1,
            PeerEvent("ConfPeerName", v.n, 0, v.pk, v.name))

(* FileRecv *)
OnOffer(x, v) ==
    Say([x EXCEPT !.maps = With(@, v.file, v.n),
                  !.xfer = With(@, v.file, [n |-> v.n, recv |-> TRUE, held |-> {"us"},
                                            asked |-> 0, done |-> 0])],
        [ev |-> "FileRecv", n |-> v.n, file |-> v.file, avatar |-> v.avatar])

(* FileRecvChunk: with the last chunk the transfer is over. *)
OnRecvChunk(x, file) ==
    LET t == x.xfer[file] IN
    Out(IF t.done + 1 >= Size
        THEN [x EXCEPT !.xfer = Without(@, file), !.maps = Without(@, file)]
        ELSE [x EXCEPT !.xfer[file].done = @ + 1],
        <<>>,
        <<[do |-> "WriteChunk", pk |-> x.friends[t.n], file |-> file, pos |-> t.done]>>)

(* FileRecvControl *)
OnControl(x, v) ==
    Say(IF v.control = "cancel"
        THEN [x EXCEPT !.xfer = Without(@, v.file), !.maps = Without(@, v.file)]
        ELSE Hold(x, v.file, "them", v.control),
        [ev |-> "FileRecvControl", n |-> x.xfer[v.file].n, file |-> v.file,
         control |-> v.control])

ChunkRequest(n, file, pos, len) ==
    [ev |-> "FileChunkRequest", n |-> n, file |-> file, pos |-> pos, len |-> len]

(* FileChunkRequest: the chunks in turn, and an empty one when all of them *)
(* have arrived.  By then the instance has forgotten the transfer, so the  *)
(* file is only known if the worker still has it.                          *)
OnChunkRequest(x, file) ==
    LET t == x.xfer[file] IN
    IF t.asked < Size
    THEN Say([x EXCEPT !.xfer[file].asked = @ + 1], ChunkRequest(t.n, file, t.asked, 1))
    ELSE Out([x EXCEPT !.xfer = Without(@, file)],
             IF file \in DOMAIN x.maps THEN <<ChunkRequest(t.n, file, Size, 0)>> ELSE <<>>,
             <<>>)

(* What the instance does of its own accord. *)
Receipts(x) == {n \in DOMAIN x.friends : x.unread[x.friends[n]] # {}}
Arriving(x) == {f \in DOMAIN x.xfer : x.xfer[f].recv /\ x.xfer[f].held = {}}
Wanting(x) == {f \in DOMAIN x.xfer :
                 /\ ~x.xfer[f].recv
                 /\ x.xfer[f].held = {}
                 /\ x.xfer[f].asked < Size \/ x.xfer[f].done = Size}

(* An instance that starts from a profile; what it tells first. *)
StartTox(x, saved) ==
    [NewTox(Renumber(saved.friends), Renumber(saved.groups), Renumber(saved.confs))
        EXCEPT !.topics = x.topics, !.sent = x.sent, !.took = x.took]

StartEvents(x) ==
    FoldSet(LAMBDA n, s : Append(s, TopicEvent(x.confs[n], n, x.topics[x.confs[n]])),
            <<>>, DOMAIN x.confs)
    \o FoldSet(LAMBDA n, s : Append(s, TopicEvent(x.groups[n], n, x.topics[x.groups[n]])),
               <<>>, DOMAIN x.groups)

Profile(x) == [friends |-> x.friends, groups |-> x.groups, confs |-> x.confs]

(* The worker's side of what happens on the network. *)
Passed(x, v) ==
    CASE v.ev = "SelfConnection"  -> Say(x, [ev |-> "ConnectionStatus", on |-> v.on])
      [] v.ev = "Connection"      -> OnConnection(x, v)
      [] v.ev = "Message"         -> Say(x, v)
      [] v.ev = "Pending"         -> Say(x, v)
      [] v.ev \in {"GroupPeerJoin", "GroupPeerName", "GroupPeerExit"} -> OnGroupPeer(x, v)
      [] v.ev = "GroupPeerStatus" -> Say(x, [ev |-> v.ev, n |-> v.n,
                                             p |-> x.gpeers[x.groups[v.n]][v.pk].p])
      [] v.ev = "GroupSelfJoin"   -> Out(x, <<[ev |-> v.ev, n |-> v.n],
                                              TopicEvent(x.groups[v.n], v.n,
                                                         x.topics[x.groups[v.n]])>>, <<>>)
      [] v.ev = "PeerList"        -> OnPeerListChanged(x, v)
      [] v.ev = "ConfPeerName"    -> OnConfPeerName(x, v)
      [] v.ev = "Offer"           -> OnOffer(x, v)
      [] v.ev = "Control"         -> OnControl(x, v)

(* When v can happen. *)
CanHappen(x, v) ==
    CASE v.ev = "SelfConnection" -> TRUE
      [] v.ev = "Connection" -> v.n \in DOMAIN x.friends
                                /\ (x.friends[v.n] \in x.on) # v.on
      [] v.ev \in {"Message", "Pending"} ->
            \/ v.kind = "friend" /\ v.ev = "Pending" /\ FindFriend(x, v.room) = {}
            \/ /\ (v.kind = "friend") = (v.ev = "Message")
               /\ v.n \in DOMAIN x.friends
               /\ x.friends[v.n] \in x.on
               /\ v.ev = "Message" => v.by = x.friends[v.n]
            \/ /\ v.kind = "group" /\ v.ev = "Message"
               /\ v.n \in DOMAIN x.groups
               /\ v.by \in DOMAIN x.gpeers[x.groups[v.n]] \ x.ignore[x.groups[v.n]]
            \/ /\ v.kind = "conf" /\ v.ev = "Message"
               /\ v.n \in DOMAIN x.confs
               /\ v.by \in DOMAIN x.cpeers[x.confs[v.n]]
      [] v.ev = "GroupPeerJoin" -> v.n \in DOMAIN x.groups /\ x.groups[v.n] = v.room
                                   /\ v.pk \notin DOMAIN x.gpeers[x.groups[v.n]]
      [] v.ev \in {"GroupPeerName", "GroupPeerExit", "GroupPeerStatus"} ->
            v.n \in DOMAIN x.groups /\ v.pk \in DOMAIN x.gpeers[x.groups[v.n]]
      [] v.ev = "GroupSelfJoin" -> v.n \in DOMAIN x.groups
      [] v.ev = "PeerList" -> v.n \in DOMAIN x.confs
      [] v.ev = "ConfPeerName" -> v.n \in DOMAIN x.confs
                                  /\ v.pk \in DOMAIN x.cpeers[x.confs[v.n]]
      [] v.ev = "Offer" -> v.n \in DOMAIN x.friends /\ x.friends[v.n] \in x.on
                           /\ v.file \notin DOMAIN x.xfer
      [] v.ev = "Control" -> v.file \in DOMAIN x.xfer
=============================================================================
