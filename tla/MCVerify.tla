----------------------------- MODULE MCVerify -----------------------------
(***************************************************************************)
(* Five histories of one conversation.  All start with the founder f, who *)
(* authorises d and hands out the key.  In "mutual" two devices of the     *)
(* same rank revoke each other; in "levels" d authorises e and is revoked; *)
(* in "epochs" the conversation key is rotated; in "leaves" identity h,    *)
(* who has the device k, leaves; in "early" the nodes of e may come before *)
(* the node u that authorises e.                                           *)
(***************************************************************************)
EXTENDS Verification

MCDevices == {"f", "d", "e", "h", "k"}

Authored(kind, sender, rank, parents) ==
    [kind |-> kind, sender |-> sender, author |-> "f", rank |-> rank,
     parents |-> parents, epoch |-> 0]

Prefix == ("g" :> Authored("Genesis", "f", 0, {}))
       @@ ("x" :> Authored("AuthorizeDevice", "f", 1, {"g"}))
       @@ ("kw" :> Authored("KeyWrap", "f", 2, {"x"}))
       @@ ("sd" :> Authored("SKD", "d", 3, {"kw"}))

Mutual == ("y" :> Authored("AuthorizeDevice", "f", 1, {"g"}))
       @@ ("se" :> Authored("SKD", "e", 3, {"kw", "y"}))
       @@ ("r1" :> Authored("RevokeDevice", "d", 3, {"kw", "y"}))
       @@ ("r2" :> Authored("RevokeDevice", "e", 3, {"kw", "y"}))
       @@ ("m1" :> Authored("Text", "e", 4, {"se"}))
       @@ ("m2" :> Authored("Text", "e", 5, {"m1", "r1"}))
       @@ ("n2" :> Authored("Text", "d", 4, {"sd", "r2"}))

Levels == ("z" :> Authored("AuthorizeDevice", "d", 3, {"kw"}))
       @@ ("sz" :> Authored("SKD", "e", 4, {"z", "sd"}))
       @@ ("t1" :> Authored("Text", "e", 5, {"sz"}))
       @@ ("ed" :> Authored("Edit", "d", 6, {"t1"}))
       @@ ("r3" :> Authored("RevokeDevice", "f", 4, {"z"}))
       @@ ("t2" :> Authored("Reaction", "e", 6, {"t1", "r3"}))

Epochs == ("k1" :> [Authored("KeyWrap", "f", 3, {"kw"}) EXCEPT !.epoch = 1])
       @@ ("s1" :> [Authored("SKD", "d", 4, {"k1", "sd"}) EXCEPT !.epoch = 1])
       @@ ("t3" :> [Authored("Text", "d", 5, {"s1"}) EXCEPT !.epoch = 1])
       @@ ("as" :> [Authored("AnchorSnapshot", "d", 4, {"k1"}) EXCEPT !.epoch = 1])
       @@ ("sa" :> [Authored("SoftAnchor", "d", 5, {"as"}) EXCEPT !.epoch = 1])

Leaves == ("iv" :> Authored("Invite", "f", 4, {"sd"}))
       @@ ("w" :> [Authored("AuthorizeDevice", "h", 3, {"kw"}) EXCEPT !.author = "h"])
       @@ ("sk" :> [Authored("SKD", "k", 5, {"w", "iv"}) EXCEPT !.author = "h"])
       @@ ("lv" :> Authored("Leave", "f", 5, {"w", "iv"}))
       @@ ("t4" :> [Authored("Text", "k", 6, {"sk", "lv"}) EXCEPT !.author = "h"])

Early == ("u" :> Authored("AuthorizeDevice", "f", 3, {"kw"}))
      @@ ("ss" :> Authored("Snapshot", "f", 4, {"u"}))
      @@ ("su" :> Authored("SKD", "e", 5, {"ss"}))
      @@ ("t5" :> Authored("Text", "e", 6, {"su"}))
      @@ ("t6" :> Authored("Text", "e", 7, {"t5"}))

Dag == Prefix @@ Mutual @@ Levels @@ Epochs @@ Leaves @@ Early

NodesOf == DOMAIN Dag
UpOrder == <<"g", "x", "y", "kw", "sd", "se", "z", "k1", "iv", "r1", "r2", "sz", "r3",
             "s1", "as", "w", "sk", "lv", "m1", "n2", "m2", "t1", "t3", "sa", "ed",
             "t2", "t4", "u", "ss", "su", "t5", "t6">>

(* What the constants stand for.  A definition a constant is replaced by   *)
(* is evaluated at every use, one it refers to only once.                  *)
SceneSets == {DOMAIN (Prefix @@ Mutual), DOMAIN (Prefix @@ Levels),
              DOMAIN (Prefix @@ Epochs), DOMAIN (Prefix @@ Leaves),
              DOMAIN (Prefix @@ Early)}
Kinds == [n \in NodesOf |-> Dag[n].kind]
Senders == [n \in NodesOf |-> Dag[n].sender]
Authors == [n \in NodesOf |-> Dag[n].author]
ParentSets == [n \in NodesOf |-> Dag[n].parents]
Ranks == [n \in NodesOf |-> Dag[n].rank]
EpochsOf == [n \in NodesOf |-> Dag[n].epoch]
SeqNos == [n \in NodesOf |->
             LET at == SelectInSeq(UpOrder, LAMBDA m : m = n)
             IN  Len(SelectSeq(SubSeq(UpOrder, 1, at), LAMBDA m : Senders[m] = Senders[n]))]
Targets == [n \in NodesOf |->
              CASE n = "r1" -> "e" [] n = "r2" -> "d" [] n = "r3" -> "d"
                [] n \in {"ed", "t2"} -> "t1" [] n = "sa" -> "as"
                [] n \in {"iv", "lv"} -> "h" [] OTHER -> "f"]
Certs == [x |-> [dev |-> "d", issuer |-> "f", perms |-> All],
          y |-> [dev |-> "e", issuer |-> "f", perms |-> All],
          u |-> [dev |-> "e", issuer |-> "f", perms |-> All],
          z |-> [dev |-> "e", issuer |-> "d", perms |-> {"message"}],
          w |-> [dev |-> "k", issuer |-> "h", perms |-> All]]
KeyNodes == {n \in NodesOf : Dag[n].kind \in {"KeyWrap", "SKD"}}

(* Content comes in any order once it can be read, the rest after its      *)
(* parents; but ss may come before u, and with it su.                      *)
Arrivals == [n \in NodesOf |->
               CASE n \in {"m1", "m2"} -> {"se"} [] n \in {"n2", "ed"} -> {"sd"}
                 [] n \in {"t1", "t2"} -> {"sz"} [] n = "t3" -> {"s1"}
                 [] n = "t4" -> {"sk"} [] n = "y" -> {"x"}
                 [] n = "ss" -> {"kw"} [] n \in {"t5", "t6"} -> {"su"}
                 [] n = "kw" -> {"x", "y"} [] n = "se" -> {"sd"}
                 [] OTHER -> Dag[n].parents]
BothWays == {UpOrder, Reverse(UpOrder)}

MCNodes == NodesOf
MCScenes == SceneSets
MCKind == Kinds
MCSender == Senders
MCAuthor == Authors
MCParents == ParentSets
MCRank == Ranks
MCEpoch == EpochsOf
MCSeq == SeqNos
MCTarget == Targets
MCCert == Certs
MCForMe == KeyNodes
MCBefore == Arrivals
MCOrders == BothWays
MCHashNo(i) == (CASE i[1] = "x" -> 1 [] i[1] = "y" -> 2 [] OTHER -> 3)
               + (IF i[2] = "f" THEN 0 ELSE 10)
=============================================================================
