------------------------------ MODULE MCSync ------------------------------
EXTENDS Sync

CONSTANTS devA, devB, gen, wrap, skd, text

TheParents == (gen :> {}) @@ (wrap :> {gen}) @@ (skd :> {wrap})
              @@ (text :> {wrap, skd})
TheRank == (gen :> 0) @@ (wrap :> 1) @@ (skd :> 2) @@ (text :> 3)
TheNeeds == [p \in {devA, devB} |->
               (gen :> {}) @@ (wrap :> {}) @@ (skd :> {}) @@ (text :> {wrap, skd})]
TheOpens == [p \in {devA, devB} |-> {wrap, skd}]
TheOwner == [n \in {gen, wrap, skd, text} |-> devA]
Has(B) == (devA :> {gen, wrap, skd}) @@ (devB :> B)
(* The other device joins with no key, the sender's key wrapped for it     *)
(* under a one-time key or not, or has the conversation key.               *)
TheStarts == {[has |-> Has({gen}), one_time |-> {}],
              [has |-> Has({gen}), one_time |-> {skd}],
              [has |-> Has({gen, wrap}), one_time |-> {}]}
(* In a small sketch skd and text share their cells: a difference that     *)
(* holds both does not decode at that tier.                                *)
TheCells == [tier \in {"tiny", "small", "medium", "large"} |->
               (gen :> {1, 2}) @@ (wrap :> {2, 3}) @@ (skd :> {3, 4})
               @@ (text :> IF tier = "small" THEN {3, 4} ELSE {4, 5})]
TheDmax == [tiny |-> 3, small |-> 3, medium |-> 3, large |-> 3]
TheCost == [tiny |-> 1, small |-> 1]
(* The other device asks for the last node only. *)
TheLimits == (devA :> {NoLimit}) @@ (devB :> {[min_rank |-> 0, last_n |-> 1]})

(* Converges holds of a behaviour as soon as a sketch is read under another *)
(* key, so none need be followed any further.                              *)
Together == ~apart

(* A definition a constant is replaced by is evaluated at every use, one it *)
(* refers to only once.                                                    *)
MCParents == TheParents
MCRank == TheRank
MCNeeds == TheNeeds
MCOpens == TheOpens
MCOwner == TheOwner
MCStarts == TheStarts
MCCells == TheCells
MCDmax == TheDmax
MCCost == TheCost
MCLimits == TheLimits
=============================================================================
