------------------------------- MODULE MCKeys -------------------------------
(***************************************************************************)
(* A founder (1) and two other devices.  Each scene is a short history of  *)
(* requests; deliveries, acknowledgements, polls, ticks and restarts come  *)
(* in every order between them.                                            *)
(***************************************************************************)
EXTENDS Keys

Ask(op, p, seen) == <<op, p, seen>>
Of(a, b, c) == (1 :> a) @@ (2 :> b) @@ (3 :> c)
Scene(start, asks, t, r) == [start |-> start, plan |-> asks, ticks |-> t, restarts |-> r]

SayAt(d, seen) == Ask("say", d, seen)
Rotated(rest) == <<Ask("rotate", 1, 0)>> \o rest

MCScenes == {
    \* two devices talk
    Scene({1, 2}, Of(Rotated(<<SayAt(1, 0)>>), <<SayAt(2, 0), SayAt(2, 0)>>, <<>>), 0, 0),
    \* an epoch is used up
    Scene({1, 2}, Of(Rotated(<<SayAt(1, 0), SayAt(1, 0), SayAt(1, 0), SayAt(1, 0)>>), <<>>, <<>>), 0, 0),
    \* a device joins
    Scene({1}, Of(Rotated(<<Ask("authorize", 3, 0), Ask("rotate", 1, 0), SayAt(1, 0)>>),
                  <<>>, <<SayAt(3, 0)>>), 0, 0),
    \* a device is revoked, while it speaks or while another does
    Scene({1, 3}, Of(Rotated(<<SayAt(1, 0), Ask("revoke", 3, 0), SayAt(1, 0)>>),
                     <<>>, <<SayAt(3, 0)>>), 0, 0),
    Scene({1, 2, 3}, Of(Rotated(<<Ask("revoke", 3, 4)>>),
                        <<SayAt(2, 2), SayAt(2, 7)>>, <<>>), 0, 0),
    \* another device began an epoch with it before it heard of that
    Scene({1, 2, 3}, Of(<<Ask("revoke", 3, 2)>>,
                        <<Ask("rotate", 2, 0), SayAt(2, 3)>>, <<>>), 0, 0),
    \* a device joins in the middle of a chain
    Scene({1, 2}, Of(<<Ask("authorize", 3, 0), Ask("rotate", 1, 0)>>,
                     <<SayAt(2, 0), SayAt(2, 5)>>, <<>>), 0, 0),
    \* key exchanges, before and after there is a key
    Scene({1, 2}, Of(<<Ask("exchange", 2, 0), SayAt(1, 0)>>, <<SayAt(2, 0)>>, <<>>), 0, 0),
    Scene({1, 2}, Of(Rotated(<<Ask("exchange", 2, 4), SayAt(1, 0)>>),
                     <<SayAt(2, 0)>>, <<>>), 0, 0),
    \* control nodes and a history export
    Scene({1, 2}, Of(Rotated(<<Ask("pulse", 1, 0), Ask("announce", 1, 0), Ask("export", 1, 0)>>),
                     <<SayAt(2, 0)>>, <<>>), 0, 0),
    \* both sides rotate in time, and announce when the pre-keys run out
    Scene({1, 2}, Of(Rotated(<<>>), <<SayAt(2, 0)>>, <<>>), 1, 0),
    Scene({1, 2}, Of(<<>>, <<>>, <<>>), 2, 0),
    \* a rekey within an epoch another device began
    Scene({1, 2}, Of(Rotated(<<Ask("rotate", 1, 4)>>),
                     <<SayAt(2, 0), SayAt(2, 0), SayAt(2, 8), SayAt(2, 9)>>, <<>>), 0, 0),
    \* an engine restarts
    Scene({1, 2}, Of(Rotated(<<SayAt(1, 0)>>), <<SayAt(2, 0)>>, <<>>), 0, 1)
    }
=============================================================================
