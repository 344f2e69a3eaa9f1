------------------------------- MODULE MCPlic -------------------------------
(* Plic with at most two harts, and four guests.                           *)
EXTENDS Plic, TLC

CONSTANTS h1, h2

(* One hart masks an interrupt by its priority, its enable bit and the     *)
(* threshold, and completes it claimed or not.                             *)
Masking(h) == [harts |-> {h}, routes |-> {<<0, 1>>},
               thresholds |-> TRUE, masks |-> TRUE, strays |-> TRUE]

(* One hart handles two interrupts.                                        *)
Handling(h) == [harts |-> {h}, routes |-> {<<0, 1>>, <<0, 2>>},
                thresholds |-> FALSE, masks |-> TRUE, strays |-> FALSE]

(* Two harts access one context at once, and complete what they like.      *)
Racing == [harts |-> {h1, h2}, routes |-> {<<0, 1>>},
           thresholds |-> FALSE, masks |-> TRUE, strays |-> TRUE]

(* Two harts compete for an interrupt that two contexts share.             *)
Sharing == [harts |-> {h1, h2}, routes |-> {<<0, 1>>, <<1, 1>>},
            thresholds |-> FALSE, masks |-> FALSE, strays |-> FALSE]

AllGuests == {Racing, Sharing} \cup UNION {{Masking(h), Handling(h)} : h \in Harts}

HartSymmetry == Permutations(Harts)
=============================================================================
