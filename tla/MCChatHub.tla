------------------------------ MODULE MCChatHub ------------------------------
(***************************************************************************)
(* Instances of ChatHub for TLC.                                            *)
(***************************************************************************)
EXTENDS ChatHub, TLC

CONSTANTS c1, c2, r1

MCOneRoom == [c \in Clients |-> r1]

\* One talker with up to three messages, or two talkers with one each.
MCShortTalks == {talk \in [Clients -> 0..3] : talk[c1] * talk[c2] = 0 \/ talk[c1] + talk[c2] = 2}

\* One message, sent by c1.
MCOneTalker == {talk \in [Clients -> 0..1] : \A c \in Clients \ {c1} : talk[c] = 0}

\* Clients that share a room can be swapped.
Symmetry == Permutations(Clients)
=============================================================================
