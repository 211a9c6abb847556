---------------------------- MODULE MCChatStream ----------------------------
(***************************************************************************)
(* Instances of ChatStream for TLC.                                        *)
(***************************************************************************)
EXTENDS ChatStreamProperties

CONSTANTS i1, i2, away

(* The runs and the readers are served by i1, the reader away by i2.       *)
HomeIsI1 == [x \in Runs \cup Subs |-> IF x = away THEN i2 ELSE i1]

(* Readers of one instance are interchangeable.                            *)
Symm == Permutations(Subs \ {away})
=============================================================================
