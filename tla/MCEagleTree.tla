---------------------------- MODULE MCEagleTree ----------------------------
(***************************************************************************)
(* A beam of two, expanded three times, with head outputs that make        *)
(* distant candidates tie: a certain token (0) over a loser, a close call. *)
(***************************************************************************)
EXTENDS EagleTree

MCVocab == 0..1
MCTotals == {3, 5, 6}
MCHeadRows == {<<0, -2>>, <<-1, -2>>}
=============================================================================
