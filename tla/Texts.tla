--------------------------------- MODULE Texts ---------------------------------
(* Texts are sequences over Char, because the code compares them, tests    *)
(* prefixes, cuts suffixes and looks for tags in them.                     *)
EXTENDS Naturals, Sequences, SequencesExt

CONSTANT Char    \* the characters of a text

Text == Seq(Char)
================================================================================
