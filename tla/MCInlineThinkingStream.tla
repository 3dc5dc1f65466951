------------------------ MODULE MCInlineThinkingStream -------------------------
(* A small instance of InlineThinkingStream for TLC.  Its tags, <> and     *)
(* </>, begin and end alike and differ in between, as the real ones do.    *)
EXTENDS InlineThinkingStream

MCChar == {"<", "/", ">", "a", " "}
MCOpenTag == <<"<", ">">>
MCCloseTag == <<"<", "/", ">">>
MCBlank == {" "}
MCDelta == UNION {[1..n -> MCChar] : n \in 1..2}
             \cup {MCCloseTag, <<"<", ">", "a", "<", "/", ">", " ">>}
================================================================================
