---------------------------- MODULE MCClaudeParser -----------------------------
(* A small instance of ClaudeParser for TLC.                               *)
EXTENDS ClaudeParser

CONSTANTS x, y

MCChar == {x, y}
MCMessage == {<<x, y>>, <<x>>, <<y>>}
MCCallId == {"call"}
MCGenerated == <<>>
================================================================================
