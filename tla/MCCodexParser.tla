----------------------------- MODULE MCCodexParser -----------------------------
(* A small instance of CodexParser for TLC.                                 *)
EXTENDS CodexParser

CONSTANTS x, y

MCChar == {x, y}
MCMessage == {<<x, y>>, <<x>>, <<y>>}
MCCallId == {"call"}
MCGenerated == <<>>
================================================================================
