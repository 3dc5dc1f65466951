---------------------------- MODULE MCGeminiParser -----------------------------
(* A small instance of GeminiParser for TLC.                                 *)
EXTENDS GeminiParser

CONSTANTS x, y

MCChar == {x, y}
MCMessage == {<<x, y>>, <<x>>, <<y>>}
MCCallId == {"call"}
MCGenerated == <<>>
================================================================================
