--------------------------- MODULE MCOutputPipeline ----------------------------
(* A small instance of OutputPipeline for TLC.                             *)
EXTENDS OutputPipeline

CONSTANTS x, y

MCChar == {x, y}
MCChunk == {<<>>, <<x>>, <<y>>, <<x, y>>}
MCCallId == {"call", "tool-1", "tool-2"}
MCGenerated == <<"tool-1", "tool-2">>
================================================================================
