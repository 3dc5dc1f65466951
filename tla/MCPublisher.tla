----------------------------- MODULE MCPublisher -------------------------------
(* A small instance of Publisher for TLC.                                  *)
EXTENDS Publisher

CONSTANTS main, g1, g2

MCGoroutine == {main, g1, g2}
================================================================================
