---------------------------- MODULE MCKvTransfer ----------------------------
(* Small instances of KvTransfer.                                          *)
EXTENDS KvTransfer

CONSTANTS r1, r2, b1, b2

\* With and without async scheduling: a cache sent after the prefill, the
\* request being stopped for it, or at a token (or the end, if none comes), the
\* request going on; without it also sent at the end, or stopped at a token.
MCModes ==
  [async : BOOLEAN, stopAfter : {TRUE}, criteria : {"prefill_finished"}] \cup
  [async : BOOLEAN, stopAfter : {FALSE}, criteria : {"special_token"}] \cup
  [async : {FALSE}, stopAfter : {TRUE}, criteria : {"none", "special_token"}]
=============================================================================
