------------------------------ MODULE MCSession ------------------------------
(* One session, small instances for TLC. *)
EXTENDS Session

CONSTANTS c1, c2, stray

\* Replies to the calls, and one with the id of a call this session never made.
MCReplies == [id : {c1, c2, stray}]
==============================================================================
