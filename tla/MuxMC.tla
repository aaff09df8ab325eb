------------------------------- MODULE MuxMC -------------------------------
(***************************************************************************)
(* Instances of Mux for TLC: two tasks; two requests whose answers differ  *)
(* (so that a mixed-up answer shows), one of them fatal to the handler; a  *)
(* send, and a send too large for a frame.                                 *)
(***************************************************************************)
EXTENDS Mux, TLC

CONSTANTS t1, t2, hello, read, fatal, write, huge, noCall

MCTasks    == {t1, t2}
MCRequests == {hello, read, fatal}
MCSends    == {write, huge}
SmallRequests == {hello, fatal}
SmallSends    == {write}
OneRequest == {hello}
None       == {}
MCFatal    == {fatal}
MCHuge     == {huge}
MCSkewed   == {read, write}
HelloSkewed == {hello}

(* Tasks are interchangeable; used where no liveness is checked.           *)
TaskSymmetry == Permutations(MCTasks)
=============================================================================
