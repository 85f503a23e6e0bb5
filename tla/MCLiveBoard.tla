----------------------------- MODULE MCLiveBoard -----------------------------
(* One move within the board and one to complete, and two failures, which  *)
(* is enough for a stream that breaks, connects again and is cleaned up.   *)
EXTENDS LiveBoard

CONSTANTS moved, completed

MCEvents    == {moved, completed}
MCCompleted == {completed}
=============================================================================
