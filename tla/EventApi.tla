------------------------------ MODULE EventApi ------------------------------
(***************************************************************************)
(* What the I/O events and the timers of lib/event share: one of two loops *)
(* is built in, and stands behind the same interface.                      *)
(***************************************************************************)

VARIABLE
    api       \* the loop that is built in, eventApiName(): "libev" or "ae"

\* USE_LIBEV and USE_AE.
Apis == {"libev", "ae"}
=============================================================================
