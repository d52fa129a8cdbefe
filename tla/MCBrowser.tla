----------------------------- MODULE MCBrowser ------------------------------
(* One launch on a profile that a browser of another user may hold, where  *)
(* every lock can be read and no call fails.                               *)
EXTENDS Browser

MCSettings == {[cdpUrl |-> FALSE, executable |-> TRUE, windows |-> FALSE]}
NoNumbers == <<>>
=============================================================================
