------------------------- MODULE MCBrowserPlayback -------------------------
(* Small instances of BrowserPlayback for TLC. *)
EXTENDS BrowserPlayback
=============================================================================
