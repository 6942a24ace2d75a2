--------------------------- MODULE MCDesktopShell ---------------------------
(* TLC instances of DesktopShell.                                          *)
EXTENDS DesktopShell

CONSTANTS w1, w2
=============================================================================
