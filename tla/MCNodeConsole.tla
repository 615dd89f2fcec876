--------------------------- MODULE MCNodeConsole ---------------------------
(* Two routers: r1 asks for a console login.                               *)
EXTENDS NodeConsole, TLC
CONSTANTS r1, r2
MCNodes == {r1, r2}
MCGated == {r1}
MCSynchronous == {r2}
=============================================================================
