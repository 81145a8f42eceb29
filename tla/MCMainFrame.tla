---------------------------- MODULE MCMainFrame ----------------------------
(* A small instance of MainFrame.                                          *)
EXTENDS MainFrame

\* The calls of the handlers, and three of the buttons: the other steps are like
\* next, setting breakpoints is like evaluate.
FrameCommands == {"launch", "attach", "setFunctionBreakpoints", "configurationDone",
                  "stackTrace", "source", "scopes", "variables", "next", "pause", "evaluate"}

\* Bounds: requests of the second session; requests on their way to the server;
\* messages and posted calls on their way to the main thread.
MaxSeqLater == 1
MaxRequested == 1
MaxPosted == 2

Small ==
    /\ transport > 1 => seq <= MaxSeqLater
    /\ Len(toServer) <= MaxRequested
    /\ Len(toClient) + Len(pending) <= MaxPosted
=============================================================================
