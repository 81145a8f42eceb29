----------------------------- MODULE MCAdapter -----------------------------
(* A debug adapter as a child process: the command that starts it, the way  *)
(* of its output to the client and the conversion of the messages.  The     *)
(* three share no state: a behaviour is about one of them.                  *)
EXTENDS StdoutTransport, CommandLine, Messages

VARIABLE part   \* what the behaviour is about

\* A letter, what separates arguments, what quotes them and what escapes a quote.
ShellCharacters == {"a", " ", "\"", "\\"}

adapterVars == <<vars, commandVars, messageVars, part>>

AdapterInit ==
    /\ Init /\ CommandInit /\ MessagesInit
    /\ part \in {"command", "output", "messages"}

\* The process has its arguments.
Started == argv # NotStarted /\ UNCHANGED commandVars

AdapterNext ==
    /\ UNCHANGED part
    /\ \/ /\ part = "command" /\ (CommandNext \/ Started)
          /\ UNCHANGED <<vars, messageVars>>
       \/ /\ part = "output" /\ Next
          /\ UNCHANGED <<commandVars, messageVars>>
       \/ /\ part = "messages" /\ MessagesNext
          /\ UNCHANGED <<vars, commandVars>>

\* The threads are fair, as in StdoutTransport.
AdapterSpec ==
    /\ AdapterInit /\ [][AdapterNext]_adapterVars
    /\ WF_vars(PumpStep) /\ WF_vars(WatchLeaves \/ WatchSets) /\ WF_vars(ReaderStep)
    /\ WF_vars(SendWrite) /\ WF_vars(ResetStep)
=============================================================================
