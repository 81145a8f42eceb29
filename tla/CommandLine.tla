---------------------------- MODULE CommandLine ----------------------------
(***************************************************************************)
(* How StdoutTransport::Execute starts a debug adapter: the command, a     *)
(* vector of arguments, is joined to one string, which ExecuteProcess cuts *)
(* into the arguments of the new process (DapStringUtils::BuildArgv).      *)
(* A text is a sequence of characters.                                     *)
(***************************************************************************)
EXTENDS Integers, Sequences, SequencesExt

CONSTANTS
    Characters,  \* the characters of arguments
    MaxArgument, \* bound: characters of an argument
    MaxArguments \* bound: arguments of a command

ASSUME BoundsAssumption == MaxArgument \in Nat /\ MaxArguments \in Nat

VARIABLES
    given,                  \* the arguments given to Execute
    str,                    \* what BuildArgv has still to read
    state, prev, curstr, A, \* its local variables (prev is prev_state)
    argv                    \* the arguments of the process, NotStarted before it is started

scannerVars == <<state, prev, curstr, A>>
commandVars == <<given, str, scannerVars, argv>>

NotStarted == <<<<"not started">>>>

----------------------------------------------------------------------------
Space == " "
DoubleQuote == "\""
Backslash == "\\"
Quotes == {DoubleQuote, "'", "backtick"}
Blanks == {Space, "\t"}

\* Bug: an argument with a space is not quoted.
WrapWithQuotesNot(arg) == arg

WrapWithQuotes(arg) ==
    IF Contains(arg, Space) THEN <<DoubleQuote>> \o arg \o <<DoubleQuote>> ELSE arg

\* What Execute adds to the string for an argument, and the string.
Piece(arg) == WrapWithQuotes(arg) \o <<Space>>
CommandString(cmd) == FlattenSeq([i \in DOMAIN cmd |-> Piece(cmd[i])])

----------------------------------------------------------------------------
(* BuildArgv.  Its state inside a quoted part is named by the quote.       *)

\* PUSH_CURTOKEN
Push == IF curstr = <<>> THEN UNCHANGED <<curstr, A>>
        ELSE A' = Append(A, curstr) /\ curstr' = <<>>

\* curstr << ...
Add(text) == curstr' = curstr \o text /\ UNCHANGED A

\* CHANGE_STATE and RESTORE_STATE
Change(new) == prev' = state /\ state' = new
Restore == state' = prev /\ prev' = "NORMAL"
Stay == UNCHANGED <<state, prev>>

\* The three kinds of branches of the switch.
ScanNormal(ch) ==
    /\ state = "NORMAL"
    /\ \/ ch \in Blanks /\ Push /\ Stay
       \/ ch \in Quotes /\ Change(ch) /\ Add(<<ch>>)
       \/ ch \notin Blanks \union Quotes /\ Add(<<ch>>) /\ Stay

ScanEscaped(ch) ==
    /\ state = "ESCAPE"
    /\ Add(IF ch = prev THEN <<ch>> ELSE <<Backslash, ch>>) /\ Restore

ScanQuoted(ch) ==
    /\ state \in Quotes
    /\ \/ ch = Backslash /\ Change("ESCAPE") /\ UNCHANGED <<curstr, A>>
       \/ ch = state /\ Add(<<ch>>) /\ Restore
       \/ ch \notin {Backslash, state} /\ Add(<<ch>>) /\ Stay

\* The double quotes around an argument are removed.
Strip(s) == IF Len(s) > 1 /\ s[1] = DoubleQuote /\ Last(s) = DoubleQuote
            THEN SubSeq(s, 2, Len(s) - 1) ELSE s

----------------------------------------------------------------------------
Texts(n) == UNION {[1..k -> Characters] : k \in 0..n}
CommandsOfTexts == UNION {[1..k -> Texts(MaxArgument)] : k \in 1..MaxArguments}

CommandInit ==
    /\ given = <<>> /\ str = <<>> /\ argv = NotStarted
    /\ state = "NORMAL" /\ prev = "NORMAL" /\ curstr = <<>> /\ A = <<>>

\* StdoutTransport::Execute, and the start of BuildArgv.
Execute(cmd) ==
    /\ given = <<>>
    /\ given' = cmd
    /\ str' = CommandString(cmd)
    /\ UNCHANGED <<scannerVars, argv>>

\* One turn of the loop of BuildArgv.
ReadCharacter ==
    /\ str # <<>>
    /\ ScanNormal(Head(str)) \/ ScanEscaped(Head(str)) \/ ScanQuoted(Head(str))
    /\ str' = Tail(str)
    /\ UNCHANGED <<given, argv>>

\* The end of BuildArgv, and ExecuteProcess starts the process.
ExecuteProcess ==
    /\ given # <<>> /\ str = <<>> /\ argv = NotStarted
    /\ Push
    /\ argv' = [i \in DOMAIN A' |-> Strip(A'[i])]
    /\ UNCHANGED <<given, str, state, prev>>

CommandNext ==
    \/ \E cmd \in CommandsOfTexts : Execute(cmd)
    \/ ReadCharacter
    \/ ExecuteProcess

CommandSpec == CommandInit /\ [][CommandNext]_commandVars

----------------------------------------------------------------------------
\* An argument that keeps its shape on the way through the string: it is not
\* empty, has no quote and no tab, and if it has a space it does not end in a
\* backslash, which would take the closing quote for its own.
IsPlain(arg) ==
    /\ arg # <<>>
    /\ \A i \in DOMAIN arg : arg[i] \notin Quotes \union {"\t"}
    /\ Contains(arg, Space) => Last(arg) # Backslash

\* The process gets the arguments it was started with, up to the first one that
\* is not plain: quoting in Execute and cutting in BuildArgv undo each other,
\* and what follows an argument cannot change it (WrapWithQuotes, BuildArgv).
ArgvIsCommand ==
    argv # NotStarted => \A k \in 0..Len(given) :
        (\A i \in 1..k : IsPlain(given[i])) =>
            /\ Len(argv) >= k
            /\ SubSeq(argv, 1, k) = SubSeq(given, 1, k)
=============================================================================
