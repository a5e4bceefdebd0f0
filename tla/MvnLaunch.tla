------------------------------ MODULE MvnLaunch ------------------------------
(***************************************************************************)
(* mvn-launch.c and mvn-versions-set.c: assemble a command line in a       *)
(* buffer of fixed size, start it and return its exit code.                *)
(*                                                                         *)
(* A text is a sequence of characters; the fixed ones are a single "java", *)
(* "-classpath" and so on.                                                 *)
(***************************************************************************)
EXTENDS Integers, Sequences, SequencesExt

CONSTANTS
    Environs,       \* environments and arguments the launchers may be called with
    CmdlineCap,     \* sizeof cmdline
    EnvvalCap,      \* room for the value of a variable
    UsernameCap

VARIABLES
    environ,        \* one of Environs
    doing,          \* check, append, create, wait, exit
    calls,          \* calls of append...() still to be made
    cmdline,        \* its first cmdline_len characters
    process,        \* what CreateProcess() was given, or NotStarted
    exitCode        \* of the child, and then of the launcher

mlVars == <<environ, doing, calls, cmdline, process, exitCode>>

Quot == "quot"
Blank == "blank"
NotStarted == <<"not started">>
Crash == 134
HasQuot(text) == \E i \in DOMAIN text : text[i] = Quot
UpToQuot(text) == SelectInSeq(text, LAMBDA c : c = Quot) - 1

-----------------------------------------------------------------------------
(* The append functions return the new line and whether all went well.     *)

Line(line, ok) == [line |-> line, ok |-> ok]

AppendRaw(line, text) ==
    IF CmdlineCap < Len(line) + Len(text) THEN Line(line, FALSE) ELSE Line(line \o text, TRUE)

\* What the loop over the characters has appended when it ends.
Copy(line, text) ==
    IF HasQuot(text) THEN Line(line \o SubSeq(text, 1, UpToQuot(text)), FALSE)
                     ELSE Line(line \o text, TRUE)

\* Mutant: a quote ends the text, and nobody is told.
CopyWithoutError(line, text) ==
    IF CmdlineCap < Len(line) + Len(text) THEN Line(line, FALSE)
    ELSE Line(Copy(line, text).line, TRUE)

AppendQuotEscaped(line, text) ==
    IF CmdlineCap < Len(line) + Len(text) THEN Line(line, FALSE) ELSE Copy(line, text)

\* The blank and the quotes count four, as sizeof counts a NUL too.
AppendArg(line, text) ==
    LET copied == Copy(line \o <<Blank, Quot>>, text)
    IN  IF CmdlineCap < Len(line) + Len(text) + 4 THEN Line(line, FALSE)
        ELSE IF copied.ok THEN Line(copied.line \o <<Quot>>, TRUE) ELSE copied

\* An unset variable and an empty one are the same, <<>>.
AppendFromEnvironIfNotEmpty(line, text) ==
    LET blank == AppendRaw(line, <<Blank>>)
    IN  IF Len(text) >= EnvvalCap - 1 THEN Line(line, FALSE)
        ELSE IF text = <<>> THEN Line(line, TRUE)
        ELSE IF blank.ok THEN AppendRaw(blank.line, text) ELSE blank

\* GetCurrentDirectory() fails, which <<>> stands for; nothing is appended.
GetCurrentDirectory(line, text) == Line(line, text # <<>>)

Appended(call, line) ==
    CASE call.fn = "raw" -> AppendRaw(line, call.text)
      [] call.fn = "quot" -> AppendQuotEscaped(line, call.text)
      [] call.fn = "arg" -> AppendArg(line, call.text)
      [] call.fn = "env" -> AppendFromEnvironIfNotEmpty(line, call.text)
      [] call.fn = "cwd" -> GetCurrentDirectory(line, call.text)

-----------------------------------------------------------------------------
(* main()                                                                  *)

Call(fn, text) == [fn |-> fn, text |-> text]
Raw(s) == Call("raw", <<s>>)
Slashes(dir) == [i \in DOMAIN dir |-> IF dir[i] = "backslash" THEN "slash" ELSE dir[i]]

\* The calls of mvn-launch.c, up to the loop over the arguments.
CallsLaunch(e) ==
    << Raw("java"), Call("env", e.jvmConfig), Call("env", e.mavenOpts), Call("env", e.debugOpts),
       Raw("-classpath"), Raw("C:/Users/"), Call("raw", e.username), Raw("jar"),
       Raw("-Dclassworlds"), Call("raw", e.username), Raw("m2.conf"),
       Raw("-Dmaven.home"), Call("raw", e.username), Raw("maven"),
       Call("cwd", e.workDir), Raw("-DmultiModule"), Call("quot", Slashes(e.workDir)), Raw(Quot),
       Raw("Launcher") >>
    \o [i \in DOMAIN e.args |-> Call("arg", e.args[i])]

\* The calls of mvn-versions-set.c. If MVN_EXE is set it replaces mvn, even if it is
\* empty: mvnExe is <<>> or <<its value>>.
CallsVersionsSet(e) ==
    << Call("raw", IF e.mvnExe = <<>> THEN <<"mvn">> ELSE e.mvnExe[1]), Raw("versions:set"),
       Call("quot", e.args[1]), Raw(Quot) >>

CallsOf(e) == IF e.isLaunch THEN CallsLaunch(e) ELSE CallsVersionsSet(e)

\* mvn-launch.c: LAUNCHR_HELP is set or cannot be read, or a name of the user that is missing or too long.
\* mvn-versions-set.c: exactly one argument, which is not --help.
Refused(e) ==
    IF e.isLaunch THEN e.help \/ e.username = <<>> \/ Len(e.username) >= UsernameCap
    ELSE Len(e.args) # 1 \/ e.args[1] = <<"--help">>

Init ==
    /\ environ \in Environs
    /\ doing = "check"
    /\ calls = <<>>
    /\ cmdline = <<>>
    /\ process = NotStarted
    /\ exitCode = 0

\* The end of main(): an error is not zero. If cmdline_len was not initialised yet,
\* what is logged is undefined.
Fails(undefined) ==
    /\ doing' = "exit"
    /\ exitCode' \in IF undefined THEN {1, Crash} ELSE {1}

Check ==
    /\ doing = "check"
    /\ IF Refused(environ)
       THEN Fails(TRUE) /\ UNCHANGED calls
       ELSE /\ calls' = CallsOf(environ)
            /\ doing' = "append"
            /\ UNCHANGED exitCode
    /\ UNCHANGED <<environ, cmdline, process>>

Append1 ==
    /\ doing = "append"
    /\ calls # <<>>
    /\ LET new == Appended(Head(calls), cmdline)
       IN  /\ cmdline' = new.line
           /\ IF new.ok THEN UNCHANGED <<doing, exitCode>> ELSE Fails(FALSE)
    /\ calls' = Tail(calls)
    /\ UNCHANGED <<environ, process>>

\* The line has no terminating NUL: the process gets what is behind it, too.
Behind == { <<>>, <<"?">> }

CreateProcess ==
    /\ doing = "append"
    /\ calls = <<>>
    /\ \/ /\ \E more \in Behind : process' = cmdline \o more
          /\ doing' = "wait"
          /\ UNCHANGED exitCode
       \/ Fails(FALSE) /\ UNCHANGED process
    /\ UNCHANGED <<environ, calls, cmdline>>

\* Waiting for the child or asking for its code fails, or its code is negative.
WaitForSingleObject ==
    /\ doing = "wait"
    /\ \/ doing' = "exit" /\ exitCode' \in {0, 1}
       \/ Fails(FALSE)
    /\ UNCHANGED <<environ, calls, cmdline, process>>

Ended == doing = "exit" /\ UNCHANGED mlVars

Next == Check \/ Append1 \/ CreateProcess \/ WaitForSingleObject \/ Ended

\* What a call should have added to the line, whatever the size of the buffer.
Asked(call) ==
    CASE call.fn = "cwd" -> <<>>
      [] call.fn = "env" -> IF call.text = <<>> THEN <<>> ELSE <<Blank>> \o call.text
      [] call.fn = "arg" -> <<Blank, Quot>> \o call.text \o <<Quot>>
      [] OTHER -> call.text

\* A process is started only with everything that was asked for, in order and
\* unharmed; the launcher reports success only if one was; and it never writes
\* behind the buffer.
LaunchedAsAsked ==
    /\ process # NotStarted =>
          LET all == CallsOf(environ)
          IN  IsPrefix(FlattenSeq([i \in DOMAIN all |-> Asked(all[i])]), process)
    /\ doing = "exit" /\ exitCode = 0 => process # NotStarted
    /\ Len(cmdline) <= CmdlineCap
=============================================================================
