--------------------------- MODULE JenkinsReBuild ---------------------------
(***************************************************************************)
(* JenkinsReBuild.c: one HTTPS request for the state of a build, whose     *)
(* response arrives in pieces.                                             *)
(*                                                                         *)
(* A body is a sequence of pieces of text: Running and Failure are what    *)
(* strstr() looks for, and either may be cut in two by the end of a chunk. *)
(* The names in the request are short enough for the buffer of the URL.    *)
(***************************************************************************)
EXTENDS Integers, Sequences, FiniteSetsExt

CONSTANTS
    Piece,          \* pieces of text
    Responses       \* status and body of what the server may answer

VARIABLES
    doing,          \* main, run, hdr, body (what is awaited), over, exit, abort
    response,
    arrived,        \* pieces of the body passed to onRspBody() so far
    httpRspCode,    \* 0 before the header
    rspBody,        \* the first rspBody_end pieces in the buffer
    rspBody_cap,    \* 0 while rspBody is NULL
    buildStatus,    \* the line printed
    exitCode

jbVars == <<doing, response, arrived, httpRspCode, rspBody, rspBody_cap, buildStatus, exitCode>>

Running == <<"state", "running">>
Failure == <<"state", "failure">>
Contains(text, s) ==
    \E i \in 1..(Len(text) + 1 - Len(s)) : SubSeq(text, i, i + Len(s) - 1) = s

\* Arguments: options, and whether a value follows.
Refused(a) == \/ a.opt \notin {"--help", "--service", "--branch", "--cookie"}
              \/ a.opt # "--help" /\ ~a.hasValue

ParseArgs(argv) ==
    LET stops == {i \in DOMAIN argv : argv[i].opt = "--help" \/ Refused(argv[i])}
        given == {argv[i].opt : i \in DOMAIN argv}
    IN  IF stops # {} THEN IF Refused(argv[Min(stops)]) THEN "EINVAL" ELSE "help"
        ELSE IF {"--service", "--branch"} \subseteq given THEN "run" ELSE "EINVAL"

Opt(o) == [opt |-> o, hasValue |-> o # "--help"]
Argvs ==
    { <<Opt("--service"), Opt("--branch")>>, <<Opt("--cookie"), Opt("--branch"), Opt("--service")>>,
      <<Opt("--service")>>, <<Opt("--help")>>, <<Opt("--service"), Opt("--bad")>>,
      <<Opt("--service"), [opt |-> "--branch", hasValue |-> FALSE]>> }

\* exitCode is -1 until the arguments are accepted; help keeps it.
Init ==
    /\ \E argv \in Argvs :
          LET ok == ParseArgs(argv) = "run"
          IN  doing = (IF ok THEN "run" ELSE "exit") /\ exitCode = IF ok THEN 0 ELSE -1
    /\ response \in Responses
    /\ arrived = <<>>
    /\ httpRspCode = 0
    /\ rspBody = <<>>
    /\ rspBody_cap = 0
    /\ buildStatus = "none"

\* initApp() creates the environment, run() the TLS client and the request.
Run ==
    /\ doing = "run"
    /\ doing' = "hdr"
    /\ UNCHANGED <<response, arrived, httpRspCode, rspBody, rspBody_cap, buildStatus, exitCode>>

OnRspHdr ==
    /\ doing = "hdr"
    /\ httpRspCode' = response.code
    /\ doing' = "body"
    /\ UNCHANGED <<response, arrived, rspBody, rspBody_cap, buildStatus, exitCode>>

\* Mutant: every chunk is copied to the begin of the buffer.
CopiedToBegin(chunk) == chunk

\* memcpy() behind what is there, and rspBody_end moves on.
Copied(chunk) == rspBody \o chunk

\* A chunk is any non-empty part of what is left. The buffer grows by the length of
\* the chunk if that does not fit.
OnRspBody ==
    /\ doing = "body"
    /\ \E n \in (Len(arrived) + 1)..Len(response.body) :
          LET chunk == SubSeq(response.body, Len(arrived) + 1, n)
          IN  /\ arrived' = arrived \o chunk
              /\ IF httpRspCode \notin {200, 404}
                 THEN UNCHANGED <<rspBody, rspBody_cap>>
                 ELSE /\ rspBody_cap' = IF rspBody_cap - Len(rspBody) < Len(chunk)
                                        THEN rspBody_cap + Len(chunk) ELSE rspBody_cap
                      /\ rspBody' = Copied(chunk)
    /\ UNCHANGED <<doing, response, httpRspCode, buildStatus, exitCode>>

\* The buffer has no terminating NUL: strstr() reads on into whatever is behind it,
\* which may be nothing, complete a word, be a word, or not be readable at all.
Behind == { <<>>, <<"running">>, <<"failure">>, Running, Failure }

StatusOf(text) ==
    IF Contains(text, Running) THEN "running"
    ELSE IF Contains(text, Failure) THEN "failure" ELSE "OK"

OnRspDone ==
    /\ doing = "body"
    /\ arrived = response.body
    /\ \/ /\ httpRspCode # 200
          /\ buildStatus' = IF httpRspCode = 404 THEN "ENOENT" ELSE "ERROR"
          /\ doing' = "over"
       \/ /\ httpRspCode = 200 /\ rspBody_cap > 0
          /\ \E more \in Behind : buildStatus' = StatusOf(rspBody \o more)
          /\ doing' = "over"
       \/ httpRspCode = 200 /\ doing' = "abort" /\ UNCHANGED buildStatus
    /\ UNCHANGED <<response, arrived, httpRspCode, rspBody, rspBody_cap, exitCode>>

\* An error of the request is only logged; one of the TLS client is an assertion.
OnError ==
    /\ doing \in {"hdr", "body"}
    /\ doing' \in {"over", "abort"}
    /\ UNCHANGED <<response, arrived, httpRspCode, rspBody, rspBody_cap, buildStatus, exitCode>>

\* Nothing is left for runUntilDone(), so main() returns.
Return ==
    /\ doing = "over"
    /\ doing' = "exit"
    /\ UNCHANGED <<response, arrived, httpRspCode, rspBody, rspBody_cap, buildStatus, exitCode>>

Ended == doing \in {"exit", "abort"} /\ UNCHANGED jbVars

Next == Run \/ OnRspHdr \/ OnRspBody \/ OnRspDone \/ OnError \/ Return \/ Ended

\* Whatever the chunks and whatever is behind the buffer, a build is called OK only
\* if the whole response has been read and says neither "running" nor "failure", and
\* failed only if it does not say "running".
FinishedBuildOnly ==
    buildStatus \in {"OK", "failure"} =>
        /\ response.code = 200
        /\ ~Contains(response.body, Running)
        /\ buildStatus = "OK" => ~Contains(response.body, Failure)

-----------------------------------------------------------------------------
(* The inductive invariant.                                                *)

\* What every variable may hold.
TypeOK ==
    /\ doing \in {"run", "hdr", "body", "over", "exit", "abort"}
    /\ response \in Responses
    /\ arrived \in Seq(Piece) /\ rspBody \in Seq(Piece)
    /\ httpRspCode \in Nat /\ rspBody_cap \in Nat
    /\ buildStatus \in {"none", "OK", "running", "failure", "ENOENT", "ERROR"}
    /\ exitCode \in {0, -1}

\* The buffer of a response that will be searched holds all that has arrived, and
\* never more than it has room for.
BodyInv ==
    /\ TypeOK
    /\ doing \in {"run", "hdr"} => rspBody = <<>> /\ arrived = <<>>
    /\ doing \in {"run", "hdr", "body"} => buildStatus = "none"
    /\ doing = "body" =>
          httpRspCode = response.code /\ (httpRspCode = 200 => rspBody = arrived)
    /\ Len(rspBody) <= rspBody_cap
    /\ FinishedBuildOnly
=============================================================================
