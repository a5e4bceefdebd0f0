---------------------------- MODULE SendAfterFin ----------------------------
(***************************************************************************)
(* SendAfterFin.c, as built for Linux: one server, and clients that close  *)
(* their outgoing direction and then try to send on it.  All of them are   *)
(* on one host (the client connects to 127.0.0.1), so no segment is lost   *)
(* and none overtakes another.  The pauses between the calls guarantee no  *)
(* order, so every interleaving is allowed.                                *)
(***************************************************************************)
EXTENDS Integers, Sequences, FiniteSetsExt

CONSTANTS
    Client,
    Backlog,        \* connections the kernel keeps for accept()
    MaxKills        \* bound on the number of clients killed from outside

VARIABLES
    server,         \* call the server is about to make
    sockRemote,     \* the client it talks to
    backlog,        \* connections not yet accepted
    client,         \* call every client is about to make
    clientSock,     \* its socket: none, open, shutWr, reset, closed
    unread,         \* octets a client's kernel has for it, nobody reads them
    toServer,       \* segments under way
    toClient,
    inbox           \* of the server's end: octets, and whether FIN and RST came

sfVars == <<server, sockRemote, backlog, client, clientSock, unread, toServer, toClient, inbox>>

NoClient == "no client"
ServerEnded == {"refused", "no socket", "returned", "aborted"}

-----------------------------------------------------------------------------
(* Arguments: an option with its value, 0 if there is none or no number.   *)

Opt(o, v) == [opt |-> o, val |-> v]
Role(r) == Opt(r, 0)

Refused(a) ==
    \/ a.opt \notin {"--help", "--client", "--server", "--listen-any", "--port"}
    \/ a.opt = "--port" /\ a.val \notin 1..65535

ParseArgs(argv) ==
    LET stops == {i \in DOMAIN argv : argv[i].opt = "--help" \/ Refused(argv[i])}
        given == {argv[i].opt : i \in DOMAIN argv}
        roles == given \cap {"--client", "--server"}
    IN  IF stops # {} THEN IF Refused(argv[Min(stops)]) THEN "EINVAL" ELSE "help"
        ELSE IF Cardinality(roles) # 1 \/ "--port" \notin given THEN "EINVAL"
        ELSE CHOOSE r \in roles : TRUE

\* Command lines of the server and of the clients, bad ones included.
Port == Opt("--port", 80)
ServerArgv ==
    { <<Role("--server"), Port>>, <<Role("--listen-any"), Port, Role("--server")>>,
      <<Role("--server")>>, <<Role("--server"), Role("--client"), Port>> }
ClientArgv ==
    { <<Port, Role("--client")>>, <<Opt("--port", 0), Role("--help")>>, <<Role("--bad"), Port>>,
      <<Role("--client"), Opt("--port", 65536)>>, <<Role("--client"), Port, Role("--help")>> }

Init ==
    /\ \E argv \in ServerArgv :
          server = IF ParseArgs(argv) = "--server" THEN "socket" ELSE "refused"
    /\ \E argv \in [Client -> ClientArgv] :
          client = [c \in Client |->
                      IF ParseArgs(argv[c]) = "--client" THEN "connect" ELSE "refused"]
    /\ sockRemote = NoClient
    /\ backlog = <<>>
    /\ clientSock = [c \in Client |-> "none"]
    /\ unread = [c \in Client |-> 0]
    /\ toServer = [c \in Client |-> <<>>]
    /\ toClient = [c \in Client |-> <<>>]
    /\ inbox = [c \in Client |-> [octets |-> <<>>, fin |-> FALSE, rst |-> FALSE]]

-----------------------------------------------------------------------------
(* runServer()                                                             *)

\* What a closing end of the server sends: FIN, or RST if something is unread.
ServerCloses(c) ==
    IF inbox[c].rst THEN <<>> ELSE IF inbox[c].octets = <<>> THEN <<"FIN">> ELSE <<"RST">>

\* The process ends: the kernel closes the connection and resets those that
\* nobody has accepted.
ServerEnds(how) ==
    /\ server' = how
    /\ sockRemote' = NoClient
    /\ backlog' = <<>>
    /\ toClient' = [c \in Client |->
           IF c = sockRemote THEN toClient[c] \o ServerCloses(c)
           ELSE IF \E i \in DOMAIN backlog : backlog[i] = c THEN Append(toClient[c], "RST")
           ELSE toClient[c]]

Listen ==
    /\ server = "socket"
    /\ server' \in {"accept", "no socket"}
    /\ UNCHANGED <<sockRemote, backlog, client, clientSock, unread, toServer, toClient, inbox>>

Accept ==
    /\ server = "accept"
    /\ backlog # <<>>
    /\ sockRemote' = Head(backlog)
    /\ backlog' = Tail(backlog)
    /\ server' = "recv A"
    /\ UNCHANGED <<client, clientSock, unread, toServer, toClient, inbox>>

\* recv() returns the next octet, or else 0 after FIN, even if a RST followed it,
\* or else -1 after RST; with none of them it waits.
Received(c) ==
    IF inbox[c].octets # <<>> THEN Head(inbox[c].octets)
    ELSE IF inbox[c].fin THEN "EOF" ELSE "error"

TakeOctet(c) ==
    inbox' = [inbox EXCEPT ![c].octets = IF @ = <<>> THEN @ ELSE Tail(@)]

Readable(c) == inbox[c].octets # <<>> \/ inbox[c].fin \/ inbox[c].rst

RecvA ==
    /\ server = "recv A"
    /\ Readable(sockRemote)
    /\ TakeOctet(sockRemote)
    /\ IF Received(sockRemote) = "A"
       THEN server' = "send C" /\ UNCHANGED <<sockRemote, backlog, toClient>>
       ELSE ServerEnds("aborted")
    /\ UNCHANGED <<client, clientSock, unread, toServer>>

\* Without MSG_NOSIGNAL, a send() after RST would end the process.
SendC ==
    /\ server = "send C"
    /\ IF inbox[sockRemote].rst
       THEN ServerEnds("aborted")
       ELSE /\ server' = "recv EOF"
            /\ toClient' = [toClient EXCEPT ![sockRemote] = Append(@, "C")]
            /\ UNCHANGED <<sockRemote, backlog>>
    /\ UNCHANGED <<client, clientSock, unread, toServer, inbox>>

RecvEof ==
    /\ server = "recv EOF"
    /\ Readable(sockRemote)
    /\ TakeOctet(sockRemote)
    /\ IF Received(sockRemote) = "EOF"
       THEN server' = "close" /\ UNCHANGED <<sockRemote, backlog, toClient>>
       ELSE ServerEnds("returned")
    /\ UNCHANGED <<client, clientSock, unread, toServer>>

Close ==
    /\ server = "close"
    /\ server' = "accept"
    /\ toClient' = [toClient EXCEPT ![sockRemote] = @ \o ServerCloses(sockRemote)]
    /\ sockRemote' = NoClient
    /\ UNCHANGED <<backlog, client, clientSock, unread, toServer, inbox>>

-----------------------------------------------------------------------------
(* runClient()                                                             *)

Goto(c, call) == client' = [client EXCEPT ![c] = call]

\* The process ends and the kernel closes its socket: with RST if something is
\* unread, else with FIN unless shutdown() has sent it.
ClientEnds(c, how) ==
    /\ Goto(c, how)
    /\ clientSock' = [clientSock EXCEPT ![c] = "closed"]
    /\ toServer' = [toServer EXCEPT ![c] = @ \o
           ( IF clientSock[c] \in {"none", "reset"} THEN <<>>
             ELSE IF unread[c] > 0 THEN <<"RST">>
             ELSE IF clientSock[c] = "open" THEN <<"FIN">> ELSE <<>> )]

Listening == server \notin ServerEnded \cup {"socket"}

Connect(c) ==
    /\ client[c] = "connect"
    /\ \/ /\ Listening /\ Len(backlog) < Backlog
          /\ backlog' = Append(backlog, c)
          /\ clientSock' = [clientSock EXCEPT ![c] = "open"]
          /\ Goto(c, "send A")
          /\ UNCHANGED toServer
       \/ /\ ~Listening \/ Len(backlog) = Backlog
          /\ ClientEnds(c, "not running")
          /\ UNCHANGED backlog
    /\ UNCHANGED <<server, sockRemote, unread, toClient, inbox>>

\* A send() or shutdown() that succeeds puts seg on the wire.
Puts(c, seg, sock, call) ==
    /\ toServer' = [toServer EXCEPT ![c] = Append(@, seg)]
    /\ clientSock' = [clientSock EXCEPT ![c] = sock]
    /\ Goto(c, call)

SendA(c) ==
    /\ client[c] = "send A"
    /\ IF clientSock[c] = "open" THEN Puts(c, "A", "open", "shutdown")
                                 ELSE ClientEnds(c, "aborted")
    /\ UNCHANGED <<server, sockRemote, backlog, unread, toClient, inbox>>

\* Mutant: the outgoing direction is left open.
NoShutdown(c) ==
    /\ client[c] = "shutdown"
    /\ Goto(c, "send B")
    /\ UNCHANGED <<server, sockRemote, backlog, clientSock, unread, toServer, toClient, inbox>>

Shutdown(c) ==
    /\ client[c] = "shutdown"
    /\ IF clientSock[c] = "open" THEN Puts(c, "FIN", "shutWr", "send B")
                                 ELSE ClientEnds(c, "aborted")
    /\ UNCHANGED <<server, sockRemote, backlog, unread, toClient, inbox>>

\* The call that must fail; then main() returns.
SendB(c) ==
    /\ client[c] = "send B"
    /\ IF clientSock[c] = "open" THEN Puts(c, "B", "open", "aborted")
                                 ELSE ClientEnds(c, "success")
    /\ UNCHANGED <<server, sockRemote, backlog, unread, toClient, inbox>>

\* A client is killed somewhere between its calls.
Killed == {"killed", "killed before A", "killed before FIN"}

Kill(c) ==
    /\ Cardinality({d \in Client : client[d] \in Killed}) < MaxKills
    /\ \/ client[c] = "send A" /\ ClientEnds(c, "killed before A")
       \/ client[c] = "shutdown" /\ ClientEnds(c, "killed before FIN")
       \/ client[c] = "send B" /\ ClientEnds(c, "killed")
    /\ UNCHANGED <<server, sockRemote, backlog, unread, toClient, inbox>>

-----------------------------------------------------------------------------
(* The kernel                                                              *)

\* An octet for an end that its process has closed is answered with RST.
ServerEndOpen(c) == c = sockRemote \/ \E i \in DOMAIN backlog : backlog[i] = c

ArrivesAtServer(c) ==
    /\ toServer[c] # <<>>
    /\ toServer' = [toServer EXCEPT ![c] = Tail(@)]
    /\ LET seg == Head(toServer[c])
       IN  IF ServerEndOpen(c)
           THEN /\ inbox' = [inbox EXCEPT
                      ![c].octets = IF seg \in {"A", "B"} THEN Append(@, seg) ELSE @,
                      ![c].fin = @ \/ seg = "FIN",
                      ![c].rst = @ \/ seg = "RST"]
                /\ UNCHANGED toClient
           ELSE /\ toClient' = [toClient EXCEPT ![c] =
                      IF seg \in {"A", "B"} THEN Append(@, "RST") ELSE @]
                /\ UNCHANGED inbox
    /\ UNCHANGED <<server, sockRemote, backlog, client, clientSock, unread>>

ArrivesAtClient(c) ==
    /\ toClient[c] # <<>>
    /\ toClient' = [toClient EXCEPT ![c] = Tail(@)]
    /\ LET seg == Head(toClient[c])
           isOpen == clientSock[c] \in {"open", "shutWr"}
       IN  /\ unread' = [unread EXCEPT ![c] = IF seg = "C" /\ isOpen THEN @ + 1 ELSE @]
           /\ clientSock' = [clientSock EXCEPT ![c] = IF seg = "RST" /\ isOpen THEN "reset" ELSE @]
           /\ toServer' = [toServer EXCEPT ![c] =
                  IF seg = "C" /\ clientSock[c] = "closed" THEN Append(@, "RST") ELSE @]
    /\ UNCHANGED <<server, sockRemote, backlog, client, inbox>>

\* Nothing is under way any more: the server waits for clients, or has ended.
AtRest ==
    /\ server \in ServerEnded \cup {"accept"}
    /\ backlog = <<>>
    /\ \A c \in Client : /\ client[c] \in Killed \cup {"refused", "not running", "success", "aborted"}
                         /\ toServer[c] = <<>> /\ toClient[c] = <<>>
    /\ UNCHANGED sfVars

ServerNext == Listen \/ Accept \/ RecvA \/ SendC \/ RecvEof \/ Close
ClientNext(c) == Connect(c) \/ SendA(c) \/ Shutdown(c) \/ SendB(c) \/ Kill(c)
Next ==
    \/ ServerNext
    \/ AtRest
    \/ \E c \in Client : ClientNext(c) \/ ArrivesAtServer(c) \/ ArrivesAtClient(c)

\* What the two sides assert of each other holds in every order of their steps. The
\* server never gets 'B'; in place of 'A' or of EOF it gets something else only if
\* that client was killed before its 'A', or between its 'A' and its FIN; and a
\* client fails only if the server has ended.
OnlyRequestArrives ==
    /\ server = "aborted" => \E c \in Client : client[c] = "killed before A"
    /\ server = "returned" => \E c \in Client : client[c] = "killed before FIN"
    /\ (\E c \in Client : client[c] = "aborted") => server \in ServerEnded
    /\ \A c \in Client : \A i \in DOMAIN inbox[c].octets : inbox[c].octets[i] # "B"

-----------------------------------------------------------------------------
(* The inductive invariant.                                                *)

Serving == {"recv A", "send C", "recv EOF", "close"}
Idle == {"connect", "refused", "not running"}
Closing == {"send B", "success", "killed", "killed before FIN"}
Segment == {"A", "B", "C", "FIN", "RST"}

\* What every variable may hold.
TypeOK ==
    /\ server \in ServerEnded \cup Serving \cup {"socket", "accept"}
    /\ sockRemote \in Client \cup {NoClient}
    /\ backlog \in Seq(Client)
    /\ client \in [Client -> Idle \cup Closing \cup {"send A", "shutdown", "killed before A", "aborted"}]
    /\ clientSock \in [Client -> {"none", "open", "shutWr", "reset", "closed"}]
    /\ unread \in [Client -> Nat]
    /\ toServer \in [Client -> Seq(Segment)]
    /\ toClient \in [Client -> Seq(Segment)]
    /\ inbox \in [Client -> [octets : Seq(Segment), fin : BOOLEAN, rst : BOOLEAN]]

\* Where the server is with a client: what it is about to call, or backlog, or none.
Place(c) ==
    IF c = sockRemote THEN server
    ELSE IF \E i \in DOMAIN backlog : backlog[i] = c THEN "backlog" ELSE "none"

\* Nothing has come back to the client, and so it has reset nothing.
Quiet(c) == ~inbox[c].rst /\ toClient[c] = <<>> /\ unread[c] = 0

\* How far what was sent has got: octets not yet read, FIN, segments under way.
Link(c, octets, fin, wire) ==
    inbox[c].octets = octets /\ inbox[c].fin = fin /\ toServer[c] = wire
SentNothing(c) == Link(c, <<>>, FALSE, <<>>)
SentA(c) == Link(c, <<>>, FALSE, <<"A">>) \/ Link(c, <<"A">>, FALSE, <<>>)
SentFin(c) == Link(c, <<>>, FALSE, <<"FIN">>) \/ Link(c, <<>>, TRUE, <<>>)
SentBoth(c) ==
    \/ Link(c, <<>>, FALSE, <<"A", "FIN">>)
    \/ Link(c, <<"A">>, FALSE, <<"FIN">>)
    \/ Link(c, <<"A">>, TRUE, <<>>)

NoOctets(segs) == \A i \in DOMAIN segs : segs[i] \in {"FIN", "RST"}

\* The sockets of the clients that are still running are as their calls left them.
SocketFits(c) ==
    /\ client[c] = "connect" => clientSock[c] = "none"
    /\ client[c] \in {"send A", "shutdown"} => clientSock[c] = "open"
    /\ client[c] = "send B" => clientSock[c] = "shutWr"
    /\ \A i \in DOMAIN toClient[c] : toClient[c][i] # "RST"

\* Nothing was taken from the connection yet.
BeforeA(c) ==
    /\ Quiet(c)
    /\ \/ client[c] = "send A" /\ SentNothing(c)
       \/ client[c] = "shutdown" /\ SentA(c)
       \/ client[c] = "killed before A" /\ SentFin(c)
       \/ client[c] \in Closing /\ SentBoth(c)

BeforeC(c) ==
    /\ Quiet(c)
    /\ \/ client[c] = "shutdown" /\ SentNothing(c)
       \/ client[c] \in Closing /\ SentFin(c)

\* A RST overtakes no FIN, so it comes first only if there is no FIN.
BeforeEof(c) ==
    /\ inbox[c].octets = <<>> /\ NoOctets(toServer[c])
    /\ \/ client[c] = "shutdown" /\ SentNothing(c) /\ ~inbox[c].rst
       \/ /\ client[c] \in Closing
          /\ \/ inbox[c].fin
             \/ client[c] = "killed before FIN"
             \/ ~inbox[c].rst /\ toServer[c] # <<>> /\ Head(toServer[c]) = "FIN"

\* While the server runs, what it may still get from a client.
Fits(c) ==
    /\ SocketFits(c)
    /\ client[c] # "aborted"
    /\ client[c] \in Idle => Place(c) = "none" /\ Quiet(c) /\ SentNothing(c)
    /\ Place(c) \in {"backlog", "recv A"} => BeforeA(c)
    /\ Place(c) = "send C" => BeforeC(c)
    /\ Place(c) = "recv EOF" => BeforeEof(c)
    /\ Place(c) = "close" => inbox[c].octets = <<>> /\ inbox[c].fin
    /\ (Place(c) \in {"none", "close"} /\ client[c] \notin Idle) =>
          client[c] \in Closing /\ NoOctets(toServer[c])

\* A connection is in one place.
Accepted ==
    /\ server \in ServerEnded => sockRemote = NoClient /\ backlog = <<>>
    /\ server = "socket" => backlog = <<>>
    /\ sockRemote \in Client <=> server \in Serving
    /\ \A i \in DOMAIN backlog : backlog[i] # sockRemote
    /\ \A i, j \in DOMAIN backlog : backlog[i] = backlog[j] => i = j

RequestInv ==
    /\ TypeOK /\ Accepted /\ OnlyRequestArrives
    /\ server \notin ServerEnded => \A c \in Client : Fits(c)
=============================================================================
