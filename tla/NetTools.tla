------------------------------ MODULE NetTools ------------------------------
(***************************************************************************)
(* The command line tools that talk to peers and other processes.  They    *)
(* share no state: tool is the one that was started, the variables of the  *)
(* others are Off.                                                         *)
(***************************************************************************)
EXTENDS Integers, Sequences, FiniteSets

CONSTANTS
    Node, Trees, MaxSockets, BodySize,                  \* ResClone
    Char, Prefix, Listings, Archive, NameCap, BufGrowth,    \* HoustonLogGet
    NClients, PoolThread, MaxDone,                      \* HttpFlood
    Client, Backlog, MaxKills,                          \* SendAfterFin
    Piece, Responses,                                   \* JenkinsReBuild
    Letter, Environs, CmdlineCap, EnvvalCap, UsernameCap    \* MvnLaunch

VARIABLES tool,
    turn, remote, isHttps, isStdio, request, childNodes,
    numPendingCollectionRequests, stack, published, tar,
    stage, child, printed, getPodsBuf, getPodsBuf_cap, podName, exitCode,
    outfileFd, outfile, unflushed, listing,
    at, reg, progressMutx, numReqDone, toSend, inFlight, pausing, progressDue, done, reported,
    server, sockRemote, backlog, client, clientSock, unread, toServer, toClient, inbox,
    jbDoing, response, arrived, httpRspCode, rspBody, rspBody_cap, buildStatus, jbExitCode,
    environ, mlDoing, calls, cmdline, process, mlExitCode

\* A path has one parent, and the root none; the parent's is a part of it.
ASSUME ResCloneAssumption ==
    /\ IsFiniteSet(Node) /\ 1 \in Node
    /\ \A tree \in Trees :
          /\ tree.kids \in [Node -> Seq(Node)]
          /\ \A n \in Node : \A i \in DOMAIN tree.kids[n] :
                /\ tree.kids[n][i] # 1
                /\ \A m \in Node : \A k \in DOMAIN tree.kids[m] :
                      tree.kids[m][k] = tree.kids[n][i] => m = n
          /\ \E depth \in [Node -> 0..Cardinality(Node)] :
                \A n \in Node : \A i \in DOMAIN tree.kids[n] : depth[n] < depth[tree.kids[n][i]]

\* The prefix is part of a word, and a line of the listing has several columns:
\* between its begin and its end there is a blank.
ASSUME HoustonLogGetAssumption ==
    /\ Prefix \in Seq(Char) /\ Prefix # <<>>
    /\ \A i \in DOMAIN Prefix : Prefix[i] # "sp"
    /\ Archive \in Seq(Char)
    /\ BufGrowth \in Nat \ {0}
    /\ \A text \in Listings :
          /\ text \in Seq(Char)
          /\ \A i, j \in DOMAIN text :
                (i <= j /\ text[j] = "lf" /\ (i = 1 \/ text[i - 1] = "lf")) =>
                    \E k \in i..j : text[k] = "sp"

ASSUME HttpFloodAssumption ==
    /\ NClients \in Nat \ {0}
    /\ IsFiniteSet(PoolThread) /\ "evLoop" \notin PoolThread /\ "no one" \notin PoolThread

ASSUME SendAfterFinAssumption == "no client" \notin Client

ASSUME JenkinsReBuildAssumption ==
    /\ {"state", "running", "failure"} \subseteq Piece
    /\ Responses \subseteq [code : Nat, body : Seq(Piece)]

\* The fixed texts are characters, too; what is not set is <<>>.
FixedTexts ==
    {"java", "-classpath", "C:/Users/", "jar", "-Dclassworlds", "m2.conf", "-Dmaven.home", "maven",
     "-DmultiModule", "Launcher", "mvn", "versions:set", "quot", "blank", "slash"}

ASSUME MvnLaunchAssumption ==
    /\ CmdlineCap \in Nat
    /\ FixedTexts \subseteq Letter
    /\ \A e \in Environs :
          /\ e.isLaunch \in BOOLEAN
          /\ \A text \in {e.username, e.jvmConfig, e.mavenOpts, e.debugOpts, e.workDir} :
                text \in Seq(Letter)
          /\ e.mvnExe \in Seq(Seq(Letter)) /\ e.args \in Seq(Seq(Letter))

RC == INSTANCE ResClone
HL == INSTANCE HoustonLogGet
HF == INSTANCE HttpFlood
SF == INSTANCE SendAfterFin
JB == INSTANCE JenkinsReBuild WITH doing <- jbDoing, exitCode <- jbExitCode
ML == INSTANCE MvnLaunch WITH doing <- mlDoing, exitCode <- mlExitCode

rcVars == <<turn, remote, isHttps, isStdio, request, childNodes,
          numPendingCollectionRequests, stack, published, tar>>
hlVars == <<stage, child, printed, getPodsBuf, getPodsBuf_cap, podName, exitCode,
          outfileFd, outfile, unflushed, listing>>
hfVars == <<at, reg, progressMutx, numReqDone, toSend, inFlight,
          pausing, progressDue, done, reported>>
sfVars == <<server, sockRemote, backlog, client, clientSock, unread, toServer, toClient, inbox>>
jbVars == <<jbDoing, response, arrived, httpRspCode, rspBody, rspBody_cap, buildStatus, jbExitCode>>
mlVars == <<environ, mlDoing, calls, cmdline, process, mlExitCode>>

RCOff ==
    /\ turn = "off" /\ remote = "off" /\ isHttps = "off" /\ isStdio = "off"
    /\ request = "off" /\ childNodes = "off" /\ numPendingCollectionRequests = "off" /\ stack = "off"
    /\ published = "off" /\ tar = "off"

HLOff ==
    /\ stage = "off" /\ child = "off" /\ printed = "off" /\ getPodsBuf = "off"
    /\ getPodsBuf_cap = "off" /\ podName = "off" /\ exitCode = "off" /\ outfileFd = "off"
    /\ outfile = "off" /\ unflushed = "off" /\ listing = "off"

HFOff ==
    /\ at = "off" /\ reg = "off" /\ progressMutx = "off" /\ numReqDone = "off"
    /\ toSend = "off" /\ inFlight = "off" /\ pausing = "off" /\ progressDue = "off"
    /\ done = "off" /\ reported = "off"

SFOff ==
    /\ server = "off" /\ sockRemote = "off" /\ backlog = "off" /\ client = "off"
    /\ clientSock = "off" /\ unread = "off" /\ toServer = "off" /\ toClient = "off"
    /\ inbox = "off"

JBOff ==
    /\ jbDoing = "off" /\ response = "off" /\ arrived = "off" /\ httpRspCode = "off"
    /\ rspBody = "off" /\ rspBody_cap = "off" /\ buildStatus = "off" /\ jbExitCode = "off"

MLOff ==
    /\ environ = "off" /\ mlDoing = "off" /\ calls = "off" /\ cmdline = "off"
    /\ process = "off" /\ mlExitCode = "off"

Init ==
    \/ tool = "ResClone" /\ RC!Init /\ HLOff /\ HFOff /\ SFOff /\ JBOff /\ MLOff
    \/ tool = "HoustonLogGet" /\ HL!Init /\ RCOff /\ HFOff /\ SFOff /\ JBOff /\ MLOff
    \/ tool = "HttpFlood" /\ HF!Init /\ RCOff /\ HLOff /\ SFOff /\ JBOff /\ MLOff
    \/ tool = "SendAfterFin" /\ SF!Init /\ RCOff /\ HLOff /\ HFOff /\ JBOff /\ MLOff
    \/ tool = "JenkinsReBuild" /\ JB!Init /\ RCOff /\ HLOff /\ HFOff /\ SFOff /\ MLOff
    \/ tool = "MvnLaunch" /\ ML!Init /\ RCOff /\ HLOff /\ HFOff /\ SFOff /\ JBOff

Next ==
    /\ UNCHANGED tool
    /\ \/ tool = "ResClone" /\ RC!Next
                  /\ UNCHANGED <<hlVars, hfVars, sfVars, jbVars, mlVars>>
       \/ tool = "HoustonLogGet" /\ HL!Next
                  /\ UNCHANGED <<rcVars, hfVars, sfVars, jbVars, mlVars>>
       \/ tool = "HttpFlood" /\ HF!Next
                  /\ UNCHANGED <<rcVars, hlVars, sfVars, jbVars, mlVars>>
       \/ tool = "SendAfterFin" /\ SF!Next
                  /\ UNCHANGED <<rcVars, hlVars, hfVars, jbVars, mlVars>>
       \/ tool = "JenkinsReBuild" /\ JB!Next
                  /\ UNCHANGED <<rcVars, hlVars, hfVars, sfVars, mlVars>>
       \/ tool = "MvnLaunch" /\ ML!Next
                  /\ UNCHANGED <<rcVars, hlVars, hfVars, sfVars, jbVars>>

Spec == Init /\ [][Next]_<<tool, rcVars, hlVars, hfVars, sfVars, jbVars, mlVars>>

\* resclone.js packs a tree only when every collection of it is listed.
PacksCompleteTree == tool = "ResClone" => RC!PacksCompleteTree

\* resclone.js visits every node in order.
TraversalFollowsTree == tool = "ResClone" => RC!TraversalFollowsTree

\* HoustonLogGet.c uses the whole name of a pod.
PodNameIsComplete == tool = "HoustonLogGet" => HL!PodNameIsComplete

\* HoustonLogGet.c stores what was printed, up to an end that may be missing.
ArchiveHasNoGap == tool = "HoustonLogGet" => HL!ArchiveHasNoGap

\* HttpFlood.c reports every response once.
EveryResponseCounted == tool = "HttpFlood" => HF!EveryResponseCounted

\* SendAfterFin.c: only the request arrives, then EOF.
OnlyRequestArrives == tool = "SendAfterFin" => SF!OnlyRequestArrives

\* JenkinsReBuild.c: OK is said of finished builds only.
FinishedBuildOnly == tool = "JenkinsReBuild" => JB!FinishedBuildOnly

\* mvn-launch.c, mvn-versions-set.c: the child gets the whole command line.
LaunchedAsAsked == tool = "MvnLaunch" => ML!LaunchedAsAsked
=============================================================================
