------------------------------ MODULE ResClone ------------------------------
(***************************************************************************)
(* resclone.js --pull: the listings of a remote tree are fetched, all at   *)
(* the same time; when none is missing the tree is traversed and a header  *)
(* written for every resource.                                             *)
(*                                                                         *)
(* Node 1 is the root; remote is the tree on the server.  The loop of      *)
(* onTarArchiveFdOpened() is one step per turn of the iterator's loop; no  *)
(* other callback runs meanwhile.                                          *)
(***************************************************************************)
EXTENDS Integers, Sequences, SequencesExt, FiniteSets

CONSTANTS
    Node,           \* 1..n
    Trees,          \* kids: listing of every collection, leaf: the resources,
                    \* long: resources whose path exceeds 100 bytes
    MaxSockets,     \* 4: "DON'T kill houston"
    BodySize        \* 42

VARIABLES
    turn,           \* idle, pack (in the loop), crashed (uncaught exception), start
    remote,
    isHttps,
    isStdio,
    request,        \* of every collection: none, queued, open, stuck, done
    childNodes,     \* of every listed node
    numPendingCollectionRequests,
    stack,          \* frames of the iterator
    published,      \* what the iterator returned
    tar             \* remainingBodyBytes, and the number of chunks written

rcVars == <<turn, remote, isHttps, isStdio, request, childNodes,
            numPendingCollectionRequests, stack, published, tar>>
fetchVars == <<request, childNodes, numPendingCollectionRequests>>
packVars == <<stack, published, tar>>
argVars == <<remote, isHttps, isStdio>>

Root == 1
NotListed == <<0>>
Collections(S) == {n \in S : n \notin remote.leaf}
Frame(n) == [node |-> n, currentChild |-> -1]

Init ==
    /\ turn = "start"
    /\ remote \in Trees
    /\ isHttps \in BOOLEAN
    /\ isStdio \in BOOLEAN
    /\ request = [n \in Node |-> "none"]
    /\ childNodes = [n \in Node |-> NotListed]
    /\ numPendingCollectionRequests = 0
    /\ stack = <<>>
    /\ published = <<>>
    /\ tar = [remainingBodyBytes |-> 0, chunks |-> 0]

Fetching(S) == [n \in Node |-> IF n \in S THEN "queued" ELSE request[n]]

Run ==
    /\ turn = "start"
    /\ turn' = "idle"
    /\ request' = Fetching({Root})
    /\ numPendingCollectionRequests' = 1
    /\ UNCHANGED <<argVars, childNodes, packVars>>

\* The agent opens a connection.  Only https has an agent of its own: for http
\* the code passes http.agent, which is undefined, and gets the default one.
Connect(n) ==
    /\ turn = "idle"
    /\ request[n] = "queued"
    /\ isHttps => Cardinality({m \in Node : request[m] \in {"open", "stuck"}}) < MaxSockets
    /\ request' = [request EXCEPT ![n] = "open"]
    /\ UNCHANGED <<turn, argVars, childNodes, numPendingCollectionRequests, packVars>>

\* The status is not 200: it is logged.  Nobody reads the body, so the connection
\* stays in use, and nobody gives the count back.
OnCollectionResponseHdr(n) ==
    /\ turn = "idle"
    /\ request[n] = "open"
    /\ request' = [request EXCEPT ![n] = "stuck"]
    /\ UNCHANGED <<turn, argVars, childNodes, numPendingCollectionRequests, packVars>>

\* Mutant: the children are not counted yet when the counter is looked at.
PendingBefore(S) == numPendingCollectionRequests - 1

\* One for every child collection, minus the listing just received.
PendingAfter(S) == numPendingCollectionRequests + Cardinality(S) - 1

\* fs.open() rejects the flags "wb" with an exception.
PackResourcesIntoTar ==
    /\ turn' = IF isStdio THEN "pack" ELSE "crashed"
    /\ stack' = IF isStdio THEN <<Frame(Root)>> ELSE stack
    /\ UNCHANGED <<published, tar>>

\* The listing is complete: set up the children, fetch the collections among
\* them, and pack if nothing is pending any more.
OnCollectionResponseEnd(n) ==
    /\ turn = "idle"
    /\ request[n] = "open"
    /\ LET children == Collections(ToSet(remote.kids[n]))
       IN  /\ childNodes' = [childNodes EXCEPT ![n] = remote.kids[n]]
           /\ request' = [Fetching(children) EXCEPT ![n] = "done"]
           /\ numPendingCollectionRequests' = PendingAfter(children)
           /\ IF PendingAfter(children) = 0
              THEN PackResourcesIntoTar
              ELSE UNCHANGED <<turn, packVars>>
    /\ UNCHANGED argVars

\* A connection error, or a body that is not a listing: an uncaught exception.
Throws(n) ==
    /\ turn = "idle"
    /\ request[n] \in {"queued", "open"}
    /\ turn' = "crashed"
    /\ UNCHANGED <<argVars, fetchVars, packVars>>

-----------------------------------------------------------------------------
(* The iterator, and what the loop does with a node.                       *)

Top == stack[Len(stack)]
SetChild(c) == [stack EXCEPT ![Len(stack)].currentChild = c]

\* tar.writeHdr(): the body of the resource before must have been written.
WriteHdr(n) ==
    IF tar.remainingBodyBytes = 0 /\ n \notin remote.long
    THEN /\ tar' = [remainingBodyBytes |-> BodySize, chunks |-> tar.chunks + 1]
         /\ UNCHANGED turn
    ELSE /\ turn' = "crashed"
         /\ UNCHANGED tar

PublishLeaf ==
    /\ turn = "pack" /\ stack # <<>>
    /\ Top.node \in remote.leaf
    /\ published' = Append(published, Top.node)
    /\ stack' = Front(stack)
    /\ WriteHdr(Top.node)
    /\ UNCHANGED <<argVars, fetchVars>>

\* Mutant: the first child is skipped.
SecondChild == 1

FirstChild == 0

\* The loop skips collections.
PublishPreOrder ==
    /\ turn = "pack" /\ stack # <<>>
    /\ Top.node \notin remote.leaf /\ Top.currentChild = -1
    /\ published' = Append(published, Top.node)
    /\ stack' = SetChild(FirstChild)
    /\ UNCHANGED <<turn, argVars, fetchVars, tar>>

PushChild ==
    /\ turn = "pack" /\ stack # <<>>
    /\ Top.node \notin remote.leaf /\ Top.currentChild >= 0
    /\ Top.currentChild < Len(childNodes[Top.node])
    /\ stack' = Append(SetChild(Top.currentChild + 1),
                       Frame(childNodes[Top.node][Top.currentChild + 1]))
    /\ UNCHANGED <<turn, argVars, fetchVars, published, tar>>

PublishPostOrder ==
    /\ turn = "pack" /\ stack # <<>>
    /\ Top.node \notin remote.leaf
    /\ Top.currentChild >= Len(childNodes[Top.node])
    /\ published' = Append(published, Top.node)
    /\ stack' = Front(stack)
    /\ UNCHANGED <<turn, argVars, fetchVars, tar>>

\* "TODO_20230309172911"
LoopEnds ==
    /\ turn = "pack" /\ stack = <<>>
    /\ turn' = "crashed"
    /\ UNCHANGED <<argVars, fetchVars, packVars>>

\* Nothing is left to happen.
Ended ==
    /\ turn = "crashed" \/ (turn = "idle" /\ \A n \in Node : request[n] # "open")
    /\ UNCHANGED rcVars

Next ==
    \/ Run
    \/ \E n \in Node : \/ Connect(n) \/ OnCollectionResponseHdr(n)
                       \/ OnCollectionResponseEnd(n) \/ Throws(n)
    \/ PublishLeaf \/ PublishPreOrder \/ PushChild \/ PublishPostOrder \/ LoopEnds
    \/ Ended

Spec == Init /\ [][Next]_rcVars

-----------------------------------------------------------------------------
(* Properties.                                                             *)

\* The counter reaches zero only when every collection that can be reached from the
\* root is listed, in whatever order the responses arrive: the traversal never meets
\* a node without childNodes, and no response arrives during or after it.
PacksCompleteTree ==
    turn = "pack" =>
        /\ request[Root] = "done"
        /\ \A n \in Node : request[n] # "none" =>
              /\ request[n] = "done" /\ childNodes[n] = remote.kids[n]
              /\ \A c \in Collections(ToSet(childNodes[n])) : request[c] = "done"

\* What the iterator should return: every collection before and after its
\* children, every resource once.
PreAndPostOrder ==
    LET visit[n \in Node] ==
            IF n \in remote.leaf THEN <<n>>
            ELSE <<n>>
                 \o FlattenSeq([i \in 1..Len(remote.kids[n]) |-> visit[remote.kids[n][i]]])
                 \o <<n>>
    IN  visit[Root]

\* The iterator with its stack of frames returns the nodes in that order, and
\* ends after the last of them.
TraversalFollowsTree ==
    /\ IsPrefix(published, PreAndPostOrder)
    /\ (turn = "pack" /\ stack = <<>>) => published = PreAndPostOrder

-----------------------------------------------------------------------------
(* The inductive invariant.                                                *)

Pending == {n \in Node : request[n] \in {"queued", "open", "stuck"}}

\* What the variables of the download may hold.
TypeOK ==
    /\ turn \in {"start", "idle", "pack", "crashed"}
    /\ remote \in Trees
    /\ request \in [Node -> {"none", "queued", "open", "stuck", "done"}]
    /\ DOMAIN childNodes = Node

\* The requests start with the one for the root, and every other one is made by the
\* end of the listing above it.
RequestedByParent ==
    /\ turn = "start" => \A n \in Node : request[n] = "none"
    /\ turn # "start" => request[Root] # "none"
    /\ \A n \in Node \ {Root} : request[n] # "none" =>
          \E p \in Node : request[p] = "done" /\ n \in ToSet(remote.kids[p])

\* A listing that is done was kept, and all its collections were requested.
ListedWithChildren ==
    \A n \in Node : request[n] = "done" =>
        /\ childNodes[n] = remote.kids[n]
        /\ \A c \in Collections(ToSet(remote.kids[n])) : request[c] # "none"

FetchInv ==
    /\ TypeOK /\ RequestedByParent /\ ListedWithChildren
    /\ numPendingCollectionRequests = Cardinality(Pending)
    /\ turn = "pack" => Pending = {}
=============================================================================
