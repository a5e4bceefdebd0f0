----------------------------- MODULE MCNetTools -----------------------------
(***************************************************************************)
(* The command line tools that talk to peers and other processes, for TLC. *)
(***************************************************************************)
EXTENDS NetTools

\* Trees with empty collections, nested ones, several branches, no or one or more
\* resources.
Kids(f) == [n \in 1..5 |-> IF n \in DOMAIN f THEN f[n] ELSE <<>>]
MCTrees ==
    { [kids |-> Kids(<<>>), leaf |-> {}, long |-> {}],
      [kids |-> Kids(<< <<2>> >>), leaf |-> {2}, long |-> {2}],
      [kids |-> Kids(<< <<2, 3>>, <<4>>, <<5>> >>), leaf |-> {5}, long |-> {}],
      [kids |-> Kids(<< <<2, 3, 4>>, <<>>, <<5>> >>), leaf |-> {4}, long |-> {}],
      [kids |-> Kids(<< <<2, 3>>, <<4, 5>> >>), leaf |-> {3, 5}, long |-> {}],
      [kids |-> Kids(<< <<2>>, <<3>>, <<4>>, <<5>> >>), leaf |-> {5}, long |-> {}] }

\* Listings without, with one and with two pods of houston.
Pod(n) == <<"h", "-", n, "sp", "1", "lf">>
Other == <<"h", "x", "sp", "1", "lf">>
MCListings ==
    { Other \o Other, Other \o Pod("a"), Pod("a") \o Other \o Pod("b"),
      <<"x", "sp", "h", "-", "a", "lf">> \o Pod("b"),
      <<"h", "-", "a", "b", "c", "sp", "1", "lf">> }

\* Bodies with each of the words, with both, with neither, with halves of one.
MCResponses ==
    [code : {200, 401, 404},
     body : { <<>>, <<"x">>, <<"state">>, <<"x", "state", "running", "x">>,
              <<"state", "failure", "state", "running">>, <<"state", "x", "failure">>,
              <<"x", "state", "failure">> }]

MCLetter == FixedTexts \cup {"u", "e", "d", "backslash", "a", "m", "v", "--help"}

\* Variables and arguments that are missing, fit, do not fit, contain a quote.
MCEnvirons ==
    [isLaunch : {TRUE}, help : BOOLEAN, username : {<<>>, <<"u">>, <<"u", "u", "u">>},
     jvmConfig : {<<>>, <<"e">>, <<"e", "e", "e", "e", "e", "e">>}, mavenOpts : {<<>>, <<"e", "e">>},
     debugOpts : {<<>>}, workDir : {<<>>, <<"d", "backslash">>, <<"d", "quot", "d">>}, mvnExe : {<<>>},
     args : {<<>>, << <<"a">> >>, << <<"a", "quot">> >>, << <<"a", "a">>, <<>> >>}]
    \cup
    [isLaunch : {FALSE}, help : {FALSE}, username : {<<>>}, jvmConfig : {<<>>}, mavenOpts : {<<>>},
     debugOpts : {<<>>}, workDir : {<<>>}, mvnExe : {<<>>, << <<>> >>, << <<"m", "v">> >>},
     args : {<<>>, << <<"--help">> >>, << <<"a">> >>, << <<"a", "quot", "a">> >>, << <<"a">>, <<"a">> >>}]

MCPrefix == <<"h", "-">>
MCArchive == <<"a1", "a2", "a3">>
=============================================================================
