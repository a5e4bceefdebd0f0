--------------------------- MODULE MCFindFullDisks ---------------------------
(***************************************************************************)
(* Instances of FindFullDisks for TLC.                                     *)
(***************************************************************************)
EXTENDS FindFullDisks

\* Lists of up to four devices in one or two chunks, with and without a final
\* newline, and lists with a row that is refused, at every place.
MCDocuments ==
    [chunks : {<<>>, <<<<"device", "device">>, <<"device">>>>,
               <<<<"device", "wrongCols", "device">>, <<"device">>>>,
               <<<<"tooLong">>, <<"device">>>>},
     last : {<<>>, <<"device">>, <<"tooLong">>}]
=============================================================================
