------------------------------ MODULE MCProcess ------------------------------
(***************************************************************************)
(* The instance of Process for TLC.                                        *)
(***************************************************************************)
EXTENDS Process

CONSTANTS a, b

\* Before and after the release that added the indexes.
TwoReleases == {{1}, {1, 2}}

\* Nothing declared, one thread, two, one of them twice, a bad entry.
SomeDocuments == {<<>>, <<b>>, <<a, b, a>>, <<a, NoKey>>}
=============================================================================
