-------------------------------- MODULE MCConf --------------------------------
(***************************************************************************)
(* Conf with files of up to four lines: a section before, the section      *)
(* twice, a key set twice or in the wrong section, headers with '=', and a *)
(* key and a value that are too long.  The section asked for is always s.  *)
(***************************************************************************)
EXTENDS Conf

Texts == {<<>>, <<"x">>, <<"y", "z">>, <<"l", "o", "n", "g">>}
Default == <<"d">>

\* The key j at every length, one in brackets and one that is too long.
Asked ==
  [section : {"s"}, key : {"j"}, length : {NoLimit, 1, 2, 3}]
    \cup [section : {"s"}, key : {"[", "toolong"}, length : {NoLimit}]

Written ==
  [kind : {"header"}, name : {"s", "t"}]
    \cup [kind : {"header="}, name : {"s", "t"}, key : {"["}, text : {<<"x">>}]
    \cup [kind : {"setting"}, key : {"j"}, text : Texts]
    \cup [kind : {"setting"}, key : {"k", "[", "toolong"}, text : {<<"x">>}]
    \cup [kind : {"comment"}]
=============================================================================
