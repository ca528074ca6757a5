-------------------------------- MODULE MCFs --------------------------------
(***************************************************************************)
(* Small instances of FsDirs for TLC: two names in the root, one below d   *)
(* that is a file or a directory.                                          *)
(***************************************************************************)
EXTENDS FsDirs

MCFilePaths == {<<"a">>, <<"d", "x">>}
MCOpenPaths == {<<"a">>}
MCDeepPaths == {<<"d", "x">>}
MCDirPaths == {<<"d">>, <<"d", "x">>}
MCTopDirPaths == {<<"d">>}
MCOpenDirPaths == {<<"d">>}
MCChdirPaths == {<<>>, <<"d">>, <<"d", "x">>}
=============================================================================
