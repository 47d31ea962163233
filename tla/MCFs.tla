-------------------------------- MODULE MCFs --------------------------------
(***************************************************************************)
(* An instance of Fs.                                                     *)
(***************************************************************************)
EXTENDS FsView

MCSysDirs == <<"sys">>
\* Names in the root, in the system directory and in a directory that comes and
\* goes, and one path that leads through "..".
MCPaths == {<<"a">>, <<"a", "b">>, <<"sys", "a">>, <<"sys", "..", "b">>}
\* Half a block, and three blocks of which the last is not full and needs a table.
MCContents == {<<1>>, <<1, 2, 1, 2, 1>>}
=============================================================================
