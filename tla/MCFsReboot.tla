----------------------------- MODULE MCFsReboot -----------------------------
(***************************************************************************)
(* Instances of FsReboot with two names in the root: with restarts, and    *)
(* without them but with a directory longer than its direct blocks.        *)
(***************************************************************************)
EXTENDS FsReboot

MCSysDirs == <<"sys">>
MCPaths == {<<"a">>, <<"b">>}
MCContents == {<<1>>}
=============================================================================
