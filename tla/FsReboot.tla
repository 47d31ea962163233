------------------------------ MODULE FsReboot ------------------------------
(***************************************************************************)
(* The file system across restarts: between two operations the machine may *)
(* be switched off, and the next boot mounts what is on the disk.          *)
(***************************************************************************)
EXTENDS Fs

\* kmain mounts; the bitmap in memory is gone and is read from the disk.
Reboot == fs' = Mount(fs)

RebootSpec == Init /\ [][Next \/ Reboot]_fs
=============================================================================
