----------------------------- MODULE MCFileOpen -----------------------------
(***************************************************************************)
(* FileOpen for TLC: the root, a directory in it, a file and a FIFO that   *)
(* take turns under the requested name, and a file and the FIFO that take  *)
(* turns as index.html of both directories.                                *)
(***************************************************************************)
EXTENDS FileOpen

MCKindOf ==
  [root |-> "directory", dir |-> "directory", page |-> "regular",
   home |-> "regular", pipe |-> "fifo"]

MCSizeOf == [root |-> 9, dir |-> 8, page |-> 1, home |-> 2, pipe |-> 0]

MCRequestPaths == { << "/" >>, << "/", "/", "a" >> }

=============================================================================
