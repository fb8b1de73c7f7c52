------------------------------ MODULE FileOpen ------------------------------
(***************************************************************************)
(* file_open_path of file.c: one call, a system call at a time, while      *)
(* other processes rename, replace and remove what it looks for.           *)
(*                                                                         *)
(* A path names an object or the errno with which openat2 refuses it       *)
(* (missing, forbidden, a symbolic link, outside of the root).  An object  *)
(* is an inode: an open descriptor keeps referring to it whatever happens  *)
(* to its name.                                                            *)
(***************************************************************************)
EXTENDS Integers, Sequences

CONSTANTS
  Objects,       \* inodes
  Root,          \* the directory root_fd refers to
  PathObjects,   \* the objects that are ever given the name of a request
  IndexObjects,  \* the objects that are ever named index.html
  KindOf,        \* Objects -> S_IFMT of st_mode
  SizeOf,        \* Objects -> st_size
  RequestPaths,  \* the paths http_parse_request lets through
  LookupErrors   \* errno values of a path that does not resolve

Kinds == {"regular", "directory", "fifo", "other"}

ASSUME FileOpenAssumption ==
  /\ KindOf \in [Objects -> Kinds]
  /\ SizeOf \in [Objects -> Nat]
  /\ LookupErrors \cap Objects = {}
  /\ Root \in Objects /\ KindOf[Root] = "directory"
  /\ PathObjects \subseteq Objects /\ IndexObjects \subseteq Objects
  /\ "closed" \notin Objects
  /\ {"none", "not regular"} \cap LookupErrors = {}

VARIABLES
  entry,         \* what each relative path resolves to now
  index,         \* what index.html is in each directory now
  writers,       \* FIFOs some process has opened for writing
  request_path,  \* the argument
  pc,            \* the next system call, or "returned"
  relative_path,
  opening,       \* the object an openat2 has resolved to
  fd, index_fd,  \* the objects the two descriptors refer to
  file,          \* the result: which descriptor, and the size
  errno,
  cause,         \* history: why the call fails
  named,         \* history: objects the path has named during the call
  indexed        \* history: pairs of a directory and its index.html

names == << entry, index, writers >>
locals == << relative_path, opening, fd, index_fd, file, errno, cause >>
vars == << names, request_path, pc, locals, named, indexed >>

Closed == "closed"         \* no descriptor
NoFile == [fd |-> "none", size |-> 0]

Directories == {o \in Objects : KindOf[o] = "directory"}
Fifos == {o \in Objects : KindOf[o] = "fifo"}

(* The path without its leading slashes, "." for the root itself.          *)
RelativePath(path) ==
  LET rest == {i \in DOMAIN path : path[i] # "/"}
      first == CHOOSE i \in rest : \A j \in rest : i <= j
  IN  IF rest = {} THEN << "." >> ELSE SubSeq(path, first, Len(path))

RelativePaths == {RelativePath(path) : path \in RequestPaths}

(* What the paths may resolve to: "." is always the root.                  *)
PathEntries(path) ==
  IF path = << "." >> THEN {Root} ELSE PathObjects \cup LookupErrors

IndexEntries == IndexObjects \cup LookupErrors

(* The object the request names, and the pairs of a directory and its      *)
(* index.html.                                                             *)
NamedIn(entries) == {entries[RelativePath(request_path)]} \cap Objects
IndexPairs(entries) ==
  {pair \in Directories \X IndexObjects : entries[pair[1]] = pair[2]}

Init ==
  /\ entry \in [RelativePaths -> {Root} \cup PathObjects \cup LookupErrors]
  /\ \A path \in RelativePaths : entry[path] \in PathEntries(path)
  /\ index \in [Directories -> IndexEntries]
  /\ writers = {}
  /\ request_path \in RequestPaths
  /\ pc = "start"
  /\ relative_path = << >>
  /\ opening = Closed /\ fd = Closed /\ index_fd = Closed
  /\ file = NoFile
  /\ errno = "none" /\ cause = "none"
  /\ named = NamedIn(entry)
  /\ indexed = IndexPairs(index)

-----------------------------------------------------------------------------
(* Other processes                                                         *)

EntryChanges ==
  /\ pc # "returned"
  /\ \E path \in RelativePaths : \E e \in PathEntries(path) :
       entry' = [entry EXCEPT ![path] = e]
  /\ named' = named \cup NamedIn(entry')
  /\ UNCHANGED << index, writers, request_path, pc, locals, indexed >>

IndexChanges ==
  /\ pc # "returned"
  /\ \E d \in Directories, e \in IndexEntries :
       index' = [index EXCEPT ![d] = e]
  /\ indexed' = indexed \cup IndexPairs(index')
  /\ UNCHANGED << entry, writers, request_path, pc, locals, named >>

WriterOpens ==
  /\ \E o \in Fifos \ writers : writers' = writers \cup {o}
  /\ UNCHANGED << entry, index, request_path, pc, locals, named, indexed >>

-----------------------------------------------------------------------------
(* The ways to return                                                      *)

(* Mutant: errno as close leaves it.                                       *)
KeepErrno(saved_errno, left_by_close) == left_by_close

(* errno after a close between its being saved and restored.               *)
RestoreErrno(saved_errno, left_by_close) == saved_errno

(* EXDEV and ELOOP are reported as EACCES.                                 *)
ReportedErrno(e) == IF e \in {"EXDEV", "ELOOP"} THEN "EACCES" ELSE e

(* Mutant: no index.html, and the directory stays open.                    *)
ClosedLeavingDirectory ==
  CASE pc \in {"start", "openat2", "openat2_index"} -> {}
    [] pc = "fstat"       -> {"fd"}
    [] pc = "fstat_index" -> {"index_fd"}

(* The descriptor each error path closes.                                  *)
ClosedOnError ==
  CASE pc \in {"start", "openat2"}       -> {}
    [] pc \in {"fstat", "openat2_index"} -> {"fd"}
    [] pc = "fstat_index"                -> {"index_fd"}

(* Return -1; the close may set errno.                                     *)
FailWith(reason, reported) ==
  /\ pc' = "returned"
  /\ cause' = reason
  /\ \E left_by_close \in {reason, "EIO"} :
       errno' = RestoreErrno(reported, left_by_close)
  /\ fd' = IF "fd" \in ClosedOnError THEN Closed ELSE fd
  /\ index_fd' = IF "index_fd" \in ClosedOnError THEN Closed ELSE index_fd
  /\ UNCHANGED << relative_path, opening, file >>

Succeed(descriptor, object) ==
  /\ pc' = "returned"
  /\ file' = [fd |-> descriptor, size |-> SizeOf[object]]
  /\ UNCHANGED << relative_path, opening, fd, index_fd, errno, cause >>

(* A lookup succeeded: openat2 goes on to open the object.                 *)
Resolved(e, next) ==
  /\ e \in Objects
  /\ opening' = e
  /\ pc' = next
  /\ UNCHANGED << relative_path, fd, index_fd, file, errno, cause >>

(* An open for reading of a FIFO waits for a writer: there is no           *)
(* O_NONBLOCK in the flags.                                                *)
CanOpen(object) == object \in Fifos => object \in writers

-----------------------------------------------------------------------------
(* file_open_path                                                          *)

SkipSlashes ==
  /\ pc = "start"
  /\ IF request_path[1] # "/"
     THEN FailWith("EINVAL", "EINVAL")
     ELSE /\ relative_path' = RelativePath(request_path)
          /\ pc' = "openat2"
          /\ UNCHANGED << opening, fd, index_fd, file, errno, cause >>
  /\ UNCHANGED << names, request_path, named, indexed >>

(* Mutant: a missing file is looked for again.                             *)
LookupRetrying ==
  LET e == entry[relative_path]
  IN  /\ pc = "openat2"
      /\ \/ Resolved(e, "open")
         \/ e = "ENOENT" /\ UNCHANGED << pc, locals >>
         \/ e \in LookupErrors \ {"ENOENT"} /\ FailWith(e, ReportedErrno(e))
      /\ UNCHANGED << names, request_path, named, indexed >>

Lookup ==
  LET e == entry[relative_path]
  IN  /\ pc = "openat2"
      /\ \/ Resolved(e, "open")
         \/ e \in LookupErrors /\ FailWith(e, ReportedErrno(e))
      /\ UNCHANGED << names, request_path, named, indexed >>

Open ==
  /\ pc = "open" /\ CanOpen(opening)
  /\ fd' = opening
  /\ pc' = "fstat"
  /\ UNCHANGED << names, request_path, relative_path, opening, index_fd, file,
                  errno, cause, named, indexed >>

S_ISREG(object) == KindOf[object] = "regular"

S_ISDIR(object) == KindOf[object] = "directory"

Fstat ==
  /\ pc = "fstat"
  /\ \/ S_ISREG(fd) /\ Succeed("fd", fd)
     \/ S_ISDIR(fd) /\ pc' = "openat2_index" /\ UNCHANGED locals
     \/ ~S_ISREG(fd) /\ ~S_ISDIR(fd) /\ FailWith("not regular", "EACCES")
  /\ UNCHANGED << names, request_path, named, indexed >>

(* Mutant: index.html of the root, whatever the directory.                 *)
IndexOfRoot(directory) == index[Root]

(* index.html is looked up from the opened directory.                      *)
IndexOf(directory) == index[directory]

LookupIndex ==
  LET e == IndexOf(fd)
  IN  /\ pc = "openat2_index"
      /\ \/ Resolved(e, "open_index")
         \/ e \in LookupErrors /\ FailWith(e, ReportedErrno(e))
      /\ UNCHANGED << names, request_path, named, indexed >>

(* The directory is closed once index.html is open.                        *)
OpenIndex ==
  /\ pc = "open_index" /\ CanOpen(opening)
  /\ index_fd' = opening
  /\ fd' = Closed
  /\ pc' = "fstat_index"
  /\ UNCHANGED << names, request_path, relative_path, opening, file, errno,
                  cause, named, indexed >>

FstatIndex ==
  /\ pc = "fstat_index"
  /\ \/ S_ISREG(index_fd) /\ Succeed("index_fd", index_fd)
     \/ ~S_ISREG(index_fd) /\ FailWith("not regular", "EACCES")
  /\ UNCHANGED << names, request_path, named, indexed >>

(* openat2 fails for want of a descriptor, fstat for a reason of its own.  *)
OpenFails ==
  /\ pc \in {"openat2", "openat2_index"}
  /\ FailWith("EMFILE", ReportedErrno("EMFILE"))
  /\ UNCHANGED << names, request_path, named, indexed >>

FstatFails ==
  /\ pc \in {"fstat", "fstat_index"}
  /\ FailWith("EOVERFLOW", "EOVERFLOW")
  /\ UNCHANGED << names, request_path, named, indexed >>

-----------------------------------------------------------------------------
Step ==
  \/ SkipSlashes \/ Lookup \/ Open \/ Fstat
  \/ LookupIndex \/ OpenIndex \/ FstatIndex

Next ==
  \/ EntryChanges \/ IndexChanges \/ WriterOpens
  \/ Step \/ OpenFails \/ FstatFails

Spec == Init /\ [][Next]_vars /\ WF_vars(Step)

-----------------------------------------------------------------------------
(* Properties                                                              *)

Descriptors == Objects \cup {Closed}

Causes == LookupErrors \cup {"EMFILE", "EOVERFLOW", "EINVAL", "not regular"}

(* Every variable keeps its type, and a system call is made on a           *)
(* descriptor that is open.                                                *)
TypeOK ==
  /\ entry \in [RelativePaths -> Objects \cup LookupErrors]
  /\ index \in [Directories -> IndexEntries]
  /\ writers \subseteq Fifos
  /\ request_path \in RequestPaths
  /\ pc \in {"start", "openat2", "open", "fstat", "openat2_index",
             "open_index", "fstat_index", "returned"}
  /\ pc \in {"openat2", "open"} => relative_path \in RelativePaths
  /\ pc \in {"open", "open_index"} => opening \in Objects
  /\ pc \in {"fstat", "openat2_index", "open_index"} => fd \in Objects
  /\ pc \in {"openat2_index", "open_index"} => fd \in Directories
  /\ pc = "fstat_index" => index_fd \in Objects
  /\ fd \in Descriptors /\ index_fd \in Descriptors
  /\ file \in [fd : {"none", "fd", "index_fd"}, size : Nat]
  /\ cause \in Causes \cup {"none"}

(* The object a successful call hands to its caller.                       *)
Served == IF file.fd = "fd" THEN fd ELSE index_fd

(* A call that fails leaves no descriptor behind; one that succeeds leaves *)
(* exactly the one it returns, which is a regular file and has the size    *)
(* that becomes the Content-Length, whatever was renamed meanwhile.        *)
OneRegularDescriptor ==
  pc = "returned" =>
    IF file = NoFile
    THEN fd = Closed /\ index_fd = Closed
    ELSE /\ Served \in Objects /\ KindOf[Served] = "regular"
         /\ file.size = SizeOf[Served]
         /\ Closed = IF file.fd = "fd" THEN index_fd ELSE fd

(* What is served was, at some moment of the call, what the path named, or *)
(* the index.html of a directory the path named.                           *)
ServedWhatWasNamed ==
  pc = "returned" /\ file # NoFile =>
    \/ Served \in named
    \/ \E d \in named \cap Directories : << d, Served >> \in indexed

(* The caller chooses the status by errno, after closes that may have      *)
(* changed it: ENOENT and EACCES reach it exactly for the reasons that     *)
(* make a 404 and a 403.                                                   *)
ErrnoTellsTheCause ==
  pc = "returned" /\ file = NoFile =>
    /\ errno = "ENOENT" <=> cause = "ENOENT"
    /\ errno = "EACCES" <=>
         cause \in {"EACCES", "EXDEV", "ELOOP", "not regular"}

(* The call returns, unless it waits for ever for the writer of a FIFO.    *)
ReturnsUnlessFifo ==
  \/ <>(pc = "returned")
  \/ <>[](pc \in {"open", "open_index"} /\ opening \in Fifos \ writers)

=============================================================================
