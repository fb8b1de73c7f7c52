--------------------------- MODULE FileOpenProofs ---------------------------
(***************************************************************************)
(* Safety of file_open_path for every file system and every change to it.  *)
(***************************************************************************)
EXTENDS FileOpen, TLAPS

-----------------------------------------------------------------------------
(* The inductive invariant                                                 *)

(* Which descriptors are open before each system call.                     *)
Stage ==
  /\ pc \in {"start", "openat2", "open"} => fd = Closed /\ index_fd = Closed
  /\ pc \in {"fstat", "openat2_index", "open_index"} => index_fd = Closed
  /\ pc = "fstat_index" => fd = Closed
  /\ pc # "returned" => file = NoFile

(* What has been looked up so far was found under the name of the request. *)
Found ==
  /\ NamedIn(entry) \subseteq named
  /\ IndexPairs(index) \subseteq indexed
  /\ pc \in {"openat2", "open"} => relative_path = RelativePath(request_path)
  /\ pc = "open" => opening \in named
  /\ pc \in {"fstat", "openat2_index", "open_index"} => fd \in named
  /\ pc = "open_index" => << fd, opening >> \in indexed
  /\ pc = "fstat_index" =>
       \E d \in named \cap Directories : << d, index_fd >> \in indexed

IInv ==
  /\ TypeOK /\ Stage /\ Found
  /\ OneRegularDescriptor /\ ErrnoTellsTheCause /\ ServedWhatWasNamed

-----------------------------------------------------------------------------
(* The environment changes names, never what is open.                      *)

(* Whatever a path resolves to is an object or an error.                   *)
LEMMA EntryTypes ==
  /\ \A path : PathEntries(path) \subseteq Objects \cup LookupErrors
  /\ IndexEntries \subseteq Objects \cup LookupErrors
  BY FileOpenAssumption DEF PathEntries, IndexEntries

(* The initial state satisfies the invariant.                              *)
LEMMA InitIInv ==
  ASSUME Init
  PROVE  IInv
<1>1. TypeOK
  BY EntryTypes DEF Init, TypeOK, NoFile, Descriptors
<1>2. Stage /\ Found
  BY DEF Init, Stage, Found
<1>3. QED
  BY <1>1, <1>2 DEF IInv, OneRegularDescriptor, ErrnoTellsTheCause,
                    ServedWhatWasNamed, Init

(* A change of names keeps the invariant.                                  *)
LEMMA EnvironmentKeeps ==
  ASSUME IInv, EntryChanges \/ IndexChanges \/ WriterOpens
  PROVE  IInv'
<1> USE DEF locals
<1>1. TypeOK'
  BY EntryTypes DEF IInv, TypeOK, EntryChanges, IndexChanges, WriterOpens
<1>2. /\ pc' = pc /\ fd' = fd /\ index_fd' = index_fd /\ file' = file
      /\ errno' = errno /\ cause' = cause /\ opening' = opening
      /\ relative_path' = relative_path /\ request_path' = request_path
      /\ named \subseteq named' /\ indexed \subseteq indexed'
  BY DEF EntryChanges, IndexChanges, WriterOpens
<1>3. Stage'
  BY <1>2 DEF IInv, Stage
<1>4. NamedIn(entry)' \subseteq named' /\ IndexPairs(index)' \subseteq indexed'
  <2>1. CASE EntryChanges
    BY <2>1 DEF EntryChanges, IInv, Found, NamedIn, IndexPairs
  <2>2. CASE IndexChanges
    BY <2>2 DEF IndexChanges, IInv, Found, NamedIn, IndexPairs
  <2>3. CASE WriterOpens
    BY <2>3 DEF WriterOpens, IInv, Found, NamedIn, IndexPairs
  <2>4. QED
    BY <2>1, <2>2, <2>3
<1>5. Found'
  BY <1>2, <1>4 DEF IInv, Found
<1>6. OneRegularDescriptor' /\ ErrnoTellsTheCause' /\ ServedWhatWasNamed'
  BY <1>2 DEF IInv, OneRegularDescriptor, ErrnoTellsTheCause,
              ServedWhatWasNamed, Served
<1>7. QED
  BY <1>1, <1>3, <1>5, <1>6 DEF IInv

-----------------------------------------------------------------------------
(* The two ways to return                                                  *)

(* errno says why, for every reason the code reports.                      *)
Explains(reason, reported) ==
  /\ reason \in Causes
  /\ reported = "ENOENT" <=> reason = "ENOENT"
  /\ reported = "EACCES" <=>
       reason \in {"EACCES", "EXDEV", "ELOOP", "not regular"}

(* A lookup error is explained by what is reported for it.                 *)
LEMMA LookupErrorExplained ==
  ASSUME NEW e \in LookupErrors
  PROVE  Explains(e, ReportedErrno(e))
  BY FileOpenAssumption DEF Explains, ReportedErrno, Causes

(* An error return closes what the call had opened and explains itself.    *)
LEMMA FailKeeps ==
  ASSUME IInv, NEW reason, NEW reported, FailWith(reason, reported),
         Explains(reason, reported),
         pc \in {"start", "openat2", "fstat", "openat2_index", "fstat_index"},
         UNCHANGED << names, request_path, named, indexed >>
  PROVE  IInv'
<1> USE DEF names
<1>1. /\ fd' = Closed /\ index_fd' = Closed
      /\ file' = NoFile /\ pc' = "returned"
  BY DEF IInv, Stage, FailWith, ClosedOnError
<1>2. errno' = reported /\ cause' = reason
  BY DEF FailWith, RestoreErrno
<1>3. TypeOK'
  BY <1>1, <1>2 DEF IInv, TypeOK, Explains, Descriptors, NoFile
<1>4. Stage' /\ Found'
  BY <1>1 DEF IInv, Stage, Found, NamedIn, IndexPairs
<1>5. OneRegularDescriptor' /\ ServedWhatWasNamed'
  BY <1>1 DEF OneRegularDescriptor, ServedWhatWasNamed
<1>6. ErrnoTellsTheCause'
  BY <1>2 DEF Explains, ErrnoTellsTheCause
<1>7. QED
  BY <1>3, <1>4, <1>5, <1>6 DEF IInv

(* A success returns the one open descriptor, which fstat found regular.   *)
LEMMA SucceedKeeps ==
  ASSUME IInv, NEW d, NEW o, Succeed(d, o), S_ISREG(o),
         \/ pc = "fstat" /\ d = "fd" /\ o = fd
         \/ pc = "fstat_index" /\ d = "index_fd" /\ o = index_fd,
         UNCHANGED << names, request_path, named, indexed >>
  PROVE  IInv'
<1> USE DEF names
<1>1. /\ fd' = fd /\ index_fd' = index_fd /\ pc' = "returned"
      /\ file' = [fd |-> d, size |-> SizeOf[o]] /\ cause' = cause
  BY DEF Succeed
<1>2. o \in Objects /\ SizeOf[o] \in Nat /\ o # Closed
  BY FileOpenAssumption DEF IInv, TypeOK, Closed
<1>3. file'.fd = d /\ file'.size = SizeOf[o] /\ d # "none"
  BY <1>1
<1>4. file' # NoFile
  BY <1>3 DEF NoFile
<1>5. TypeOK'
  BY <1>1, <1>2 DEF IInv, TypeOK
<1>6. Stage' /\ Found'
  BY <1>1 DEF IInv, Stage, Found, NamedIn, IndexPairs
<1>7. Served' = o
  BY <1>1, <1>3 DEF Served
<1>8. OneRegularDescriptor'
  BY <1>1, <1>2, <1>3, <1>4, <1>7
     DEF IInv, Stage, OneRegularDescriptor, S_ISREG
<1>9. ServedWhatWasNamed'
  BY <1>1, <1>7 DEF IInv, Found, ServedWhatWasNamed
<1>10. ErrnoTellsTheCause'
  BY <1>4 DEF ErrnoTellsTheCause
<1>11. QED
  BY <1>5, <1>6, <1>8, <1>9, <1>10 DEF IInv

-----------------------------------------------------------------------------
(* The steps in between                                                    *)

(* What the steps that do not return leave alone.                          *)
Calm ==
  UNCHANGED << names, request_path, named, indexed, index_fd, file, errno,
               cause >>

(* A lookup that succeeded keeps the invariant when what it found is       *)
(* recorded under the name that was looked up.                             *)
LEMMA ResolvedKeeps ==
  ASSUME IInv, NEW e, NEW next, Resolved(e, next),
         \/ pc = "openat2" /\ next = "open" /\ e \in named
         \/ pc = "openat2_index" /\ next = "open_index"
            /\ << fd, e >> \in indexed,
         UNCHANGED << names, request_path, named, indexed >>
  PROVE  IInv'
<1> USE DEF names
<1>1. /\ fd' = fd /\ index_fd' = index_fd /\ file' = file /\ cause' = cause
      /\ relative_path' = relative_path /\ opening' = e /\ e \in Objects
      /\ pc' = next /\ next # "returned"
  BY DEF Resolved
<1>2. TypeOK'
  BY <1>1 DEF IInv, TypeOK
<1>3. Stage'
  BY <1>1 DEF IInv, Stage
<1>4. Found'
  BY <1>1 DEF IInv, Found, NamedIn, IndexPairs
<1>5. OneRegularDescriptor' /\ ErrnoTellsTheCause' /\ ServedWhatWasNamed'
  BY <1>1 DEF OneRegularDescriptor, ErrnoTellsTheCause, ServedWhatWasNamed
<1>6. QED
  BY <1>2, <1>3, <1>4, <1>5 DEF IInv

(* The argument loses its leading slashes.                                 *)
LEMMA SkipSlashesKeeps ==
  ASSUME IInv, SkipSlashes
  PROVE  IInv'
<1>1. CASE request_path[1] # "/"
  <2>1. Explains("EINVAL", "EINVAL")
    BY DEF Explains, Causes
  <2>2. QED
    BY <1>1, <2>1, FailKeeps DEF SkipSlashes
<1>2. CASE request_path[1] = "/"
  <2> USE DEF names
  <2>1. /\ pc = "start" /\ pc' = "openat2"
        /\ relative_path' = RelativePath(request_path)
        /\ Calm /\ fd' = fd /\ opening' = opening
    BY <1>2 DEF SkipSlashes, Calm
  <2>2. relative_path' \in RelativePaths
    BY <2>1 DEF IInv, TypeOK, RelativePaths
  <2>3. TypeOK'
    BY <2>1, <2>2 DEF IInv, TypeOK, Calm
  <2>4. Stage'
    BY <2>1 DEF IInv, Stage, Calm
  <2>5. Found'
    BY <2>1 DEF IInv, Found, Calm, NamedIn, IndexPairs
  <2>6. OneRegularDescriptor' /\ ErrnoTellsTheCause' /\ ServedWhatWasNamed'
    BY <2>1 DEF OneRegularDescriptor, ErrnoTellsTheCause, ServedWhatWasNamed
  <2>7. QED
    BY <2>3, <2>4, <2>5, <2>6 DEF IInv
<1>3. QED
  BY <1>1, <1>2

(* The path is looked up: what it names now is one of the named objects.   *)
LEMMA LookupKeeps ==
  ASSUME IInv, Lookup
  PROVE  IInv'
<1> DEFINE e == entry[relative_path]
<1>1. CASE Resolved(e, "open")
  <2>1. e \in NamedIn(entry)
    BY <1>1 DEF Lookup, IInv, Found, NamedIn, Resolved
  <2>2. e \in named
    BY <2>1 DEF IInv, Found
  <2>3. QED
    BY <1>1, <2>2, ResolvedKeeps DEF Lookup
<1>2. CASE e \in LookupErrors /\ FailWith(e, ReportedErrno(e))
  BY <1>2, LookupErrorExplained, FailKeeps DEF Lookup
<1>3. QED
  BY <1>1, <1>2 DEF Lookup

(* index.html is looked up in the directory that is open.                  *)
LEMMA LookupIndexKeeps ==
  ASSUME IInv, LookupIndex
  PROVE  IInv'
<1> DEFINE e == IndexOf(fd)
<1>1. CASE Resolved(e, "open_index")
  <2>1. fd \in Directories /\ e = index[fd] /\ e \in Objects
    BY <1>1 DEF LookupIndex, IInv, TypeOK, Resolved, IndexOf
  <2>2. e \in IndexObjects
    BY <2>1, FileOpenAssumption DEF IInv, TypeOK, IndexEntries
  <2>3. << fd, e >> \in IndexPairs(index)
    BY <2>1, <2>2 DEF IndexPairs
  <2>4. << fd, e >> \in indexed
    BY <2>3 DEF IInv, Found
  <2>5. QED
    BY <1>1, <2>4, ResolvedKeeps DEF LookupIndex
<1>2. CASE e \in LookupErrors /\ FailWith(e, ReportedErrno(e))
  BY <1>2, LookupErrorExplained, FailKeeps DEF LookupIndex
<1>3. QED
  BY <1>1, <1>2 DEF LookupIndex

(* The object found under the path is opened.                              *)
LEMMA OpenKeeps ==
  ASSUME IInv, Open
  PROVE  IInv'
<1> USE DEF names
<1>1. /\ pc = "open" /\ pc' = "fstat" /\ fd' = opening /\ Calm
      /\ opening' = opening /\ relative_path' = relative_path
  BY DEF Open, Calm
<1>2. TypeOK'
  BY <1>1 DEF IInv, TypeOK, Calm, Descriptors
<1>3. Stage'
  BY <1>1 DEF IInv, Stage, Calm
<1>4. Found'
  BY <1>1 DEF IInv, Found, Calm, NamedIn, IndexPairs
<1>5. OneRegularDescriptor' /\ ErrnoTellsTheCause' /\ ServedWhatWasNamed'
  BY <1>1 DEF OneRegularDescriptor, ErrnoTellsTheCause, ServedWhatWasNamed
<1>6. QED
  BY <1>2, <1>3, <1>4, <1>5 DEF IInv

(* index.html is opened and its directory closed.                          *)
LEMMA OpenIndexKeeps ==
  ASSUME IInv, OpenIndex
  PROVE  IInv'
<1> USE DEF names
<1>1. /\ pc = "open_index" /\ pc' = "fstat_index"
      /\ index_fd' = opening /\ fd' = Closed /\ file' = file
      /\ cause' = cause /\ opening' = opening
      /\ relative_path' = relative_path
      /\ UNCHANGED << names, request_path, named, indexed >>
  BY DEF OpenIndex
<1>2. TypeOK'
  BY <1>1 DEF IInv, TypeOK, Descriptors
<1>3. Stage'
  BY <1>1 DEF IInv, Stage
<1>4. \E d \in named' \cap Directories : << d, index_fd' >> \in indexed'
  BY <1>1 DEF IInv, TypeOK, Found
<1>5. Found'
  BY <1>1, <1>4 DEF IInv, Found, NamedIn, IndexPairs
<1>6. OneRegularDescriptor' /\ ErrnoTellsTheCause' /\ ServedWhatWasNamed'
  BY <1>1 DEF OneRegularDescriptor, ErrnoTellsTheCause, ServedWhatWasNamed
<1>7. QED
  BY <1>2, <1>3, <1>5, <1>6 DEF IInv

(* What was opened is examined: a regular file is returned, a directory    *)
(* leads to its index.html, anything else is refused.                      *)
LEMMA FstatKeeps ==
  ASSUME IInv, Fstat
  PROVE  IInv'
<1>1. Explains("not regular", "EACCES")
  BY FileOpenAssumption DEF Explains, Causes
<1>2. CASE S_ISREG(fd) /\ Succeed("fd", fd)
  BY <1>2, SucceedKeeps DEF Fstat
<1>3. CASE S_ISDIR(fd) /\ pc' = "openat2_index" /\ UNCHANGED locals
  <2> USE DEF names, locals
  <2>1. /\ pc = "fstat" /\ pc' = "openat2_index" /\ Calm /\ fd' = fd
        /\ opening' = opening /\ relative_path' = relative_path
    BY <1>3 DEF Fstat, Calm
  <2>2. fd \in Directories
    BY <1>3, <2>1 DEF IInv, TypeOK, S_ISDIR, Directories
  <2>3. TypeOK'
    BY <2>1, <2>2 DEF IInv, TypeOK, Calm
  <2>4. Stage'
    BY <2>1 DEF IInv, Stage, Calm
  <2>5. Found'
    BY <2>1 DEF IInv, Found, Calm, NamedIn, IndexPairs
  <2>6. OneRegularDescriptor' /\ ErrnoTellsTheCause' /\ ServedWhatWasNamed'
    BY <2>1 DEF OneRegularDescriptor, ErrnoTellsTheCause, ServedWhatWasNamed
  <2>7. QED
    BY <2>3, <2>4, <2>5, <2>6 DEF IInv
<1>4. CASE FailWith("not regular", "EACCES")
  BY <1>1, <1>4, FailKeeps DEF Fstat
<1>5. QED
  BY <1>2, <1>3, <1>4 DEF Fstat

(* index.html is examined; only a regular file is returned.                *)
LEMMA FstatIndexKeeps ==
  ASSUME IInv, FstatIndex
  PROVE  IInv'
<1>1. Explains("not regular", "EACCES")
  BY FileOpenAssumption DEF Explains, Causes
<1>2. CASE S_ISREG(index_fd) /\ Succeed("index_fd", index_fd)
  BY <1>2, SucceedKeeps DEF FstatIndex
<1>3. CASE FailWith("not regular", "EACCES")
  BY <1>1, <1>3, FailKeeps DEF FstatIndex
<1>4. QED
  BY <1>2, <1>3 DEF FstatIndex

(* A system call fails for a reason that has nothing to do with the path.  *)
LEMMA FailuresKeep ==
  ASSUME IInv, OpenFails \/ FstatFails
  PROVE  IInv'
<1>1. /\ Explains("EMFILE", ReportedErrno("EMFILE"))
      /\ Explains("EOVERFLOW", "EOVERFLOW")
  BY DEF Explains, Causes, ReportedErrno
<1>2. QED
  BY <1>1, FailKeeps DEF OpenFails, FstatFails

-----------------------------------------------------------------------------
(* The theorems                                                            *)

(* The invariant holds in every reachable state.                           *)
LEMMA Invariance == Spec => []IInv
<1>1. Init => IInv
  BY InitIInv
<1>2. IInv /\ [Next]_vars => IInv'
  <2> SUFFICES ASSUME IInv, [Next]_vars PROVE IInv'
    OBVIOUS
  <2>1. CASE EntryChanges \/ IndexChanges \/ WriterOpens
    BY <2>1, EnvironmentKeeps
  <2>2. CASE Step
    BY <2>2, SkipSlashesKeeps, LookupKeeps, OpenKeeps, FstatKeeps,
       LookupIndexKeeps, OpenIndexKeeps, FstatIndexKeeps DEF Step
  <2>3. CASE OpenFails \/ FstatFails
    BY <2>3, FailuresKeep
  <2>4. CASE UNCHANGED vars
    <3> USE <2>4 DEF vars, names, locals
    <3>1. TypeOK' /\ Stage'
      BY DEF IInv, TypeOK, Stage
    <3>2. Found'
      BY DEF IInv, Found, NamedIn, IndexPairs
    <3>3. OneRegularDescriptor' /\ ServedWhatWasNamed' /\ ErrnoTellsTheCause'
      BY DEF IInv, OneRegularDescriptor, ErrnoTellsTheCause,
             ServedWhatWasNamed, Served
    <3>4. QED
      BY <3>1, <3>2, <3>3 DEF IInv
  <2>5. QED
    BY <2>1, <2>2, <2>3, <2>4 DEF Next
<1>3. QED
  BY <1>1, <1>2, PTL DEF Spec

(* Type correctness; no system call is made on a descriptor that is not    *)
(* open, and index.html is looked up only in a directory.                  *)
THEOREM TypeCorrect == Spec => []TypeOK
<1>1. IInv => TypeOK
  BY DEF IInv
<1>2. QED
  BY Invariance, <1>1, PTL

(* Whatever fails, and whatever other processes rename, file_open_path     *)
(* leaves no descriptor but the one it returns, which is a regular file of *)
(* the size it reports.                                                    *)
THEOREM NoDescriptorForgotten == Spec => []OneRegularDescriptor
<1>1. IInv => OneRegularDescriptor
  BY DEF IInv
<1>2. QED
  BY Invariance, <1>1, PTL

(* The file returned was named by the request during the call.             *)
THEOREM NamedFileServed == Spec => []ServedWhatWasNamed
<1>1. IInv => ServedWhatWasNamed
  BY DEF IInv
<1>2. QED
  BY Invariance, <1>1, PTL

(* errno survives the cleanup and tells 404 from 403 from the rest.        *)
THEOREM ErrnoSurvivesCleanup == Spec => []ErrnoTellsTheCause
<1>1. IInv => ErrnoTellsTheCause
  BY DEF IInv
<1>2. QED
  BY Invariance, <1>1, PTL

=============================================================================
