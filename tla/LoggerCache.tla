------------------------------ MODULE LoggerCache ------------------------------
(***************************************************************************)
(* Which directory a log call writes to: the base path, the last logger,   *)
(* the logger of one call, the list of loggers of the request and the      *)
(* directories made for them (src/src/Logger.c, make_log_dir of            *)
(* src/src/Appender.c, setLogger, setBasePath and setFilePrefix of         *)
(* src/seaslog.c), with the appender FILE.                                 *)
(*                                                                         *)
(* A logger is the sequence of its names between slashes, a directory is a *)
(* base path and such a sequence. The hashes of loggers are taken to be    *)
(* distinct, and none is 0.                                                *)
(***************************************************************************)
EXTENDS Naturals, Sequences, SequencesExt

CONSTANTS
  Bases,         \* base paths
  Loggers,       \* logger names
  DefaultBase,   \* seaslog.default_basepath
  DefaultLogger, \* seaslog.default_logger
  Disting        \* values of seaslog.disting_folder

ASSUME DefaultsAssumption == DefaultBase \in Bases /\ DefaultLogger \in Loggers
ASSUME LoggersAssumption ==
  << >> \notin Loggers /\ \A l \in Loggers : l \in Seq(Range(l))
ASSUME DistingAssumption == Disting \subseteq BOOLEAN

VARIABLES
  distingFolder, \* seaslog.disting_folder
  basePath,      \* SEASLOG_G(base_path)
  last,          \* SEASLOG_G(last_logger)
  tmp,           \* SEASLOG_G(tmp_logger)
  list,          \* SEASLOG_G(logger_list): the path and access of a logger
  dirs,          \* the directories that exist
  current,       \* history: the logger the script set last
  firstBase,     \* history: the base path when a logger entered the list
  excused,       \* history: the directories refused or removed in this request
  use            \* history: what the step did, if it was a log call

vars == <<distingFolder, basePath, last, tmp, list, dirs, current, firstBase,
          excused, use>>

NoLogger == << >>  \* the hash 0 and the name NULL of a fresh entry
NoUse == [asked |-> NoLogger, path |-> <<DefaultBase, NoLogger>>,
          base |-> DefaultBase, missing |-> FALSE]

Entry(l, hash, path, access) ==
  [logger |-> l, hash |-> hash, path |-> path, access |-> access]
FreshTmp == Entry(NoLogger, NoLogger, <<DefaultBase, NoLogger>>, TRUE)

\* The directory and those it lies in, and those that lie in it.
Above(d) == {<<d[1], SubSeq(d[2], 1, n)>> : n \in 0..Len(d[2])}
Below(d, ds) == {e \in ds : e[1] = d[1] /\ IsPrefix(d[2], e[2])}

\* A directory excuses those in it, which are forgotten then.
Excuse(d, ds) ==
  IF Above(d) \cap ds # {} THEN ds ELSE {d} \cup (ds \ Below(d, ds))

\* Where the log file of a path is: basePath/logger/<date>.log, or
\* basePath/logger_<date>.log.
FileDir(path) == IF distingFolder THEN path ELSE <<path[1], Front(path[2])>>

-----------------------------------------------------------------------------
(* make_log_dir: the missing directories from the top down, which may stop *)
(* at any of them.                                                         *)
MakeDir(d, before) ==
  \/ dirs' = dirs \cup Above(d) /\ excused' = before
  \/ /\ d \notin dirs
     /\ \E e \in Above(d) \ dirs :
          dirs' = dirs \cup (Above(e) \ {e})
     /\ excused' = Excuse(d, before)

\* Without disting_folder only the base path is made, whatever slashes the
\* name of the last logger has.
DefaultDir(path) == IF distingFolder THEN path ELSE <<path[1], << >>>>

\* seaslog_init_default_last_logger, after the base path was set.
InitDefaultLastLogger(base) ==
  LET d == DefaultDir(<<base, last.logger>>) IN
  /\ MakeDir(d, excused)
  /\ last' = [last EXCEPT !.path = <<base, last.logger>>, !.access = d \in dirs']

-----------------------------------------------------------------------------
(* process_logger: a new logger gets its path and directory now, a listed  *)
(* one keeps those it got then.                                            *)

Known(entry, l) == entry.hash = l \/ l \in DOMAIN list

Put(f, l, x) == [m \in DOMAIN f \cup {l} |-> IF m = l THEN x ELSE f[m]]

NewRow(l, d) == [path |-> <<basePath, l>>, access |-> d \in dirs']

\* Seeded fault: a listed logger is not given its directory again, nor is a
\* new one that comes with a call.
EnterList_NoDir(entry, l) ==
  LET d == FileDir(<<basePath, l>>) IN
  IF Known(entry, l) THEN UNCHANGED <<list, firstBase, dirs, excused>>
  ELSE /\ IF entry = last THEN MakeDir(d, excused) ELSE UNCHANGED <<dirs, excused>>
       /\ list' = Put(list, l, [NewRow(l, d) EXCEPT !.access = TRUE])
       /\ firstBase' = Put(firstBase, l, basePath)

\* Seeded fault: a logger without a directory is not listed.
EnterList_OnSuccess(entry, l) ==
  LET d == FileDir(<<basePath, l>>) IN
  IF Known(entry, l) THEN UNCHANGED <<list, firstBase, dirs, excused>>
  ELSE /\ MakeDir(d, excused)
       /\ IF d \in dirs'
            THEN /\ list' = Put(list, l, NewRow(l, d))
                 /\ firstBase' = Put(firstBase, l, basePath)
            ELSE UNCHANGED <<list, firstBase>>

EnterList(entry, l) ==
  LET d == FileDir(<<basePath, l>>) IN
  IF Known(entry, l) THEN UNCHANGED <<list, firstBase, dirs, excused>>
  ELSE /\ MakeDir(d, excused)
       /\ list' = Put(list, l, NewRow(l, d))
       /\ firstBase' = Put(firstBase, l, basePath)

\* The entry after process_logger.
Processed(entry, l) ==
  IF entry.hash = l THEN entry
  ELSE IF l \in DOMAIN list THEN Entry(l, l, list[l].path, list[l].access)
  ELSE Entry(l, l, <<basePath, l>>, FileDir(<<basePath, l>>) \in dirs')

-----------------------------------------------------------------------------
(* Requests *)

\* The first RINIT, where no directory is there yet.
Init ==
  /\ distingFolder \in Disting
  /\ basePath = DefaultBase
  /\ LET path == <<DefaultBase, DefaultLogger>>
         d == DefaultDir(path)
     IN \/ /\ dirs = Above(d) /\ excused = {}
           /\ last = Entry(DefaultLogger, NoLogger, path, TRUE)
        \/ /\ \E e \in Above(d) : dirs = Above(e) \ {e}
           /\ excused = {d}
           /\ last = Entry(DefaultLogger, NoLogger, path, FALSE)
  /\ tmp = FreshTmp
  /\ list = << >>
  /\ current = DefaultLogger /\ firstBase = << >> /\ use = NoUse

\* What RINIT sets, beside the list of loggers.
RequestInit ==
  /\ basePath' = DefaultBase
  /\ LET path == <<DefaultBase, DefaultLogger>> IN
     /\ MakeDir(DefaultDir(path), {})
     /\ last' = Entry(DefaultLogger, NoLogger, path, DefaultDir(path) \in dirs')
  /\ tmp' = FreshTmp
  /\ current' = DefaultLogger /\ firstBase' = << >> /\ use' = NoUse
  /\ UNCHANGED distingFolder

\* Seeded fault: RSHUTDOWN keeps the list for the next request.
NextRequest_KeepsList == RequestInit /\ UNCHANGED list

\* RSHUTDOWN, and the RINIT of the next request.
NextRequest == RequestInit /\ list' = << >>

SetBasePath(b) ==
  /\ basePath' = b
  /\ InitDefaultLastLogger(b)
  /\ use' = NoUse
  /\ UNCHANGED <<distingFolder, tmp, list, current, firstBase>>

SetFilePrefix ==
  /\ InitDefaultLastLogger(basePath)
  /\ use' = NoUse
  /\ UNCHANGED <<distingFolder, basePath, tmp, list, current, firstBase>>

SetLogger(l) ==
  /\ current' = l
  /\ IF last.logger = l THEN UNCHANGED <<last, list, firstBase, dirs, excused>>
     ELSE /\ EnterList(last, l)
          /\ last' = Processed(last, l)
  /\ use' = NoUse
  /\ UNCHANGED <<distingFolder, basePath, tmp>>

-----------------------------------------------------------------------------
(* Log calls *)

\* What a call writes to, given the directories after it.
Used(asked, entry) ==
  [asked |-> asked, path |-> entry.path, base |-> basePath,
   missing |-> FileDir(entry.path) \notin dirs']

\* seaslog_log_ex without a logger of its own
Log ==
  /\ UNCHANGED <<distingFolder, basePath, last, tmp, list, dirs, current,
                 firstBase, excused>>
  /\ use' = Used(current, last)

\* Seeded fault: the logger of one call becomes the last logger.
LogTo_Last(l) ==
  /\ EnterList(last, l)
  /\ last' = Processed(last, l)
  /\ use' = Used(l, last')
  /\ UNCHANGED <<distingFolder, basePath, tmp, current>>

\* seaslog_log_ex with the logger l
LogTo(l) ==
  /\ EnterList(tmp, l)
  /\ tmp' = Processed(tmp, l)
  /\ use' = Used(l, tmp')
  /\ UNCHANGED <<distingFolder, basePath, last, current>>

\* An administrator removes a directory with all that is in it.
RemoveDir(d) ==
  /\ d \in dirs
  /\ dirs' = dirs \ Below(d, dirs)
  /\ excused' = Excuse(d, excused)
  /\ use' = NoUse
  /\ UNCHANGED <<distingFolder, basePath, last, tmp, list, current, firstBase>>

-----------------------------------------------------------------------------
Next ==
  \/ NextRequest \/ SetFilePrefix \/ Log
  \/ \E b \in Bases : SetBasePath(b)
  \/ \E l \in Loggers : SetLogger(l) \/ LogTo(l)
  \/ \E d \in dirs : RemoveDir(d)

Spec == Init /\ [][Next]_vars

-----------------------------------------------------------------------------
(* Properties *)

Names == Loggers \cup {NoLogger}
Paths == Bases \X Names

\* An entry is the one its hash says, and a hash is one the list knows.
TypeOK ==
  /\ distingFolder \in Disting /\ basePath \in Bases
  /\ \A e \in {last, tmp} :
       /\ e.logger \in Names /\ e.hash \in Names /\ e.path \in Paths
       /\ e.hash # NoLogger => e.hash = e.logger /\ e.hash \in DOMAIN list
  /\ DOMAIN list \subseteq Loggers /\ DOMAIN firstBase = DOMAIN list
  /\ \A l \in DOMAIN list : list[l].path \in Paths /\ firstBase[l] \in Bases
  /\ \A d \in dirs : d[1] \in Bases /\ Above(d) \subseteq dirs
  /\ current \in Loggers

\* README: "You can temporarily specify a logger for the current operation
\* without changing the value of the getLastLogger method." Whatever was set,
\* used for one call and cached before, a log call goes to the logger it
\* names, and one that names none to the logger set last.
RightLogger == use.path[2] = use.asked

\* A call whose logger was resolved under one base path and that comes after
\* setBasePath may still use the old base path; no other base path, and none
\* of an earlier request, is ever used.
BaseOfFirstUse ==
  \/ use.path[1] = use.base
  \/ use.asked \in DOMAIN firstBase /\ use.path[1] = firstBase[use.asked]

\* README: after setBasePath and setLogger "the logger path has be all
\* ready": the directory of a log file is there when the file is opened,
\* unless it, or one that it lies in, was refused or removed during this
\* request. Without disting_folder setBasePath makes the base path only: a
\* logger whose name has a slash is promised this below the base path of its
\* first use, and not below one set later.
PathReady ==
  /\ use.missing
  /\ \/ distingFolder \/ Len(use.path[2]) = 1
     \/ use.asked \in DOMAIN firstBase /\ use.path[1] = firstBase[use.asked]
  => Above(FileDir(use.path)) \cap excused # {}

\* get_type_count answers 0 without looking when last_logger has no access:
\* only after the directory was refused in this request.
NoAccessOnlyIfRefused ==
  ~last.access => Above(FileDir(last.path)) \cap excused # {}
=============================================================================
