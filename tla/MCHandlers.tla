---------------------------- MODULE MCHandlers ----------------------------
(***************************************************************************)
(* The parts of mongoose that use what outlives a request, files,          *)
(* descriptors, processes and memory: MgFiles, MgCgi, MgCgiEnv, MgStart,   *)
(* MgPasswords, MgDirectory and MgLog, with TLC's values and the failures  *)
(* that each of them models.  They share nothing, so one run checks all: a *)
(* behaviour is one of the part that "what" names, and the variables of    *)
(* the others are Blank.                                                   *)
(***************************************************************************)
EXTENDS Integers, Sequences, SequencesExt, TLC

CONSTANTS
  Workers,
  Sent, Ranged, New,                                      \* three times MgFiles'
  Programs, BodySize, OutputSize, PipeSize, FaultBudget,  \* MgCgi's
  Size, MaxVars, Strings, MaxAdded,                       \* MgCgiEnv's
  PortLists, AclLists, Bits, Ports, MaxOptions,           \* MgStart's
  Users, Passwords, Originals, MaxCalls,                  \* MgPasswords'
  Names, Dirs, Hidden, Numbers, Queries, ArraySize,       \* MgDirectory's
  Pieces, StreamSize, MaxLines                            \* MgLog's

VARIABLES
  what,  \* the part of the server that runs
  pc, out, read, failed,  \* of several parts
  now, requests, dir, name, data, mtime, req, st, fp, cl, sent, status, taken, stored,
  cache, excused, seen,
  method, program, open, locals, child, held, in, posted, written, responses, misclosed,
  forkFailed, faults,
  buf, len, vars, nvars, kept,
  config, given, list, listening, fds, heap, callbacks, uid,
  file, tmp, user, pass, at, found, before, short, lost, calls,
  stat, query, entries, strings, arr_size, allocated, printed,
  log, line, left, size, buffer

filesVars == <<now, requests, dir, name, data, mtime, req, st, fp, cl, sent, status,
               taken, stored, cache, excused, seen>>
cgiVars == <<method, program, open, locals, child, held, in, posted, written, responses,
             misclosed, forkFailed, faults>>
envVars == <<buf, len, vars, nvars, kept>>
startVars == <<config, given, list, listening, fds, heap, callbacks, uid>>
passwordsVars == <<file, tmp, user, pass, at, found, before, short, lost, calls>>
directoryVars == <<stat, query, entries, strings, arr_size, allocated, printed>>
logVars == <<log, line, left, size, buffer>>
allVars == <<what, pc, out, read, failed, filesVars, cgiVars, envVars, startVars,
             passwordsVars, directoryVars, logVars>>

\* of the parts that do not run
Blank == "-"

NoFiles ==
  /\ now = Blank /\ requests = Blank /\ dir = Blank /\ name = Blank /\ data = Blank
  /\ mtime = Blank /\ req = Blank /\ st = Blank /\ fp = Blank /\ cl = Blank
  /\ sent = Blank /\ status = Blank /\ taken = Blank /\ stored = Blank /\ cache = Blank
  /\ excused = Blank /\ seen = Blank
NoCgi ==
  /\ method = Blank /\ program = Blank /\ open = Blank /\ locals = Blank
  /\ child = Blank /\ held = Blank /\ in = Blank /\ posted = Blank /\ written = Blank
  /\ responses = Blank /\ misclosed = Blank /\ forkFailed = Blank /\ faults = Blank
NoEnv ==
  /\ buf = Blank /\ len = Blank /\ vars = Blank /\ nvars = Blank /\ kept = Blank
NoStart ==
  /\ config = Blank /\ given = Blank /\ list = Blank /\ listening = Blank /\ fds = Blank
  /\ heap = Blank /\ callbacks = Blank /\ uid = Blank
NoPasswords ==
  /\ file = Blank /\ tmp = Blank /\ user = Blank /\ pass = Blank /\ at = Blank
  /\ found = Blank /\ before = Blank /\ short = Blank /\ lost = Blank /\ calls = Blank
NoDirectory ==
  /\ stat = Blank /\ query = Blank /\ entries = Blank /\ strings = Blank
  /\ arr_size = Blank /\ allocated = Blank /\ printed = Blank
NoLog ==
  /\ log = Blank /\ line = Blank /\ left = Blank /\ size = Blank /\ buffer = Blank

-----------------------------------------------------------------------------
(* The parts.                                                              *)

Files == INSTANCE MgFiles WITH
  Methods <- Sent.methods, Ranges <- Sent.ranges, Packed <- Sent.packed,
  Original <- Sent.original, MaxBody <- Sent.body, MaxRequests <- Sent.requests,
  LastTime <- Sent.time, Late <- Sent.late, Day <- Sent.day
Parts == INSTANCE MgFiles WITH
  Methods <- Ranged.methods, Ranges <- Ranged.ranges, Packed <- Ranged.packed,
  Original <- Ranged.original, MaxBody <- Ranged.body, MaxRequests <- Ranged.requests,
  LastTime <- Ranged.time, Late <- Ranged.late, Day <- Ranged.day
NewFile == INSTANCE MgFiles WITH
  Methods <- New.methods, Ranges <- New.ranges, Packed <- New.packed,
  Original <- New.original, MaxBody <- New.body, MaxRequests <- New.requests,
  LastTime <- New.time, Late <- New.late, Day <- New.day
Cgi == INSTANCE MgCgi
CgiEnv == INSTANCE MgCgiEnv
Start == INSTANCE MgStart
Htpasswd == INSTANCE MgPasswords
Directory == INSTANCE MgDirectory WITH Room <- ArraySize
Log == INSTANCE MgLog WITH Room <- StreamSize

ASSUME PartsAssumption ==
  /\ Files!FilesAssumption /\ Parts!FilesAssumption /\ NewFile!FilesAssumption
  /\ Cgi!CgiAssumption /\ CgiEnv!MgCgiEnvAssumption /\ Start!MgStartAssumption
  /\ Htpasswd!MgPasswordsAssumption /\ Directory!MgDirectoryAssumption /\ Log!MgLogAssumption

-----------------------------------------------------------------------------
(* TLC's values.                                                           *)

Symmetry == Permutations(Workers)

\* A file that is sent and stored, one of which ranges are asked, and a new one
Plain == [methods |-> {"GET", "PUT"}, ranges |-> {<<>>}, packed |-> {FALSE},
          original |-> <<8, 9>>, body |-> 2, requests |-> 3, time |-> 3, late |-> {1}, day |-> 1]
InParts == [methods |-> {"GET", "HEAD", "PUT", "DELETE"},
            ranges |-> {<<>>, <<1>>, <<0, 1>>, <<2, 1>>}, packed |-> BOOLEAN,
            original |-> <<7, 8, 9>>, body |-> 1, requests |-> 2, time |-> 2,
            late |-> {}, day |-> 0]
NotThere == [methods |-> {"PUT", "PUT/"}, ranges |-> {<<>>}, packed |-> {FALSE},
             original |-> <<>>, body |-> 1, requests |-> 2, time |-> 2,
             late |-> {}, day |-> 0]

\* more and longer variables than there is room for
SomeStrings == {<<>>, <<"a", "=">>, <<"a", "=", "a">>, <<"-", "a", "=", "-", "a">>}

\* good, wrong and too large ports, and lists of addresses
SomeSpecs == [ip : BOOLEAN, port : {1, 5}, tail : {"none", "s", "x"}]
SomePorts == {<<s>> : s \in SomeSpecs} \union
             {<<[ip |-> FALSE, port |-> 3, tail |-> "none"], s>> : s \in SomeSpecs}
SomeEntries == [flag : {"+", "-", "x"}, net : {0, 1, 2}, slash : 0 .. 2]
SomeAcls == {<<e>> : e \in SomeEntries} \union
            {<<[flag |-> "-", net |-> 0, slash |-> 1], e>> : e \in SomeEntries}

\* files of up to three lines, the last with an end or without
SomeLines == {[user |-> "a", pass |-> "p"], [user |-> "b", pass |-> "q"],
              [user |-> "other", pass |-> "none"]}
SomeFiles == {[lines |-> l, ended |-> TRUE] : l \in BoundedSeq(SomeLines, 3)} \union
             {[lines |-> l, ended |-> FALSE] : l \in BoundedSeq(SomeLines, 2) \ {<<>>}}

\* the columns and directions of a list
SomeQueries == {<<"n", "a">>, <<"n", "d">>, <<"s", "a">>, <<"s", "d">>, <<"d", "a">>, <<"?", "d">>}

-----------------------------------------------------------------------------
(* A behaviour of one of them.                                             *)

Init ==
  \/ what = "files" /\ Files!Init /\ out = Blank /\ read = Blank /\ failed = Blank
     /\ NoCgi /\ NoEnv /\ NoStart /\ NoPasswords /\ NoDirectory /\ NoLog
  \/ what = "ranges" /\ Parts!Init /\ out = Blank /\ read = Blank /\ failed = Blank
     /\ NoCgi /\ NoEnv /\ NoStart /\ NoPasswords /\ NoDirectory /\ NoLog
  \/ what = "new_file" /\ NewFile!Init /\ out = Blank /\ read = Blank /\ failed = Blank
     /\ NoCgi /\ NoEnv /\ NoStart /\ NoPasswords /\ NoDirectory /\ NoLog
  \/ what = "cgi" /\ Cgi!Init /\ failed = Blank
     /\ NoFiles /\ NoEnv /\ NoStart /\ NoPasswords /\ NoDirectory /\ NoLog
  \/ what = "environment" /\ CgiEnv!Init /\ out = Blank /\ read = Blank /\ failed = Blank
     /\ NoFiles /\ NoCgi /\ NoStart /\ NoPasswords /\ NoDirectory /\ NoLog
  \/ what = "start" /\ Start!Init /\ out = Blank /\ read = Blank
     /\ NoFiles /\ NoCgi /\ NoEnv /\ NoPasswords /\ NoDirectory /\ NoLog
  \/ what = "passwords" /\ Htpasswd!Init /\ read = Blank /\ failed = Blank
     /\ NoFiles /\ NoCgi /\ NoEnv /\ NoStart /\ NoDirectory /\ NoLog
  \/ what = "directory" /\ Directory!Init /\ out = Blank
     /\ NoFiles /\ NoCgi /\ NoEnv /\ NoStart /\ NoPasswords /\ NoLog
  \/ what = "log" /\ Log!Init /\ out = Blank /\ read = Blank /\ failed = Blank
     /\ NoFiles /\ NoCgi /\ NoEnv /\ NoStart /\ NoPasswords /\ NoDirectory

OfFiles == /\ what \in {"files", "ranges", "new_file"}
           /\ UNCHANGED <<what, out, read, failed, cgiVars, envVars, startVars, passwordsVars,
                          directoryVars, logVars>>
OfCgi == /\ what = "cgi"
         /\ UNCHANGED <<what, failed, filesVars, envVars, startVars, passwordsVars,
                          directoryVars, logVars>>
OfCgiEnv == /\ what = "environment"
            /\ UNCHANGED <<what, out, read, failed, filesVars, cgiVars, startVars,
                          passwordsVars, directoryVars, logVars>>
OfStart == /\ what = "start"
           /\ UNCHANGED <<what, out, read, filesVars, cgiVars, envVars, passwordsVars,
                          directoryVars, logVars>>
OfPasswords == /\ what = "passwords"
               /\ UNCHANGED <<what, read, failed, filesVars, cgiVars, envVars, startVars,
                          directoryVars, logVars>>
OfDirectory == /\ what = "directory"
               /\ UNCHANGED <<what, out, filesVars, cgiVars, envVars, startVars, passwordsVars,
                          logVars>>
OfLog == /\ what = "log"
         /\ UNCHANGED <<what, out, read, failed, filesVars, cgiVars, envVars, startVars,
                          passwordsVars, directoryVars>>

Next == \/ OfFiles /\ what = "files" /\ Files!Next
        \/ OfFiles /\ what = "ranges" /\ Parts!Next
        \/ OfFiles /\ what = "new_file" /\ NewFile!Next
        \/ OfCgi /\ Cgi!Next
        \/ OfCgiEnv /\ CgiEnv!Next
        \/ OfStart /\ Start!Next
        \/ OfPasswords /\ Htpasswd!Next
        \/ OfDirectory /\ Directory!Next
        \/ OfLog /\ Log!Next

Spec == Init /\ [][Next]_allVars

-----------------------------------------------------------------------------
(* Properties.                                                             *)

(***************************************************************************)
(* When a call fails, at whatever time: no descriptor, process or          *)
(* allocation of a request outlives it, but for a range of a packed file   *)
(* (mongoose.c 2884-2887, 2920, 3410-3431) and the names of a list when    *)
(* memory ends (2721-2723); a server that does not start, or stops, gives  *)
(* everything back, but for the sockets when what comes after them fails   *)
(* (5068-5121, 5173-5184); the password file is the old one or the new one *)
(* wherever the process is stopped, and if remove or rename fails, but for *)
(* a copy of which something was not read or written and for a call that   *)
(* finds only the copy (2478-2539); the array of a directory's entries and *)
(* the environment of a program are never written past their ends          *)
(* (2713-2729, 3150-3170).  The types of MgFiles and MgCgi are part of it. *)
(***************************************************************************)
FailuresLeaveNothing ==
  CASE what = "files"       -> Files!TypeOK /\ Files!FilesAreClosed
    [] what = "ranges"      -> Parts!TypeOK /\ Parts!FilesAreClosed
    [] what = "new_file"    -> NewFile!TypeOK /\ NewFile!FilesAreClosed
    [] what = "cgi"         -> Cgi!TypeOK /\ Cgi!NothingLeftBehind
    [] what = "environment" -> CgiEnv!EnvFits
    [] what = "start"       -> Start!FailureUndoes /\ Start!StopUndoes
    [] what = "passwords"   -> Htpasswd!OldOrNew
    [] what = "directory"   -> Directory!EntriesFit /\ Directory!NamesAreFreed
    [] OTHER                -> TRUE

(***************************************************************************)
(* What the server tells is true, with others at the same file: a file is  *)
(* sent as it was announced, unless it could not be read; a 304 means the  *)
(* client's copy, unless its date was read as a day later (mongoose.c      *)
(* 2856-2919, 3055-3063, 1879-1902); of a PUT that is answered with        *)
(* success every byte is in the file, unless a write failed (3475-3497);   *)
(* there is one status line (3317-3408); a program gets whole variables in *)
(* one block (3156-3173, 3262-3274); the sockets are those of the options  *)
(* and the last matching entry decides (4319-4404, 4451-4474); a list has  *)
(* each shown name once, in an order that qsort can find (2627-2778); and  *)
(* a line of the log is whole (4417-4447, 612-649).                        *)
(***************************************************************************)
AnswersAreTrue ==
  CASE what = "files"       -> /\ Files!SentAsAnnounced /\ Files!NotModifiedIsTrue
                               /\ Files!PutIsStored
    [] what = "ranges"      -> Parts!SentAsAnnounced /\ Parts!PutIsStored
    [] what = "new_file"    -> NewFile!PutIsStored
    [] what = "cgi"         -> Cgi!OneResponse
    [] what = "environment" -> CgiEnv!VariablesAreWhole /\ CgiEnv!BlockIsContiguous
    [] what = "start"       -> Start!ListensAsTold /\ Start!LastMatchDecides
    [] what = "directory"   -> Directory!CompareIsOrder /\ Directory!ListIsDirectory
    [] what = "log"         -> Log!ShortLinesAreWhole /\ Log!LinesAreLogged
    [] OTHER                -> TRUE

=============================================================================
