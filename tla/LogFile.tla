------------------------------ MODULE LogFile ------------------------------
(***************************************************************************)
(* The file of the AsyncLogWorker (src/Asynclogworker.cpp): what its       *)
(* background thread does to open, write, rotate and change it, one step   *)
(* for each call that changes the disk, and what can come in between: the  *)
(* end of the process, and other programs that hold a log.                 *)
(*                                                                         *)
(* At a path, slot 0 is the file x.log and slot s the file x<s>.log.  A    *)
(* log is the number it was created as; of its content only whether it is  *)
(* past the size that asks for a rotation is kept.                         *)
(***************************************************************************)
EXTENDS Integers

CONSTANTS Paths,        \* directory and prefix of a log file
          BadPaths,     \* those where no file can be created
          Home,         \* the one a worker is started with
          MaxFiles,     \* max_files_to_rotate
          MaxRetries,   \* MAX_LOG_FILE_ROTATE_RETRIES
          MaxLogs,      \* bound: logs created
          Holds         \* how other programs may hold a log

ASSUME PathsAssumption == BadPaths \subseteq Paths /\ Home \in Paths
ASSUME LimitsAssumption == /\ MaxFiles \in Nat /\ MaxFiles >= 1
                           /\ MaxRetries \in Nat /\ MaxLogs \in Nat
ASSUME HoldsAssumption == Holds \subseteq {"shared", "exclusive"}

Slots == 0..MaxFiles
Logs == Nat \ {0}
NoLog == 0

VARIABLES
    \* the disk: the log in each slot, the number of logs created, those
    \* past the size limit, and what another program holds
    disk, created, big, held,
    \* AsyncLogWorkerImpl: the log its stream has open, log_file_path_ with
    \* log_file_name_, and change_log_file_retry
    outptr_, is_logging_started, log_file, change_log_file_retry,
    \* the background thread: its place, the loop counter of
    \* createLogFileName, the arguments of openFile and who called it
    pc, i, target, rotate, caller

files   == <<disk, created, big>>
stream  == <<outptr_, is_logging_started, log_file, change_log_file_retry>>
opening == <<i, target, rotate, caller>>
vars    == <<files, held, stream, pc, opening>>

Init == /\ disk = [p \in Paths |-> [s \in Slots |-> NoLog]]
        /\ created = 0
        /\ big = {}
        /\ held = {}
        /\ outptr_ = NoLog
        /\ is_logging_started = FALSE
        /\ log_file = Home
        /\ change_log_file_retry = 0
        /\ pc = "off"
        /\ i = 1 /\ target = Home /\ rotate = FALSE /\ caller = "start"

(* An operation may create two logs, one of them in the fallback.          *)
Room == created + 2 <= MaxLogs

-----------------------------------------------------------------------------
(* The file system.  A log that another program holds can be opened if it  *)
(* is shared, and cannot be removed or renamed; nor can one that the       *)
(* worker itself has open.                                                 *)
In(s) == disk[target][s]

Opens(s) == In(s) # NoLog /\ <<In(s), "exclusive">> \notin held
Moves(s) == /\ In(s) # NoLog
            /\ In(s) # outptr_
            /\ \A h \in held : h[1] # In(s)

(* Mutant: a rename that replaces the file of the new name.                *)
MutRenameReplaces(from, to) ==
    IF Moves(from) /\ (In(to) = NoLog \/ Moves(to))
    THEN [disk EXCEPT ![target][to] = In(from), ![target][from] = NoLog]
    ELSE disk

(* A rename fails where there is a file of the new name.                   *)
Renamed(from, to) ==
    IF Moves(from) /\ In(to) = NoLog
    THEN [disk EXCEPT ![target][to] = In(from), ![target][from] = NoLog]
    ELSE disk

Hold == /\ held = {}                       \* bound: one log at a time
        /\ \E p \in Paths, s \in Slots, how \in Holds :
              /\ disk[p][s] # NoLog
              /\ how = "exclusive" => disk[p][s] # outptr_
              /\ held' = {<<disk[p][s], how>>}
        /\ UNCHANGED <<files, stream, pc, opening>>

Release == /\ held # {}
           /\ held' = {}
           /\ UNCHANGED <<files, stream, pc, opening>>

-----------------------------------------------------------------------------
(* openFile(p, _, r) is called.                                            *)
OpenFile(who, p, r) ==
    /\ caller' = who
    /\ target' = p
    /\ rotate' = r
    /\ i' = 1
    /\ pc' = IF r THEN "search" ELSE "open"

(* backgroundChangeLogFile, up to the first openFile.                      *)
CloseStream == outptr_' = NoLog /\ is_logging_started' = FALSE

(* Mutant: attempts to rotate are not counted.                             *)
MutRotateForEver(log, isBig) ==
    /\ IF isBig
       THEN CloseStream /\ OpenFile("change", log_file, TRUE)
       ELSE pc' = "idle" /\ UNCHANGED <<outptr_, is_logging_started, opening>>
    /\ UNCHANGED <<log_file, change_log_file_retry>>

(* The end of backgroundFileWrite, with log past the size limit or not.    *)
AfterWrite(log, isBig) ==
    /\ IF isBig /\ change_log_file_retry < MaxRetries
       THEN /\ change_log_file_retry' = change_log_file_retry + 1
            /\ CloseStream
            /\ OpenFile("change", log_file, TRUE)
       ELSE /\ pc' = "idle"
            /\ UNCHANGED <<outptr_, is_logging_started, change_log_file_retry, opening>>
    /\ UNCHANGED log_file

-----------------------------------------------------------------------------
(* Jobs, and the life of the process.                                      *)

(* The constructor: it appends to the log there is.                        *)
Start == /\ pc = "off"
         /\ Room
         /\ OpenFile("start", Home, FALSE)
         /\ log_file' = Home
         /\ change_log_file_retry' = 0
         /\ UNCHANGED <<files, held, outptr_, is_logging_started>>

(* The process ends, in order or not, at any moment.                       *)
Exit == /\ pc # "off"
        /\ pc' = "off"
        /\ CloseStream
        /\ log_file' = Home
        /\ change_log_file_retry' = 0
        /\ i' = 1 /\ target' = Home /\ rotate' = FALSE /\ caller' = "start"
        /\ UNCHANGED <<files, held>>

(* Mutant: the size is looked at before the message is written.            *)
MutSizeBefore == /\ pc = "idle"
                 /\ is_logging_started /\ outptr_ # NoLog
                 /\ Room
                 /\ big' \in {big, big \cup {outptr_}}
                 /\ AfterWrite(outptr_, outptr_ \in big)
                 /\ UNCHANGED <<disk, created, held>>

(* backgroundFileWrite(message); without a stream it returns at once.      *)
FileWrite == /\ pc = "idle"
             /\ is_logging_started /\ outptr_ # NoLog
             /\ Room
             /\ \E grown \in {{}, {outptr_}} :
                   /\ big' = big \cup grown
                   /\ AfterWrite(outptr_, outptr_ \in big \cup grown)
             /\ UNCHANGED <<disk, created, held>>

(* The text that begins a file, written by whoever opened it.  It is short.*)
WriteText == /\ pc = "text"
             /\ AfterWrite(outptr_, outptr_ \in big)
             /\ UNCHANGED <<files, held>>

(* The job of changeLogFile(p, r).                                         *)
ChangeLogFile(p, r) ==
    /\ pc = "idle"
    /\ Room
    /\ CloseStream
    /\ OpenFile("change", p, r)
    /\ UNCHANGED <<files, held, log_file, change_log_file_retry>>

-----------------------------------------------------------------------------
(* i after the search of the first n slots: one above the first that does  *)
(* not open, or n + 1.                                                     *)
EndOfSearch(n) == {m \in 1..(n + 1) : /\ \A s \in 0..(m - 2) : Opens(s)
                                      /\ m <= n => ~Opens(m - 1)}

(* Mutant: the search does not go far enough.                              *)
MutSearchTooShort ==
    /\ pc = "search"
    /\ i' \in EndOfSearch(MaxFiles - 1)
    /\ pc' = "shift"
    /\ UNCHANGED <<files, held, stream, target, rotate, caller>>

(* createLogFileName with rotate_existing_log.  Its search does not write: *)
(* it is one step.                                                         *)
Search ==
    /\ pc = "search"
    /\ i' \in EndOfSearch(MaxFiles)
    /\ pc' = "shift"
    /\ UNCHANGED <<files, held, stream, target, rotate, caller>>

(* while ((i - 2) > 0): remove file2, then rename file1 to file2.          *)
Remove ==
    /\ pc = "shift" /\ i > 2
    /\ IF Opens(i - 2)
       THEN /\ pc' = "rename"
            /\ UNCHANGED i
            /\ disk' = IF Opens(i - 1) /\ Moves(i - 1)
                       THEN [disk EXCEPT ![target][i - 1] = NoLog] ELSE disk
       ELSE i' = i - 1 /\ UNCHANGED <<pc, disk>>
    /\ UNCHANGED <<created, big, held, stream, target, rotate, caller>>

Rename == /\ pc = "rename"
          /\ disk' = Renamed(i - 2, i - 1)
          /\ i' = i - 1
          /\ pc' = "shift"
          /\ UNCHANGED <<created, big, held, stream, target, rotate, caller>>

RenameFirst == /\ pc = "shift" /\ i <= 2
               /\ disk' = Renamed(0, 1)
               /\ pc' = "open"
               /\ UNCHANGED <<created, big, held, stream, opening>>

-----------------------------------------------------------------------------
(* Mutant: the path that was changed to is not remembered.                 *)
MutForgetPath == /\ outptr_' = In(0)
                 /\ is_logging_started' = TRUE
                 /\ pc' = IF caller = "fallback" THEN "idle" ELSE "text"
                 /\ UNCHANGED <<log_file, change_log_file_retry, opening>>

(* What the callers of openFile do with a stream, and without one.  Only a *)
(* change tries again, with the file that was there before.                *)
Opened == /\ outptr_' = In(0)
          /\ is_logging_started' = TRUE
          /\ log_file' = IF caller = "change" THEN target ELSE log_file
          /\ pc' = IF caller = "fallback" THEN "idle" ELSE "text"
          /\ UNCHANGED <<change_log_file_retry, opening>>

NotOpened == /\ IF caller = "change"
                THEN OpenFile("fallback", log_file, rotate)
                ELSE pc' = "idle" /\ UNCHANGED opening
             /\ UNCHANGED stream

(* openLogFile: open, or else create and open.                             *)
OpenLog ==
    /\ pc = "open"
    /\ \/ Opens(0) /\ Opened
       \/ ~Opens(0) /\ pc' = "create" /\ UNCHANGED <<stream, opening>>
    /\ UNCHANGED <<files, held>>

(* Opening with trunc: what cannot be opened a moment ago may be opened    *)
(* now, and is emptied, which is the end of that log.                      *)
CreateLog ==
    /\ pc = "create"
    /\ pc' = "reopen"
    /\ IF target \notin BadPaths /\ (In(0) = NoLog \/ Opens(0))
       THEN /\ created' = created + 1
            /\ disk' = [disk EXCEPT ![target][0] = created + 1]
            /\ held' = {h \in held : h[1] # In(0)}
       ELSE UNCHANGED <<disk, created, held>>
    /\ UNCHANGED <<big, stream, opening>>

ReopenLog ==
    /\ pc = "reopen"
    /\ \/ Opens(0) /\ Opened
       \/ ~Opens(0) /\ NotOpened
    /\ UNCHANGED <<files, held>>

-----------------------------------------------------------------------------
Rotation == Search \/ Remove \/ Rename \/ RenameFirst
Opening  == OpenLog \/ CreateLog \/ ReopenLog
Job == FileWrite \/ \E p \in Paths, r \in BOOLEAN : ChangeLogFile(p, r)

Next == \/ Start \/ Exit
        \/ Job \/ WriteText
        \/ Rotation \/ Opening
        \/ Hold \/ Release

Spec == Init /\ [][Next]_vars

(* The background thread goes on with the job it has begun.                *)
FairSpec == Spec /\ WF_vars(WriteText \/ Rotation \/ Opening)

-----------------------------------------------------------------------------
FilesOK == /\ disk \in [Paths -> [Slots -> {NoLog} \cup Logs]]
           /\ created \in Nat
           /\ big \subseteq Logs
           /\ held \subseteq Logs \X Holds

StreamOK == /\ outptr_ \in {NoLog} \cup Logs
            /\ is_logging_started \in BOOLEAN
            /\ log_file \in Paths
            /\ change_log_file_retry \in 0..MaxRetries

OpeningOK == /\ pc \in {"off", "idle", "text", "search", "shift", "rename",
                        "open", "create", "reopen"}
             /\ i \in 1..(MaxFiles + 1)
             /\ target \in Paths
             /\ rotate \in BOOLEAN
             /\ caller \in {"start", "change", "fallback"}

(* Values of the state.                                                    *)
TypeOK == FilesOK /\ StreamOK /\ OpeningOK

(* Numbered logs, through crashes between any two steps of a rotation: a   *)
(* log is lost only when every slot was taken, and it is the oldest.       *)
LogsAt(p) == {disk[p][s] : s \in Slots} \ {NoLog}
Rotated == INSTANCE RotatedLogs
               WITH Capacity <- MaxFiles + 1, kept <- [p \in Paths |-> LogsAt(p)]
ImplementsRotatedLogs == Rotated!Spec

(* As long as there are rotations left, no file past the size limit is     *)
(* kept open for the next message.                                         *)
BoundedBySize == pc = "idle" /\ outptr_ \in big => change_log_file_retry = MaxRetries

(* What is written goes to the newest log of the path the worker would     *)
(* rotate, and the higher the slot, the older the log.                     *)
Ordered == \A p \in Paths, s, t \in Slots :
              s < t /\ disk[p][s] # NoLog => disk[p][t] < disk[p][s]
StreamIsCurrent == /\ outptr_ # NoLog => outptr_ = disk[log_file][0]
                   /\ Ordered

(* Whatever other programs do to renames, the two newest logs of a path    *)
(* are never the ones that are given up.                                   *)
NewestSurvive ==
    [][\A p \in Paths : \A log \in LogsAt(p) \ LogsAt(p)' :
          \E newer, newest \in LogsAt(p)' : log < newer /\ newer < newest]_vars

(* The background thread comes back for its next job: a log that cannot be *)
(* rotated does not have it rotate for ever.                               *)
BackgroundReturns == pc # "idle" ~> pc \in {"idle", "off"}

-----------------------------------------------------------------------------
(* What comments of the code say, and the code does not do.                *)

(* Asynclogworker.cpp:371, "append logs to the existing log file": opening *)
(* the file leaves the log that is in it.                                  *)
ExistingLogIsAppended ==
    [][\A log \in LogsAt(target) : pc \in {"open", "create", "reopen"} /\ In(0) = log
          => disk[target][0]' = log]_vars
=============================================================================
