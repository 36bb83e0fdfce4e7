---------------------------- MODULE LogFileProofs ----------------------------
(***************************************************************************)
(* Proofs about LogFile for any paths, any number of files and retries,    *)
(* and any behaviour of other programs.                                    *)
(***************************************************************************)
EXTENDS LogFile, FiniteSetTheorems, TLAPS

(* Between the test and the rename of a shift, i is still the loop's.      *)
InLoop == pc = "rename" => i > 2

LEMMA TypeInit == Init => TypeOK /\ InLoop
<1> SUFFICES ASSUME Init PROVE TypeOK /\ InLoop
  OBVIOUS
<1>1. FilesOK
  BY DEF Init, FilesOK, NoLog
<1>2. is_logging_started \in BOOLEAN /\ rotate \in BOOLEAN
  BY DEF Init
<1>3. outptr_ = NoLog /\ log_file \in Paths /\ change_log_file_retry \in 0..MaxRetries
  BY PathsAssumption, LimitsAssumption DEF Init
<1>4. pc = "off" /\ i \in 1..(MaxFiles + 1) /\ target \in Paths /\ caller = "start"
  BY PathsAssumption, LimitsAssumption DEF Init
<1>5. StreamOK
  BY <1>2, <1>3 DEF StreamOK
<1>6. OpeningOK /\ InLoop
  BY <1>2, <1>4 DEF OpeningOK, InLoop
<1> QED BY <1>1, <1>5, <1>6 DEF TypeOK

-----------------------------------------------------------------------------
(* Well typed is what the parts of actions make of the state.              *)
LEMMA RenamedType ==
    ASSUME FilesOK, OpeningOK, NEW from \in Slots, NEW to \in Slots
    PROVE  Renamed(from, to) \in [Paths -> [Slots -> {NoLog} \cup Logs]]
BY DEF FilesOK, OpeningOK, Renamed, In

LEMMA ClosedType ==
    ASSUME StreamOK, CloseStream, UNCHANGED <<log_file, change_log_file_retry>>
    PROVE  StreamOK'
BY DEF StreamOK, CloseStream

LEMMA OpenFileType ==
    ASSUME NEW who \in {"start", "change", "fallback"},
           NEW p \in Paths, NEW r \in BOOLEAN, OpenFile(who, p, r)
    PROVE  OpeningOK' /\ InLoop'
<1>1. i' = 1 /\ caller' = who /\ target' = p /\ rotate' = r
  BY DEF OpenFile
<1>2. pc' \in {"search", "open"}
  BY DEF OpenFile
<1> QED BY <1>1, <1>2, LimitsAssumption DEF OpeningOK, InLoop

LEMMA AfterWriteType ==
    ASSUME StreamOK, OpeningOK, NEW log, NEW isBig, AfterWrite(log, isBig)
    PROVE  StreamOK' /\ OpeningOK' /\ InLoop'
<1>1. CASE isBig /\ change_log_file_retry < MaxRetries
  <2>1. /\ change_log_file_retry' = change_log_file_retry + 1
        /\ CloseStream
        /\ OpenFile("change", log_file, TRUE)
        /\ log_file' = log_file
    BY <1>1 DEF AfterWrite
  <2>2. change_log_file_retry' \in 0..MaxRetries
    BY <1>1, <2>1, LimitsAssumption DEF StreamOK
  <2>3. log_file \in Paths
    BY DEF StreamOK
  <2>4. outptr_' = NoLog /\ is_logging_started' \in BOOLEAN
    BY <2>1 DEF CloseStream
  <2>5. StreamOK'
    BY <2>1, <2>2, <2>3, <2>4 DEF StreamOK
  <2> QED BY <2>1, <2>3, <2>5, OpenFileType
<1>2. CASE ~(isBig /\ change_log_file_retry < MaxRetries)
  BY <1>2 DEF AfterWrite, opening, StreamOK, OpeningOK, InLoop
<1> QED BY <1>1, <1>2

LEMMA OpenedType ==
    ASSUME TypeOK, Opened
    PROVE  StreamOK' /\ OpeningOK' /\ InLoop'
<1>1. 0 \in Slots
  BY LimitsAssumption DEF Slots
<1>2. outptr_' \in {NoLog} \cup Logs
  BY <1>1 DEF TypeOK, FilesOK, OpeningOK, Opened, In
<1>3. StreamOK'
  BY <1>2 DEF TypeOK, StreamOK, OpeningOK, Opened, opening
<1>4. pc' \in {"idle", "text"} /\ UNCHANGED <<i, target, rotate, caller>>
  BY DEF Opened, opening
<1> QED BY <1>3, <1>4 DEF TypeOK, OpeningOK, InLoop

-----------------------------------------------------------------------------
LEMMA TypeNext == TypeOK /\ InLoop /\ [Next]_vars => TypeOK' /\ InLoop'
<1> SUFFICES ASSUME TypeOK, InLoop, [Next]_vars PROVE TypeOK' /\ InLoop'
  OBVIOUS
<1>0. FilesOK /\ StreamOK /\ OpeningOK
  BY DEF TypeOK
<1>a. UNCHANGED <<files, held>> => FilesOK'
  BY <1>0 DEF FilesOK, files
<1>b. UNCHANGED stream => StreamOK'
  BY <1>0 DEF StreamOK, stream
<1>1. CASE Start
  <2>1. StreamOK'
    BY <1>0, <1>1, PathsAssumption, LimitsAssumption DEF Start, StreamOK
  <2> QED BY <1>1, <1>a, <2>1, OpenFileType, PathsAssumption DEF Start, TypeOK
<1>2. CASE Exit
  <2>1. is_logging_started' \in BOOLEAN /\ rotate' \in BOOLEAN
    BY <1>2 DEF Exit, CloseStream
  <2>2. /\ outptr_' = NoLog /\ log_file' \in Paths
        /\ change_log_file_retry' \in 0..MaxRetries
    BY <1>2, PathsAssumption, LimitsAssumption DEF Exit, CloseStream
  <2>3. /\ pc' = "off" /\ i' \in 1..(MaxFiles + 1)
        /\ target' \in Paths /\ caller' = "start"
    BY <1>2, PathsAssumption, LimitsAssumption DEF Exit
  <2>4. StreamOK'
    BY <2>1, <2>2 DEF StreamOK
  <2>5. OpeningOK' /\ InLoop'
    BY <2>1, <2>3 DEF OpeningOK, InLoop
  <2> QED BY <1>2, <1>a, <2>4, <2>5 DEF Exit, TypeOK
<1>3. CASE FileWrite
  <2>1. FilesOK'
    BY <1>0, <1>3 DEF FileWrite, FilesOK, StreamOK
  <2> QED BY <1>0, <1>3, <2>1, AfterWriteType DEF FileWrite, TypeOK
<1>4. ASSUME NEW p \in Paths, NEW r \in BOOLEAN, ChangeLogFile(p, r)
      PROVE  TypeOK' /\ InLoop'
  BY <1>0, <1>4, <1>a, ClosedType, OpenFileType DEF ChangeLogFile, TypeOK
<1>5. CASE WriteText
  BY <1>0, <1>5, <1>a, AfterWriteType DEF WriteText, TypeOK
<1>6. CASE Search
  <2>1. OpeningOK' /\ InLoop'
    BY <1>0, <1>6, LimitsAssumption DEF Search, EndOfSearch, OpeningOK, InLoop
  <2> QED BY <1>6, <1>a, <1>b, <2>1 DEF Search, TypeOK
<1>7. CASE Remove
  <2>1. FilesOK'
    BY <1>0, <1>7 DEF Remove, FilesOK
  <2>2. OpeningOK' /\ InLoop'
    BY <1>0, <1>7, LimitsAssumption DEF Remove, OpeningOK, InLoop
  <2> QED BY <1>7, <1>b, <2>1, <2>2 DEF Remove, TypeOK
<1>8. CASE Rename
  <2>1. i - 2 \in Slots /\ i - 1 \in Slots /\ i > 2
    BY <1>0, <1>8, LimitsAssumption DEF Rename, Slots, OpeningOK, InLoop
  <2>2. FilesOK'
    BY <1>0, <1>8, <2>1, RenamedType DEF Rename, FilesOK
  <2>3. OpeningOK' /\ InLoop'
    BY <1>0, <1>8, <2>1, LimitsAssumption DEF Rename, OpeningOK, InLoop
  <2> QED BY <1>8, <1>b, <2>2, <2>3 DEF Rename, TypeOK
<1>9. CASE RenameFirst
  <2>1. 0 \in Slots /\ 1 \in Slots
    BY LimitsAssumption DEF Slots
  <2>2. FilesOK'
    BY <1>0, <1>9, <2>1, RenamedType DEF RenameFirst, FilesOK
  <2>3. OpeningOK' /\ InLoop'
    BY <1>0, <1>9 DEF RenameFirst, opening, OpeningOK, InLoop
  <2> QED BY <1>9, <1>b, <2>2, <2>3 DEF RenameFirst, TypeOK
<1>10. CASE OpenLog
  <2>1. CASE Opened
    BY <1>10, <1>a, <2>1, OpenedType DEF OpenLog, TypeOK
  <2>2. CASE pc' = "create" /\ UNCHANGED <<stream, opening>>
    BY <1>0, <1>10, <1>a, <1>b, <2>2 DEF OpenLog, opening, OpeningOK, InLoop, TypeOK
  <2> QED BY <1>10, <2>1, <2>2 DEF OpenLog
<1>11. CASE CreateLog
  <2>1. FilesOK'
    BY <1>0, <1>11 DEF CreateLog, FilesOK, Logs
  <2>2. OpeningOK' /\ InLoop'
    BY <1>0, <1>11 DEF CreateLog, opening, OpeningOK, InLoop
  <2> QED BY <1>11, <1>b, <2>1, <2>2 DEF CreateLog, TypeOK
<1>12. CASE ReopenLog
  <2>1. CASE Opened
    BY <1>12, <1>a, <2>1, OpenedType DEF ReopenLog, TypeOK
  <2>2. CASE NotOpened
    <3>1. CASE caller = "change"
      <4>1. log_file \in Paths /\ rotate \in BOOLEAN
        BY <1>0 DEF StreamOK, OpeningOK
      <4> QED BY <1>12, <1>a, <1>b, <2>2, <3>1, <4>1, OpenFileType
              DEF ReopenLog, NotOpened, TypeOK
    <3>2. CASE caller # "change"
      BY <1>0, <1>12, <1>a, <1>b, <2>2, <3>2
      DEF ReopenLog, NotOpened, opening, OpeningOK, InLoop, TypeOK
    <3> QED BY <3>1, <3>2
  <2> QED BY <1>12, <2>1, <2>2 DEF ReopenLog
<1>13. CASE Hold
  <2>1. FilesOK'
    BY <1>0, <1>13 DEF Hold, files, FilesOK, NoLog
  <2>2. OpeningOK' /\ InLoop'
    BY <1>0, <1>13 DEF Hold, opening, OpeningOK, InLoop, TypeOK
  <2> QED BY <1>13, <1>b, <2>1, <2>2 DEF Hold, TypeOK
<1>14. CASE Release
  <2>1. FilesOK'
    BY <1>0, <1>14 DEF Release, files, FilesOK
  <2>2. OpeningOK' /\ InLoop'
    BY <1>0, <1>14 DEF Release, opening, OpeningOK, InLoop, TypeOK
  <2> QED BY <1>14, <1>b, <2>1, <2>2 DEF Release, TypeOK
<1>15. CASE UNCHANGED vars
  <2>1. OpeningOK' /\ InLoop'
    BY <1>0, <1>15 DEF vars, opening, OpeningOK, InLoop
  <2> QED BY <1>15, <1>a, <1>b, <2>1 DEF vars, TypeOK
<1> QED
  BY <1>1, <1>2, <1>3, <1>4, <1>5, <1>6, <1>7, <1>8, <1>9, <1>10, <1>11,
     <1>12, <1>13, <1>14, <1>15
  DEF Next, Job, Rotation, Opening

(* The state has the values TypeOK gives it; in particular the counter of  *)
(* createLogFileName never leaves the slots.                               *)
THEOREM TypeCorrect == Spec => []TypeOK
<1>1. Spec => [](TypeOK /\ InLoop)
  BY TypeInit, TypeNext, PTL DEF Spec
<1> QED BY <1>1, PTL

-----------------------------------------------------------------------------
(* The inductive invariant.  Logs are numbered as they were created ...    *)
Numbered == \A p \in Paths, s \in Slots : disk[p][s] <= created

(* ... the stream is closed while the disk changes, and what is opened for *)
(* a start, or again after a change that failed, is the worker's own file. *)
Control ==
    /\ pc \notin {"idle", "text"} => outptr_ = NoLog
    /\ outptr_ # NoLog => outptr_ = disk[log_file][0]
    /\ pc \in {"search", "shift", "rename", "open", "create", "reopen"}
          /\ caller # "change" => target = log_file

IInv == TypeOK /\ InLoop /\ Ordered /\ Numbered /\ Control

(* A rename moves a log to the next slot, when that is free, and nothing   *)
(* else: the order by age stays, and no log is lost.                       *)
LEMMA RenamedEffect ==
    ASSUME TypeOK, NEW from \in Slots, from + 1 \in Slots,
           disk' = Renamed(from, from + 1)
    PROVE  \/ disk' = disk
           \/ /\ In(from + 1) = NoLog
              /\ \A p \in Paths, s \in Slots :
                    disk'[p][s] = IF p = target /\ s = from + 1 THEN In(from)
                                  ELSE IF p = target /\ s = from THEN NoLog
                                  ELSE disk[p][s]
BY DEF TypeOK, FilesOK, OpeningOK, Renamed, In, Slots

LEMMA RenamedKeepsOrder ==
    ASSUME TypeOK, Ordered, Numbered, NEW from \in Slots, from + 1 \in Slots,
           disk' = Renamed(from, from + 1), UNCHANGED created
    PROVE  Ordered' /\ Numbered'
<1>1. CASE disk' = disk
  BY <1>1 DEF Ordered, Numbered
<1>2. CASE /\ In(from + 1) = NoLog
           /\ \A p \in Paths, s \in Slots :
                 disk'[p][s] = IF p = target /\ s = from + 1 THEN In(from)
                               ELSE IF p = target /\ s = from THEN NoLog
                               ELSE disk[p][s]
  <2>0. target \in Paths /\ \A p \in Paths, s \in Slots : disk[p][s] \in Nat
    BY DEF TypeOK, FilesOK, OpeningOK, NoLog, Logs
  <2>1. Numbered'
    BY <1>2, <2>0 DEF TypeOK, FilesOK, Numbered, In, NoLog
  <2>2. ASSUME NEW p \in Paths, NEW s \in Slots, NEW t \in Slots,
               s < t, disk'[p][s] # NoLog
        PROVE  disk'[p][t] < disk'[p][s]
    BY <1>2, <2>0, <2>2 DEF Ordered, In, NoLog, Slots
  <2> QED BY <2>1, <2>2 DEF Ordered
<1> QED BY <1>1, <1>2, RenamedEffect

LEMMA IInvInit == Init => IInv
<1> SUFFICES ASSUME Init PROVE IInv
  OBVIOUS
<1>1. \A p \in Paths, s \in Slots : disk[p][s] = 0
  BY DEF Init, NoLog
<1>2. Ordered /\ Numbered
  BY <1>1 DEF Init, Ordered, Numbered, NoLog
<1>3. Control
  BY DEF Init, Control
<1> QED BY <1>2, <1>3, TypeInit DEF IInv

LEMMA IInvNext == IInv /\ [Next]_vars => IInv'
<1> SUFFICES ASSUME IInv, [Next]_vars PROVE IInv'
  OBVIOUS
<1>0. TypeOK' /\ InLoop'
  BY TypeNext DEF IInv
<1>a. UNCHANGED files => Ordered' /\ Numbered'
  BY DEF files, IInv, Ordered, Numbered
<1>b. ASSUME UNCHANGED <<disk, outptr_, log_file, pc, caller, target>>
      PROVE  Control'
  BY <1>b DEF IInv, Control
<1>c. ASSUME UNCHANGED <<disk, created>> PROVE Ordered' /\ Numbered'
  BY <1>c DEF IInv, Ordered, Numbered
<1>1. CASE Start
  BY <1>0, <1>1, <1>a DEF IInv, Start, OpenFile, Control
<1>2. CASE Exit
  BY <1>0, <1>2, <1>a DEF IInv, Exit, CloseStream, Control
<1>3. ASSUME NEW isBig, AfterWrite(outptr_, isBig), UNCHANGED disk
      PROVE  Control'
  BY <1>3 DEF IInv, AfterWrite, CloseStream, OpenFile, opening, Control
<1>4. CASE FileWrite
  BY <1>0, <1>3, <1>4, <1>c DEF IInv, FileWrite
<1>5. ASSUME NEW p \in Paths, NEW r \in BOOLEAN, ChangeLogFile(p, r) PROVE IInv'
  BY <1>0, <1>5, <1>a DEF IInv, ChangeLogFile, CloseStream, OpenFile, Control
<1>6. CASE WriteText
  BY <1>0, <1>3, <1>6, <1>a DEF IInv, WriteText, files
<1>7. CASE Search
  BY <1>0, <1>7, <1>a DEF IInv, Search, stream, files, Control
<1>8. CASE Remove
  <2>1. \A p \in Paths, s \in Slots : disk'[p][s] \in {disk[p][s], NoLog}
    BY <1>8 DEF IInv, TypeOK, FilesOK, Remove
  <2>2. \A p \in Paths, s \in Slots : disk[p][s] \in Nat
    BY DEF IInv, TypeOK, FilesOK, NoLog, Logs
  <2>3. created' = created /\ created \in Nat
    BY <1>8 DEF IInv, TypeOK, FilesOK, Remove
  <2>4. Numbered'
    BY <2>1, <2>2, <2>3 DEF IInv, Numbered, NoLog
  <2>5. Ordered'
    BY <2>1, <2>2 DEF IInv, Ordered, NoLog
  <2>6. Control'
    BY <1>8 DEF IInv, Remove, stream, Control
  <2> QED BY <1>0, <2>4, <2>5, <2>6 DEF IInv
<1>9. CASE Rename
  <2>1. i - 2 \in Slots /\ (i - 2) + 1 \in Slots /\ (i - 2) + 1 = i - 1
    BY <1>9, LimitsAssumption DEF IInv, Rename, Slots, TypeOK, OpeningOK, InLoop
  <2>2. Ordered' /\ Numbered'
    BY <1>9, <2>1, RenamedKeepsOrder DEF IInv, Rename
  <2>3. Control'
    BY <1>9 DEF IInv, Rename, stream, Control
  <2> QED BY <1>0, <2>2, <2>3 DEF IInv
<1>10. CASE RenameFirst
  <2>1. 0 \in Slots /\ 0 + 1 \in Slots /\ 0 + 1 = 1
    BY LimitsAssumption DEF Slots
  <2>2. Ordered' /\ Numbered'
    BY <1>10, <2>1, RenamedKeepsOrder DEF IInv, RenameFirst
  <2>3. Control'
    BY <1>10 DEF IInv, RenameFirst, stream, opening, Control
  <2> QED BY <1>0, <2>2, <2>3 DEF IInv
<1>11. ASSUME Opened, pc \in {"open", "reopen"}, UNCHANGED files
       PROVE  Control'
  BY <1>11 DEF IInv, Opened, In, files, opening, Control
<1>12. CASE OpenLog
  BY <1>0, <1>11, <1>12, <1>a DEF IInv, OpenLog, files, stream, opening, Control
<1>13. CASE CreateLog
  <2>1. Control'
    BY <1>13 DEF IInv, CreateLog, stream, opening, Control
  <2>2. CASE UNCHANGED <<disk, created>>
    BY <1>0, <1>c, <2>1, <2>2 DEF IInv
  <2>3. CASE /\ created' = created + 1
             /\ disk' = [disk EXCEPT ![target][0] = created + 1]
    <3>1. \A p \in Paths, s \in Slots : disk[p][s] \in Nat
      BY DEF IInv, TypeOK, FilesOK, NoLog, Logs
    <3>2. target \in Paths /\ 0 \in Slots /\ created \in Nat
      BY LimitsAssumption DEF IInv, TypeOK, FilesOK, OpeningOK, Slots
    <3>3. \A p \in Paths, s \in Slots :
             disk'[p][s] = IF p = target /\ s = 0 THEN created + 1 ELSE disk[p][s]
      BY <2>3, <3>2 DEF IInv, TypeOK, FilesOK
    <3>4. Numbered'
      BY <2>3, <3>1, <3>2, <3>3 DEF IInv, Numbered
    <3>5. ASSUME NEW p \in Paths, NEW s \in Slots, NEW t \in Slots,
                 s < t, disk'[p][s] # NoLog
          PROVE  disk'[p][t] < disk'[p][s]
      <4>1. t # 0
        BY <3>5 DEF Slots
      <4>2. disk'[p][t] = disk[p][t] /\ disk[p][t] <= created
        BY <3>3, <4>1 DEF IInv, Numbered
      <4> QED BY <3>1, <3>2, <3>3, <3>5, <4>2 DEF IInv, Ordered
    <3> QED BY <1>0, <2>1, <3>4, <3>5 DEF IInv, Ordered
  <2> QED BY <1>13, <2>2, <2>3 DEF CreateLog
<1>14. CASE ReopenLog
  <2>1. CASE Opened
    BY <1>0, <1>11, <1>14, <1>a, <2>1 DEF IInv, ReopenLog
  <2>2. CASE NotOpened
    BY <1>0, <1>14, <1>a, <2>2
    DEF IInv, ReopenLog, NotOpened, OpenFile, stream, opening, files, Control
  <2> QED BY <1>14, <2>1, <2>2 DEF ReopenLog
<1>15. CASE Hold \/ Release
  BY <1>0, <1>15, <1>a, <1>b DEF IInv, Hold, Release, files, stream, opening
<1>16. CASE UNCHANGED vars
  BY <1>0, <1>16, <1>a, <1>b DEF IInv, vars, files, stream, opening
<1> QED
  BY <1>1, <1>2, <1>4, <1>5, <1>6, <1>7, <1>8, <1>9, <1>10, <1>12, <1>13, <1>14,
     <1>15, <1>16
  DEF Next, Job, Rotation, Opening

(* What is written always goes to the newest log of the path the worker    *)
(* would rotate, and logs lie in the order of their age.                   *)
THEOREM StreamAlwaysCurrent == Spec => []StreamIsCurrent
<1>1. IInv => StreamIsCurrent
  BY DEF IInv, Control, StreamIsCurrent
<1> QED BY IInvInit, IInvNext, <1>1, PTL DEF Spec

-----------------------------------------------------------------------------
(* While the loop of createLogFileName runs, slot 0 is taken, and a log is *)
(* created only where there is none.                                       *)
Guarded == /\ pc \in {"shift", "rename"} /\ i > 2 => In(0) # NoLog
           /\ pc = "create" => In(0) = NoLog

LEMMA GuardedNext ==
    ASSUME "exclusive" \notin Holds, IInv, Guarded, [Next]_vars
    PROVE  Guarded'
<1>0. ASSUME UNCHANGED <<disk, pc, i, target>> PROVE Guarded'
  BY <1>0 DEF Guarded, In
<1>a. ASSUME pc' \notin {"shift", "rename", "create"} PROVE Guarded'
  BY <1>a DEF Guarded
<1>1. CASE Search
  <2>1. i' > 2 => Opens(0)
    BY <1>1, LimitsAssumption DEF Search, EndOfSearch
  <2>2. pc' = "shift" /\ UNCHANGED <<disk, target>>
    BY <1>1 DEF Search, files
  <2> QED BY <2>1, <2>2 DEF Guarded, Opens, In
<1>2. CASE Remove
  <2>1. i \in Int /\ i > 2 /\ i' <= i /\ target' = target /\ pc' \in {"shift", "rename"}
    BY <1>2 DEF Remove, IInv, TypeOK, OpeningOK
  <2>2. target \in Paths /\ 0 \in Slots /\ i - 1 # 0
    BY <2>1, LimitsAssumption DEF IInv, TypeOK, OpeningOK, Slots
  <2>3. disk'[target][0] = disk[target][0]
    BY <1>2, <2>2 DEF Remove, IInv, TypeOK, FilesOK
  <2> QED BY <1>2, <2>1, <2>3 DEF Remove, Guarded, In
<1>3. CASE Rename
  <2>1. /\ i \in Int /\ i > 2 /\ i' <= i /\ target' = target /\ pc' = "shift"
        /\ target \in Paths
    BY <1>3 DEF Rename, IInv, InLoop, TypeOK, OpeningOK
  <2>2. {0, i - 2, (i - 2) + 1} \subseteq Slots /\ i - 2 # 0 /\ (i - 2) + 1 # 0
        /\ (i - 2) + 1 = i - 1
    BY <2>1, LimitsAssumption DEF IInv, TypeOK, OpeningOK, Slots
  <2>3. disk'[target][0] = disk[target][0]
    BY <1>3, <2>1, <2>2, RenamedEffect DEF Rename, IInv
  <2> QED BY <1>3, <2>1, <2>3 DEF Rename, Guarded, In
<1>4. CASE OpenLog
  <2>1. held \subseteq Logs \X Holds
    BY DEF IInv, TypeOK, FilesOK
  <2>2. Opens(0) <=> In(0) # NoLog
    BY <2>1 DEF Opens
  <2> QED BY <1>4, <2>2 DEF OpenLog, Opened, files, opening, Guarded, In
<1>5. CASE Start \/ Exit \/ RenameFirst \/ CreateLog
  BY <1>5, <1>a DEF Start, OpenFile, Exit, RenameFirst, CreateLog
<1>6. ASSUME NEW log, NEW isBig, AfterWrite(log, isBig) PROVE Guarded'
  BY <1>6, <1>a DEF AfterWrite, OpenFile
<1>7. CASE FileWrite \/ WriteText
  BY <1>6, <1>7 DEF FileWrite, WriteText
<1>8. ASSUME NEW p \in Paths, NEW r \in BOOLEAN, ChangeLogFile(p, r) PROVE Guarded'
  BY <1>8, <1>a DEF ChangeLogFile, OpenFile
<1>9. CASE ReopenLog
  BY <1>9, <1>a DEF ReopenLog, Opened, NotOpened, OpenFile
<1>10. CASE Hold \/ Release \/ UNCHANGED vars
  BY <1>0, <1>10 DEF Hold, Release, vars, files, opening
<1> QED
  BY <1>1, <1>2, <1>3, <1>4, <1>5, <1>7, <1>8, <1>9, <1>10
  DEF Next, Job, Rotation, Opening

(* A log that a step takes from the disk is the one Remove takes.          *)
LEMMA OnlyRemoveLoses ==
    ASSUME IInv, Guarded, [Next]_vars,
           NEW p \in Paths, NEW log \in LogsAt(p) \ LogsAt(p)'
    PROVE  Remove /\ p = target /\ Opens(i - 2) /\ log = In(i - 1)
<1>0. PICK s \in Slots : disk[p][s] = log /\ log # NoLog
  BY DEF LogsAt
<1>1. \A t \in Slots : disk'[p][t] # log
  BY <1>0 DEF LogsAt
<1>2. disk' # disk
  BY <1>0, <1>1
<1>3. ASSUME NEW from \in Slots, from + 1 \in Slots, disk' = Renamed(from, from + 1)
      PROVE  FALSE
  <2>1. /\ In(from + 1) = NoLog
        /\ \A q \in Paths, t \in Slots :
              disk'[q][t] = IF q = target /\ t = from + 1 THEN In(from)
                            ELSE IF q = target /\ t = from THEN NoLog
                            ELSE disk[q][t]
    BY <1>2, <1>3, RenamedEffect DEF IInv
  <2>2. CASE p = target /\ s = from
    BY <1>0, <1>1, <1>3, <2>1, <2>2 DEF In
  <2>3. CASE p = target /\ s = from + 1
    BY <1>0, <2>1, <2>3 DEF In
  <2>4. CASE ~(p = target /\ s \in {from, from + 1})
    BY <1>0, <1>1, <2>1, <2>4
  <2> QED BY <2>2, <2>3, <2>4
<1>4. CASE Rename
  <2>1. i - 2 \in Slots /\ (i - 2) + 1 \in Slots /\ (i - 2) + 1 = i - 1
    BY <1>4, LimitsAssumption DEF IInv, Rename, Slots, TypeOK, OpeningOK, InLoop
  <2> QED BY <1>3, <1>4, <2>1 DEF Rename
<1>5. CASE RenameFirst
  <2>1. 0 \in Slots /\ 0 + 1 \in Slots /\ 0 + 1 = 1
    BY LimitsAssumption DEF Slots
  <2> QED BY <1>3, <1>5, <2>1 DEF RenameFirst
<1>6. CASE CreateLog
  <2>1. disk' = [disk EXCEPT ![target][0] = created + 1]
    BY <1>2, <1>6 DEF CreateLog
  <2>2. disk[target][0] = NoLog
    BY <1>6 DEF CreateLog, Guarded, In
  <2>3. p # target \/ s # 0
    BY <1>0, <2>2
  <2>4. disk'[p][s] = disk[p][s]
    BY <2>1, <2>3 DEF IInv, TypeOK, FilesOK, OpeningOK
  <2> QED BY <1>0, <1>1, <2>4
<1>7. CASE Remove
  <2>1. Opens(i - 2) /\ disk' = [disk EXCEPT ![target][i - 1] = NoLog]
    BY <1>2, <1>7 DEF Remove
  <2>2. p = target /\ s = i - 1
    BY <1>0, <1>1, <2>1 DEF IInv, TypeOK, FilesOK, OpeningOK
  <2> QED BY <1>0, <1>7, <2>1, <2>2 DEF In
<1> QED
  BY <1>2, <1>4, <1>5, <1>6, <1>7
  DEF Next, Job, Rotation, Opening, Start, Exit, FileWrite, ChangeLogFile, WriteText,
      Search, OpenLog, ReopenLog, Hold, Release, vars, files

(* Where no program has a log for itself alone, whatever fails in a         *)
(* rotation, the two newest logs of a path are never given up.             *)
THEOREM NewestAlwaysSurvive ==
    ASSUME "exclusive" \notin Holds
    PROVE  Spec => NewestSurvive
<1> DEFINE Survive == \A p \in Paths : \A log \in LogsAt(p) \ LogsAt(p)' :
             \E newer, newest \in LogsAt(p)' : log < newer /\ newer < newest
<1>1. Init => Guarded
  BY DEF Init, Guarded
<1>2. IInv /\ Guarded /\ [Next]_vars => Guarded'
  BY GuardedNext
<1>3. ASSUME IInv, Guarded, [Next]_vars PROVE [Survive]_vars
  <2> SUFFICES ASSUME NEW p \in Paths, NEW log \in LogsAt(p) \ LogsAt(p)'
               PROVE  \E newer, newest \in LogsAt(p)' : log < newer /\ newer < newest
    OBVIOUS
  <2>1. Remove /\ p = target /\ Opens(i - 2) /\ log = In(i - 1)
    BY <1>3, OnlyRemoveLoses
  <2>2. log # NoLog
    BY DEF LogsAt
  <2>3. i \in Int /\ i > 2 /\ {0, i - 2, i - 1} \subseteq Slots
    BY <1>3, <2>1, LimitsAssumption DEF IInv, TypeOK, OpeningOK, Remove, Slots
  <2>4. In(0) # NoLog /\ In(i - 2) # NoLog
    BY <1>3, <2>1, <2>3 DEF Guarded, Opens, Remove
  <2>5. log < In(i - 2)
    BY <1>3, <2>1, <2>3, <2>4 DEF IInv, Ordered, In
  <2>6. In(i - 2) < In(0)
    BY <1>3, <2>1, <2>3, <2>4 DEF IInv, Ordered, In
  <2>7. disk'[p][0] = In(0) /\ disk'[p][i - 2] = In(i - 2)
    BY <1>3, <2>1, <2>3 DEF Remove, IInv, TypeOK, FilesOK, In
  <2>8. In(0) \in LogsAt(p)' /\ In(i - 2) \in LogsAt(p)'
    BY <2>3, <2>4, <2>7 DEF LogsAt
  <2> QED BY <2>5, <2>6, <2>8
<1> QED BY <1>1, <1>2, <1>3, IInvInit, IInvNext, PTL DEF Spec, NewestSurvive

-----------------------------------------------------------------------------
(* The worker's own log is past the size limit only without rotations left,*)
(* between jobs and wherever openFile may end without a look at the size:  *)
(* when it goes back to that log, or may come to.                          *)
Small == disk[log_file][0] \in big => change_log_file_retry = MaxRetries
OpenPlaces == {"search", "shift", "rename", "open", "create", "reopen"}

Sized == /\ \A log \in big : log <= created
         /\ pc = "idle" => Small
         /\ pc \in OpenPlaces
               /\ (caller = "fallback" \/ (caller = "change" /\ target # log_file)) => Small
         /\ pc = "text" => outptr_ # NoLog

LEMMA SmallStays ==
    ASSUME IInv, Sized, Small,
           UNCHANGED <<big, log_file, change_log_file_retry>>, created' >= created,
           disk'[log_file][0] \in {disk[log_file][0], NoLog, created + 1}
    PROVE  Small'
<1>1. big \subseteq Logs /\ created \in Nat
  BY DEF IInv, TypeOK, FilesOK
<1>2. NoLog \notin big /\ created + 1 \notin big
  BY <1>1 DEF Sized, NoLog, Logs
<1> QED BY <1>2 DEF Small

(* A step of a rotation leaves the first log of its path, or moves it away.*)
LEMMA FirstOfPath ==
    ASSUME IInv, Rotation
    PROVE  \A p \in Paths : disk'[p][0] \in {disk[p][0], NoLog}
<1>1. CASE Search
  BY <1>1 DEF Search, files
<1>2. CASE Remove
  <2>1. disk' = disk \/ disk' = [disk EXCEPT ![target][i - 1] = NoLog]
    BY <1>2 DEF Remove
  <2>2. /\ disk \in [Paths -> [Slots -> {NoLog} \cup Logs]]
        /\ 0 \in Slots
    BY LimitsAssumption DEF IInv, TypeOK, FilesOK, Slots
  <2> QED BY <2>1, <2>2
<1>3. ASSUME NEW from \in Slots, from + 1 \in Slots, disk' = Renamed(from, from + 1)
      PROVE  \A p \in Paths : disk'[p][0] \in {disk[p][0], NoLog}
  <2>1. 0 \in Slots /\ from + 1 # 0
    BY LimitsAssumption DEF Slots
  <2> QED BY <1>3, <2>1, RenamedEffect DEF IInv
<1>4. CASE Rename
  <2>1. i - 2 \in Slots /\ (i - 2) + 1 \in Slots /\ (i - 2) + 1 = i - 1
    BY <1>4, LimitsAssumption DEF IInv, Rename, Slots, TypeOK, OpeningOK, InLoop
  <2> QED BY <1>3, <1>4, <2>1 DEF Rename
<1>5. CASE RenameFirst
  <2>1. 0 \in Slots /\ 0 + 1 \in Slots /\ 0 + 1 = 1
    BY LimitsAssumption DEF Slots
  <2> QED BY <1>3, <1>5, <2>1 DEF RenameFirst
<1> QED BY <1>1, <1>2, <1>4, <1>5 DEF Rotation

LEMMA AfterWriteSized ==
    ASSUME IInv, Sized, outptr_ # NoLog, AfterWrite(outptr_, outptr_ \in big'),
           UNCHANGED <<disk, created>>, \A log \in big' : log <= created'
    PROVE  Sized'
<1>1. CASE outptr_ \in big' /\ change_log_file_retry < MaxRetries
  <2>1. /\ OpenFile("change", log_file, TRUE) /\ log_file' = log_file
    BY <1>1 DEF AfterWrite
  <2>2. pc' = "search" /\ caller' = "change" /\ target' = log_file'
    BY <2>1 DEF OpenFile
  <2> QED BY <2>2 DEF Sized
<1>2. CASE ~(outptr_ \in big' /\ change_log_file_retry < MaxRetries)
  <2>1. /\ pc' = "idle" /\ UNCHANGED <<log_file, change_log_file_retry>>
    BY <1>2 DEF AfterWrite
  <2>2. change_log_file_retry \in 0..MaxRetries
    BY DEF IInv, TypeOK, StreamOK
  <2>3. outptr_ \in big' => change_log_file_retry = MaxRetries
    BY <1>2, <2>2, LimitsAssumption
  <2>4. outptr_ = disk[log_file][0]
    BY DEF IInv, Control
  <2>5. Small'
    BY <2>1, <2>3, <2>4 DEF Small
  <2> QED BY <2>1, <2>5 DEF Sized, OpenPlaces
<1> QED BY <1>1, <1>2

LEMMA OpenedSized ==
    ASSUME IInv, Sized, pc \in {"open", "reopen"}, Opened, Opens(0), UNCHANGED files
    PROVE  Sized'
<1>1. outptr_' # NoLog /\ UNCHANGED <<big, created, disk, caller, change_log_file_retry>>
  BY DEF Opened, Opens, opening, files
<1>2. CASE caller = "fallback"
  <2>1. pc' = "idle" /\ log_file' = log_file
    BY <1>2 DEF Opened
  <2>2. Small
    BY <1>2 DEF Sized, OpenPlaces
  <2> QED BY <1>1, <2>1, <2>2 DEF Sized, Small, OpenPlaces
<1>3. CASE caller # "fallback"
  <2>1. pc' = "text"
    BY <1>3 DEF Opened
  <2> QED BY <1>1, <2>1 DEF Sized, OpenPlaces
<1> QED BY <1>2, <1>3

(* Without exclusive holders, what cannot be opened is not there.          *)
LEMMA NotOpenedSized ==
    ASSUME "exclusive" \notin Holds, IInv, Sized, pc = "reopen", NotOpened, ~Opens(0),
           UNCHANGED files
    PROVE  Sized'
<1>1. In(0) = NoLog
  <2>1. held \subseteq Logs \X Holds
    BY DEF IInv, TypeOK, FilesOK
  <2> QED BY <2>1 DEF Opens
<1>2. UNCHANGED <<disk, created, big, log_file, change_log_file_retry>>
  BY DEF NotOpened, stream, files
<1>3. Small
  <2>1. CASE target = log_file
    <3>1. disk[log_file][0] = NoLog
      BY <1>1, <2>1 DEF In
    <3>2. NoLog \notin big
      BY DEF IInv, TypeOK, FilesOK, NoLog, Logs
    <3> QED BY <3>1, <3>2 DEF Small
  <2>2. CASE target # log_file
    <3>1. caller = "change"
      BY <2>2 DEF IInv, Control
    <3> QED BY <2>2, <3>1 DEF Sized, OpenPlaces
  <2> QED BY <2>1, <2>2
<1>4. Small'
  BY <1>2, <1>3 DEF Small
<1>5. pc' # "text"
  BY DEF NotOpened, OpenFile
<1> QED BY <1>2, <1>4, <1>5 DEF Sized

LEMMA SizedNext ==
    ASSUME "exclusive" \notin Holds, IInv, Sized, [Next]_vars
    PROVE  Sized'
<1>0. ASSUME UNCHANGED <<disk, created, big, outptr_, log_file, change_log_file_retry, pc,
                         caller, target>>
      PROVE  Sized'
  BY <1>0 DEF Sized, Small
<1>1. CASE Start
  <2>1. pc' = "open" /\ caller' = "start" /\ UNCHANGED <<big, created>>
    BY <1>1 DEF Start, OpenFile, files
  <2> QED BY <2>1 DEF Sized
<1>2. CASE Exit
  <2>1. pc' = "off" /\ UNCHANGED <<big, created>>
    BY <1>2 DEF Exit, files
  <2> QED BY <2>1 DEF Sized, OpenPlaces
<1>3. CASE FileWrite
  <2>1. /\ outptr_ # NoLog /\ AfterWrite(outptr_, outptr_ \in big')
        /\ UNCHANGED <<disk, created>>
    BY <1>3 DEF FileWrite
  <2>2. outptr_ <= created
    <3>1. outptr_ = disk[log_file][0] /\ log_file \in Paths /\ 0 \in Slots
      BY <2>1, LimitsAssumption DEF IInv, Control, TypeOK, StreamOK, Slots
    <3> QED BY <3>1 DEF IInv, Numbered
  <2>3. \A log \in big' : log <= created'
    BY <1>3, <2>1, <2>2 DEF FileWrite, Sized
  <2> QED BY <2>1, <2>3, AfterWriteSized
<1>4. CASE WriteText
  <2>1. /\ AfterWrite(outptr_, outptr_ \in big') /\ UNCHANGED <<disk, created, big>>
        /\ outptr_ # NoLog
    BY <1>4 DEF WriteText, files, Sized
  <2> QED BY <2>1, AfterWriteSized DEF Sized
<1>5. ASSUME NEW p \in Paths, NEW r \in BOOLEAN, ChangeLogFile(p, r) PROVE Sized'
  <2>1. /\ pc = "idle" /\ pc' \notin {"idle", "text"}
        /\ UNCHANGED <<disk, created, big, log_file, change_log_file_retry>>
    BY <1>5 DEF ChangeLogFile, OpenFile, files
  <2> QED BY <2>1 DEF Sized, Small
<1>6. CASE Rotation
  <2>1. /\ UNCHANGED <<created, big, log_file, change_log_file_retry, caller, target>>
        /\ pc \in OpenPlaces /\ pc' \in OpenPlaces
    BY <1>6 DEF Rotation, Search, Remove, Rename, RenameFirst, files, stream, opening,
          OpenPlaces
  <2>2. Small => Small'
    <3>1. log_file \in Paths /\ created \in Nat
      BY DEF IInv, TypeOK, StreamOK, FilesOK
    <3> QED BY <1>6, <2>1, <3>1, FirstOfPath, SmallStays
  <2> QED BY <2>1, <2>2 DEF Sized, OpenPlaces
<1>7. CASE OpenLog
  <2>1. CASE Opens(0) /\ Opened
    BY <1>7, <2>1, OpenedSized DEF OpenLog
  <2>2. CASE ~Opens(0) /\ pc' = "create" /\ UNCHANGED <<stream, opening>>
    BY <1>7, <2>2 DEF OpenLog, files, stream, opening, Sized, Small, OpenPlaces
  <2> QED BY <1>7, <2>1, <2>2 DEF OpenLog
<1>8. CASE CreateLog
  <2>1. /\ UNCHANGED <<big, log_file, change_log_file_retry, caller, target>>
        /\ pc = "create" /\ pc' = "reopen"
        /\ created \in Nat /\ target \in Paths /\ log_file \in Paths /\ 0 \in Slots
    BY <1>8, LimitsAssumption
       DEF CreateLog, stream, opening, IInv, TypeOK, FilesOK, StreamOK, OpeningOK, Slots
  <2>2. /\ created' >= created
        /\ disk'[log_file][0] \in {disk[log_file][0], created + 1}
    BY <1>8, <2>1 DEF CreateLog, IInv, TypeOK, FilesOK
  <2>3. Small => Small'
    BY <2>1, <2>2, SmallStays
  <2>4. \A log \in big' : log <= created'
    <3>1. created' = created \/ created' = created + 1
      BY <1>8 DEF CreateLog
    <3>2. \A log \in big : log \in Nat /\ log <= created
      BY DEF Sized, IInv, TypeOK, FilesOK, Logs
    <3> QED BY <2>1, <3>1, <3>2
  <2> QED BY <2>1, <2>3, <2>4 DEF Sized, OpenPlaces
<1>9. CASE ReopenLog
  <2>1. pc = "reopen" /\ UNCHANGED files
    BY <1>9 DEF ReopenLog, files
  <2> QED BY <1>9, <2>1, OpenedSized, NotOpenedSized DEF ReopenLog
<1>10. CASE Hold \/ Release \/ UNCHANGED vars
  BY <1>0, <1>10 DEF Hold, Release, vars, files, stream, opening
<1> QED
  BY <1>1, <1>2, <1>3, <1>4, <1>5, <1>6, <1>7, <1>8, <1>9, <1>10
  DEF Next, Job, Opening

(* Where no program has a log for itself alone, no file past the size      *)
(* limit is kept for the next message while there are rotations left,      *)
(* however changes fail and whichever file is gone back to.                *)
THEOREM AlwaysBoundedBySize ==
    ASSUME "exclusive" \notin Holds
    PROVE  Spec => []BoundedBySize
<1>1. Init => Sized
  BY DEF Init, Sized, OpenPlaces
<1>2. IInv /\ Sized /\ [Next]_vars => Sized'
  BY SizedNext
<1>3. IInv /\ Sized => BoundedBySize
  <2> SUFFICES ASSUME IInv, Sized, pc = "idle", outptr_ \in big
               PROVE  change_log_file_retry = MaxRetries
    BY DEF BoundedBySize
  <2>1. outptr_ # NoLog
    BY DEF IInv, TypeOK, FilesOK, NoLog, Logs
  <2>2. outptr_ = disk[log_file][0]
    BY <2>1 DEF IInv, Control
  <2> QED BY <2>2 DEF Sized, Small
<1> QED BY <1>1, <1>2, <1>3, IInvInit, IInvNext, PTL DEF Spec

-----------------------------------------------------------------------------
(* Implementation of RotatedLogs.  Slots that are taken hold different     *)
(* logs, so that logs are counted by slots.                                *)
Taken(p) == {s \in Slots : disk[p][s] # NoLog}

LEMMA LogsCounted ==
    ASSUME TypeOK, Ordered, NEW p \in Paths
    PROVE  /\ IsFiniteSet(Taken(p))
           /\ Cardinality(LogsAt(p)) = Cardinality(Taken(p))
<1> DEFINE f == [s \in Taken(p) |-> disk[p][s]]
<1>1. IsFiniteSet(Slots)
  BY FS_Interval, LimitsAssumption DEF Slots
<1>2. IsFiniteSet(Taken(p))
  BY <1>1, FS_Subset DEF Taken
<1>3. f \in Surjection(Taken(p), LogsAt(p))
  BY DEF Surjection, Taken, LogsAt
<1>4. ASSUME NEW s \in Taken(p), NEW t \in Taken(p), s < t PROVE f[s] # f[t]
  <2>1. disk[p][t] < disk[p][s]
    BY <1>4 DEF Ordered, Taken
  <2>2. disk[p][t] \in Nat /\ disk[p][s] \in Nat
    BY DEF Taken, TypeOK, FilesOK, NoLog, Logs
  <2> QED BY <2>1, <2>2
<1>5. f \in Injection(Taken(p), LogsAt(p))
  <2>1. \A s, t \in Taken(p) : s < t \/ t < s \/ s = t
    BY DEF Taken, Slots
  <2>2. \A s, t \in Taken(p) : f[s] = f[t] => s = t
    BY <1>4, <2>1
  <2> QED BY <1>3, <2>2 DEF Injection, Surjection, IsInjective
<1>6. ExistsBijection(Taken(p), LogsAt(p))
  BY <1>3, <1>5 DEF ExistsBijection, Bijection
<1> QED BY <1>2, <1>6, FS_Bijection

LEMMA FullCount ==
    ASSUME TypeOK, Ordered, NEW p \in Paths, Taken(p) = Slots
    PROVE  Cardinality(LogsAt(p)) = MaxFiles + 1
BY LogsCounted, FS_Interval, LimitsAssumption DEF Slots

LEMMA RoomCount ==
    ASSUME TypeOK, Ordered, NEW p \in Paths, disk[p][0] = NoLog
    PROVE  Cardinality(LogsAt(p)) < MaxFiles + 1
<1>1. Taken(p) \subseteq 1..MaxFiles
  BY DEF Taken, Slots
<1>2. IsFiniteSet(1..MaxFiles) /\ Cardinality(1..MaxFiles) = MaxFiles
  BY FS_Interval, LimitsAssumption
<1>3. Cardinality(Taken(p)) <= MaxFiles /\ Cardinality(Taken(p)) \in Nat
  BY <1>1, <1>2, FS_Subset, FS_CardinalityType
<1> QED BY <1>3, LogsCounted, LimitsAssumption

(* The loop: while i is at its limit every slot below the last is taken,   *)
(* and from then on the slot a log is moved to is free.                    *)
Shifting ==
    pc \in {"shift", "rename"} =>
        /\ i = MaxFiles + 1 => \A s \in 0..(MaxFiles - 1) : In(s) # NoLog
        /\ i \in 2..MaxFiles \/ pc = "rename" => In(i - 1) = NoLog

LEMMA ShiftingNext ==
    ASSUME Holds = {}, IInv, Shifting, [Next]_vars
    PROVE  Shifting'
<1>0. ASSUME UNCHANGED <<disk, pc, i, target>> PROVE Shifting'
  BY <1>0 DEF Shifting, In
<1>a. ASSUME pc' \notin {"shift", "rename"} PROVE Shifting'
  BY <1>a DEF Shifting
<1>b. held = {}
  BY DEF IInv, TypeOK, FilesOK
<1>c. \A s : Opens(s) <=> In(s) # NoLog
  BY <1>b DEF Opens
<1>d. i \in 1..(MaxFiles + 1) /\ target \in Paths /\ disk \in [Paths -> [Slots -> {NoLog} \cup Logs]]
  BY DEF IInv, TypeOK, FilesOK, OpeningOK
<1>e. pc \in {"shift", "rename"} => \A s : In(s) # NoLog => Moves(s)
  BY <1>b DEF Moves, IInv, Control
<1>1. CASE Search
  <2>1. pc' = "shift" /\ UNCHANGED <<disk, target>>
    BY <1>1 DEF Search, files
  <2>2. /\ i' \in 1..(MaxFiles + 1)
        /\ \A s \in 0..(i' - 2) : In(s) # NoLog
        /\ i' <= MaxFiles => In(i' - 1) = NoLog
    BY <1>1, <1>c DEF Search, EndOfSearch
  <2>3. i' = MaxFiles + 1 => \A s \in 0..(MaxFiles - 1) : In(s) # NoLog
    <3> SUFFICES ASSUME i' = MaxFiles + 1, NEW s \in 0..(MaxFiles - 1) PROVE In(s) # NoLog
      OBVIOUS
    <3>1. s \in 0..(i' - 2)
      BY LimitsAssumption
    <3> QED BY <2>2, <3>1
  <2>4. i' \in 2..MaxFiles => In(i' - 1) = NoLog
    BY <2>2, LimitsAssumption
  <2> QED BY <2>1, <2>3, <2>4 DEF Shifting, In
<1>2. CASE Remove
  <2>1. target' = target /\ i > 2 /\ pc = "shift"
    BY <1>2 DEF Remove
  <2>2. CASE Opens(i - 2)
    <3>1. /\ i' = i
          /\ disk' = IF In(i - 1) # NoLog THEN [disk EXCEPT ![target][i - 1] = NoLog]
                                         ELSE disk
      BY <1>2, <1>c, <1>e, <2>1, <2>2 DEF Remove
    <3>2. i - 1 \in Slots /\ 0..(MaxFiles - 1) \subseteq Slots
      BY <1>d, <2>1, LimitsAssumption DEF Slots
    <3>3. disk'[target][i - 1] = NoLog
      BY <1>d, <3>1, <3>2 DEF In
    <3>4. \A s \in Slots : s # i - 1 => disk'[target][s] = disk[target][s]
      BY <1>d, <3>1
    <3>5. i = MaxFiles + 1 => \A s \in 0..(MaxFiles - 1) : disk'[target][s] # NoLog
      <4> SUFFICES ASSUME i = MaxFiles + 1, NEW s \in 0..(MaxFiles - 1)
                   PROVE  disk'[target][s] # NoLog
        OBVIOUS
      <4>1. s \in Slots /\ s # i - 1 /\ In(s) # NoLog
        BY <2>1, <3>2, LimitsAssumption DEF Shifting
      <4> QED BY <3>4, <4>1 DEF In
    <3> QED BY <2>1, <3>1, <3>3, <3>5 DEF Shifting, In
  <2>3. CASE ~Opens(i - 2)
    BY <1>2, <1>c, <1>d, <2>1, <2>3, LimitsAssumption DEF Remove, Shifting, In
  <2> QED BY <2>2, <2>3
<1>3. CASE Rename
  <2>1. /\ target' = target /\ i > 2 /\ pc' = "shift" /\ i' = i - 1
        /\ disk' = Renamed(i - 2, i - 1)
    BY <1>3 DEF Rename, IInv, InLoop
  <2>2. {i - 2, i - 1} \subseteq Slots /\ (i - 2) + 1 = i - 1 /\ i - 1 # i - 2
    BY <1>d, <2>1, LimitsAssumption DEF Slots
  <2>3. In(i - 1) = NoLog
    BY <1>3 DEF Rename, Shifting
  <2>4. disk'[target][i - 2] = NoLog
    BY <1>d, <1>e, <1>3, <2>1, <2>2, <2>3 DEF Rename, Renamed, In
  <2>5. i' # MaxFiles + 1 /\ i' - 1 = i - 2
    BY <1>d, <2>1, LimitsAssumption
  <2> QED BY <2>1, <2>4, <2>5 DEF Shifting, In
<1>5. CASE Start \/ Exit \/ RenameFirst \/ CreateLog
  BY <1>5, <1>a DEF Start, OpenFile, Exit, RenameFirst, CreateLog
<1>6. ASSUME NEW log, NEW isBig, AfterWrite(log, isBig) PROVE Shifting'
  BY <1>6, <1>a DEF AfterWrite, OpenFile
<1>7. CASE FileWrite \/ WriteText
  BY <1>6, <1>7 DEF FileWrite, WriteText
<1>8. ASSUME NEW p \in Paths, NEW r \in BOOLEAN, ChangeLogFile(p, r) PROVE Shifting'
  BY <1>8, <1>a DEF ChangeLogFile, OpenFile
<1>9. CASE OpenLog \/ ReopenLog
  BY <1>9, <1>a DEF OpenLog, ReopenLog, Opened, NotOpened, OpenFile
<1>10. CASE Hold \/ Release \/ UNCHANGED vars
  BY <1>0, <1>10 DEF Hold, Release, vars, files, opening
<1> QED
  BY <1>1, <1>2, <1>3, <1>5, <1>7, <1>8, <1>9, <1>10
  DEF Next, Job, Rotation, Opening

(* Which logs a renaming step leaves: all of them.                         *)
LEMMA RenamedKeepsLogs ==
    ASSUME TypeOK, NEW from \in Slots, from + 1 \in Slots,
           disk' = Renamed(from, from + 1), NEW p \in Paths
    PROVE  LogsAt(p)' = LogsAt(p)
<1>1. CASE disk' = disk
  BY <1>1 DEF LogsAt
<1>2. CASE /\ In(from + 1) = NoLog
           /\ \A q \in Paths, s \in Slots :
                 disk'[q][s] = IF q = target /\ s = from + 1 THEN In(from)
                               ELSE IF q = target /\ s = from THEN NoLog
                               ELSE disk[q][s]
  <2>1. ASSUME NEW s \in Slots PROVE disk'[p][s] \in LogsAt(p) \cup {NoLog}
    BY <1>2, <2>1 DEF LogsAt, In
  <2>2. ASSUME NEW s \in Slots PROVE disk[p][s] \in LogsAt(p)' \cup {NoLog}
    <3>1. disk'[p][from + 1] = disk[p][from] \/ p # target
      BY <1>2 DEF In
    <3>2. CASE p = target /\ s = from
      BY <3>1, <3>2 DEF LogsAt
    <3>3. CASE p = target /\ s = from + 1
      BY <1>2, <3>3 DEF In
    <3>4. CASE ~(p = target /\ s \in {from, from + 1})
      <4>1. disk'[p][s] = disk[p][s]
        BY <1>2, <3>4
      <4> QED BY <4>1 DEF LogsAt
    <3> QED BY <3>2, <3>3, <3>4
  <2> QED BY <2>1, <2>2 DEF LogsAt
<1> QED BY <1>1, <1>2, RenamedEffect

(* RotatedLogs counts with the same operator.                              *)
LEMMA SameCardinality == \A S : Rotated!Cardinality(S) = Cardinality(S)
BY DEF Rotated!Cardinality, Cardinality

(* Without other programs, and through crashes at any moment, the numbered *)
(* files are a RotatedLogs: a log is given up only when every slot is      *)
(* taken, and it is the oldest.                                            *)
THEOREM AlwaysRotatedLogs ==
    ASSUME Holds = {}
    PROVE  Spec => ImplementsRotatedLogs
<1> DEFINE kept == [p \in Paths |-> LogsAt(p)]
<1>1. Init => Rotated!Init
  <2> SUFFICES ASSUME Init PROVE Rotated!Init
    OBVIOUS
  <2>1. \A p \in Paths : LogsAt(p) = {}
    BY DEF Init, LogsAt
  <2> QED BY <2>1 DEF Init, Rotated!Init
<1>2. Init => Guarded /\ Shifting
  BY DEF Init, Guarded, Shifting
<1>3. IInv /\ Guarded /\ Shifting /\ [Next]_vars => Guarded' /\ Shifting'
  BY GuardedNext, ShiftingNext
<1>4. ASSUME IInv, Guarded, Shifting, [Next]_vars
      PROVE  [Rotated!Next]_<<kept, created>>
  <2>0. /\ TypeOK /\ Ordered /\ Numbered
        /\ disk \in [Paths -> [Slots -> {NoLog} \cup Logs]]
        /\ target \in Paths /\ i \in 1..(MaxFiles + 1) /\ created \in Nat
    BY <1>4 DEF IInv, TypeOK, FilesOK, OpeningOK
  <2>a. ASSUME created' = created, \A p \in Paths : LogsAt(p)' = LogsAt(p)
        PROVE  UNCHANGED <<kept, created>>
    BY <2>a
  <2>b. ASSUME UNCHANGED <<disk, created>> PROVE UNCHANGED <<kept, created>>
    BY <2>a, <2>b DEF LogsAt
  <2>1. CASE Rename
    <3>1. i - 2 \in Slots /\ (i - 2) + 1 \in Slots /\ (i - 2) + 1 = i - 1
      BY <1>4, <2>0, <2>1, LimitsAssumption DEF IInv, Rename, Slots, InLoop
    <3> QED BY <2>0, <2>1, <2>a, <3>1, RenamedKeepsLogs DEF Rename
  <2>2. CASE RenameFirst
    <3>1. 0 \in Slots /\ 0 + 1 \in Slots /\ 0 + 1 = 1
      BY LimitsAssumption DEF Slots
    <3> QED BY <2>0, <2>2, <2>a, <3>1, RenamedKeepsLogs DEF RenameFirst
  <2>3. CASE CreateLog
    <3>1. CASE UNCHANGED <<disk, created>>
      BY <2>b, <3>1
    <3>2. CASE /\ created' = created + 1
               /\ disk' = [disk EXCEPT ![target][0] = created + 1]
      <4>1. 0 \in Slots /\ disk[target][0] = NoLog
        BY <1>4, <2>3, LimitsAssumption DEF CreateLog, Guarded, In, Slots
      <4>2. \A p \in Paths, s \in Slots :
               disk'[p][s] = IF p = target /\ s = 0 THEN created + 1 ELSE disk[p][s]
        BY <2>0, <3>2, <4>1
      <4>3. \A p \in Paths : p = target => LogsAt(p)' = LogsAt(p) \cup {created + 1}
        <5> SUFFICES ASSUME NEW p \in Paths, p = target
                     PROVE  LogsAt(p)' = LogsAt(p) \cup {created + 1}
          OBVIOUS
        <5>1. created + 1 # NoLog
          BY <2>0 DEF NoLog
        <5>2. disk'[p][0] = created + 1
              /\ \A s \in Slots : s # 0 => disk'[p][s] = disk[p][s]
          BY <4>1, <4>2
        <5> QED BY <4>1, <5>1, <5>2 DEF LogsAt
      <4>4. \A p \in Paths : p # target => LogsAt(p)' = LogsAt(p)
        BY <4>2 DEF LogsAt
      <4>5. kept' = [kept EXCEPT ![target] = @ \cup {created + 1}]
        BY <2>0, <4>3, <4>4
      <4>6. Cardinality(kept[target]) < MaxFiles + 1
        BY <2>0, <4>1, RoomCount
      <4>7. Rotated!New(target)
        BY <2>0, <3>2, <4>5, <4>6, SameCardinality DEF Rotated!New
      <4> QED BY <2>0, <4>7 DEF Rotated!Next
    <3> QED BY <2>3, <3>1, <3>2 DEF CreateLog
  <2>4. CASE Remove
    <3>1. CASE disk' = disk
      BY <2>4, <2>b, <3>1 DEF Remove
    <3>2. CASE disk' # disk
      <4>1. /\ i > 2 /\ pc = "shift" /\ created' = created
            /\ In(i - 1) # NoLog
            /\ disk' = [disk EXCEPT ![target][i - 1] = NoLog]
        BY <2>4, <3>2 DEF Remove, Opens
      <4>2. i = MaxFiles + 1 /\ MaxFiles \in Slots
        BY <1>4, <2>0, <4>1, LimitsAssumption DEF Shifting, Slots
      <4>3. \A s \in Slots : disk[target][s] # NoLog
        <5> SUFFICES ASSUME NEW s \in Slots PROVE In(s) # NoLog
          BY DEF In
        <5>1. CASE s = MaxFiles
          BY <4>1, <4>2, <5>1, LimitsAssumption
        <5>2. CASE s # MaxFiles
          <6>1. s \in 0..(MaxFiles - 1)
            BY <5>2, LimitsAssumption DEF Slots
          <6> QED BY <1>4, <4>1, <4>2, <6>1 DEF Shifting
        <5> QED BY <5>1, <5>2
      <4>4. Cardinality(LogsAt(target)) = MaxFiles + 1
        BY <2>0, <4>3, FullCount DEF Taken
      <4> DEFINE oldest == disk[target][MaxFiles]
      <4>5. \A s \in Slots : s # MaxFiles => oldest < disk[target][s]
        BY <2>0, <4>2, <4>3 DEF Ordered, Slots
      <4>6. oldest \in LogsAt(target) /\ oldest \in Nat
        BY <2>0, <4>2, <4>3 DEF LogsAt, NoLog, Logs
      <4>7. \A log \in LogsAt(target) : oldest <= log
        BY <2>0, <4>5, <4>6 DEF LogsAt, NoLog, Logs
      <4>8. \A p \in Paths, s \in Slots :
               disk'[p][s] = IF p = target /\ s = MaxFiles THEN NoLog ELSE disk[p][s]
        <5>1. i - 1 = MaxFiles
          BY <4>2, LimitsAssumption
        <5> QED BY <2>0, <4>1, <4>2, <5>1
      <4>9. \A p \in Paths : p = target => LogsAt(p)' = LogsAt(p) \ {oldest}
        <5> SUFFICES ASSUME NEW p \in Paths, p = target
                     PROVE  LogsAt(p)' = LogsAt(p) \ {oldest}
          OBVIOUS
        <5>1. \A s \in Slots : s # MaxFiles => disk[p][s] # oldest
          BY <2>0, <4>5, <4>6 DEF NoLog, Logs
        <5>2. disk'[p][MaxFiles] = NoLog
              /\ \A s \in Slots : s # MaxFiles => disk'[p][s] = disk[p][s]
          BY <4>2, <4>8
        <5> QED BY <4>2, <5>1, <5>2 DEF LogsAt
      <4>10. \A p \in Paths : p # target => LogsAt(p)' = LogsAt(p)
        BY <4>8 DEF LogsAt
      <4>11. kept' = [kept EXCEPT ![target] = @ \ {oldest}]
        BY <2>0, <4>9, <4>10
      <4>12. Rotated!DropOldest(target)
        BY <2>0, <4>1, <4>4, <4>6, <4>7, <4>11, SameCardinality DEF Rotated!DropOldest
      <4> QED BY <2>0, <4>12 DEF Rotated!Next
    <3> QED BY <3>1, <3>2
  <2> QED
    BY <1>4, <2>b, <2>1, <2>2, <2>3, <2>4
    DEF Next, Job, Rotation, Opening, Start, Exit, FileWrite, ChangeLogFile, WriteText,
        Search, OpenLog, ReopenLog, Hold, Release, vars, files
<1> QED
  BY <1>1, <1>2, <1>3, <1>4, IInvInit, IInvNext, PTL
  DEF Spec, ImplementsRotatedLogs, Rotated!Spec
=============================================================================
