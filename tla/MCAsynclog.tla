----------------------------- MODULE MCAsynclog -----------------------------
(* TLC instances of Asynclog: sets of the ways of using it.                *)
EXTENDS Asynclog

(* With two loggers, of which one at a time is active, and nothing that    *)
(* changes under a LOG statement.                                          *)
AsDocumented == [loggers |-> {"worker", "other"}, calls |-> 3, fatal |-> FALSE,
                 racing |-> {}, secondInit |-> FALSE, changes |-> {}, lossy |-> FALSE]
(* The log file is changed under LOG statements.                           *)
Changing == [AsDocumented EXCEPT !.calls = 2, !.changes = {"opened"}]
(* Threads that LOG(FATAL), and change the log file before and behind it.  *)
WithFatal == [Changing EXCEPT !.loggers = {"worker"}, !.fatal = TRUE]
(* Everything at any moment, with fatal messages of one kind or the other. *)
Anyhow == [WithFatal EXCEPT !.racing = {"init", "shutdown"}, !.changes = {}]
AnyhowTwice == [Anyhow EXCEPT !.fatal = FALSE, !.secondInit = TRUE]
(* Pushes and changes of log file fail, under a destructor at any moment;  *)
(* with fatal messages, and fewer of them.                                 *)
Failing == [Changing EXCEPT !.loggers = {"worker"}, !.racing = {"shutdown"},
                            !.changes = {"opened", "failed"}, !.lossy = TRUE]
FailingFatally == [Failing EXCEPT !.calls = 1, !.fatal = TRUE]

AllUsages == {AsDocumented, Changing, WithFatal, Anyhow, AnyhowTwice, Failing, FailingFatally}

(* initializeLogging when already initialized.                             *)
InitializedTwice == {[Anyhow EXCEPT !.fatal = FALSE, !.racing = {}, !.secondInit = TRUE]}
(* LOG(FATAL) while another thread logs.                                   *)
FatalUnderLog == {[WithFatal EXCEPT !.changes = {}]}
(* LOG(FATAL) while another thread logs and changes the log file.          *)
FatalUnderChange == {WithFatal}
(* The worker destroyed while other threads log.                           *)
DestroyedUnderLog == {[Anyhow EXCEPT !.fatal = FALSE, !.racing = {"shutdown"}]}
(* A worker destroyed while another is initialized.                        *)
DestroyedUnderInit == {[Anyhow EXCEPT !.loggers = {"worker", "other"}, !.fatal = FALSE]}
=============================================================================
