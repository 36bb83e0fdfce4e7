------------------------------- MODULE Active -------------------------------
(***************************************************************************)
(* Include/active.h and src/active.cpp: a background thread that runs the  *)
(* callbacks other threads send it.  The message queue is used through the *)
(* atomic operations of FifoQueue, which SharedQueue implements.           *)
(*                                                                         *)
(* sent and ran are history: the callbacks pushed, and the callbacks whose *)
(* call has returned, normally or by an exception that run swallows.       *)
(***************************************************************************)
EXTENDS Naturals, Sequences

CONSTANTS Jobs,        \* the callbacks clients send
          Quit,        \* the callback bound to doDone
          NoJob

Callbacks == Jobs \cup {Quit}

ASSUME JobsAssumption == Quit \notin Jobs /\ NoJob \notin Callbacks

VARIABLES mq_, done_,
          pc,          \* where the background thread is in run
          func,        \* the callback run has popped
          life,        \* the object: "alive", "joining" in ~Active, "joined"
          sent, ran
vars == <<mq_, done_, pc, func, life, sent, ran>>

Queue == INSTANCE FifoQueue WITH Items <- Callbacks, contents <- mq_

(* createActive: the thread starts on an object already constructed.       *)
Init == /\ Queue!Init
        /\ done_ = FALSE
        /\ pc = "test"
        /\ func = NoJob
        /\ life = "alive"
        /\ sent = <<>>
        /\ ran = <<>>

-----------------------------------------------------------------------------
(* Mutants: plausible mistakes in the code, for the model to detect.       *)

(* ~Active sets done_ itself instead of sending the token.                 *)
MutQuitOutOfBand ==
    /\ life = "alive"
    /\ life' = "joining"
    /\ done_' = TRUE
    /\ Queue!Put(Quit)
    /\ sent' = Append(sent, Quit)
    /\ UNCHANGED <<pc, func, ran>>

(* doDone ends the thread only when nothing is queued behind the token.    *)
MutDoneWhenDrained ==
    /\ pc = "call"
    /\ done_' = (done_ \/ (func = Quit /\ mq_ = <<>>))
    /\ ran' = Append(ran, func)
    /\ pc' = "test"
    /\ func' = NoJob
    /\ UNCHANGED <<mq_, life, sent>>

(* The exception handler is outside the loop: a throwing callback ends it. *)
MutThrowEndsThread ==
    /\ pc = "call"
    /\ done_' = (done_ \/ func = Quit)
    /\ ran' = Append(ran, func)
    /\ pc' \in {"test", "exited"}
    /\ func' = NoJob
    /\ UNCHANGED <<mq_, life, sent>>

-----------------------------------------------------------------------------
(* send, by any thread that still has the object; the background thread    *)
(* may do it from a callback.  What push throws (no memory) is swallowed,  *)
(* and the callback lost: such a send changes nothing, and is no step.     *)
Send(j) == /\ life # "joined"
           /\ Queue!Put(j)
           /\ sent' = Append(sent, j)
           /\ UNCHANGED <<done_, pc, func, life, ran>>

(* while (!done_).                                                         *)
TestDone == /\ pc = "test"
            /\ pc' = IF done_ THEN "exited" ELSE "pop"
            /\ UNCHANGED <<mq_, done_, func, life, sent, ran>>

(* wait_infitine_and_pop.                                                  *)
Pop == /\ pc = "pop"
       /\ Queue!Take
       /\ func' = Head(mq_)
       /\ pc' = "call"
       /\ UNCHANGED <<done_, life, sent, ran>>

(* func() returns or throws; the quit token's func is doDone.              *)
Call == /\ pc = "call"
        /\ done_' = (done_ \/ func = Quit)
        /\ ran' = Append(ran, func)
        /\ pc' = "test"
        /\ func' = NoJob
        /\ UNCHANGED <<mq_, life, sent>>

(* ~Active: send the quit token, then join the thread.                     *)
SendQuit == /\ life = "alive"
            /\ life' = "joining"
            /\ Queue!Put(Quit)
            /\ sent' = Append(sent, Quit)
            /\ UNCHANGED <<done_, pc, func, ran>>

(* The token is lost in the same way, and join waits for it in vain.       *)
LoseQuit == /\ life = "alive"
            /\ life' = "joining"
            /\ UNCHANGED <<mq_, done_, pc, func, sent, ran>>

(* join returns and the members go, mq_ with whatever it still holds.      *)
Join == /\ life = "joining"
        /\ pc = "exited"
        /\ life' = "joined"
        /\ mq_' = <<>>
        /\ UNCHANGED <<done_, pc, func, sent, ran>>

-----------------------------------------------------------------------------
Run  == TestDone \/ Pop \/ Call

Next == \/ \E j \in Jobs : Send(j)
        \/ Run \/ SendQuit \/ LoseQuit \/ Join

Spec == Init /\ [][Next]_vars

(* The background thread is scheduled and its callbacks return; a thread   *)
(* whose join can return is scheduled.                                     *)
Fairness == WF_vars(Run) /\ WF_vars(Join)

FairSpec == Spec /\ Fairness

-----------------------------------------------------------------------------
TypeOK == /\ mq_ \in Seq(Callbacks)
          /\ done_ \in BOOLEAN
          /\ pc \in {"test", "pop", "call", "exited"}
          /\ func \in Callbacks \cup {NoJob}
          /\ life \in {"alive", "joining", "joined"}
          /\ sent \in Seq(Callbacks)
          /\ ran \in Seq(Callbacks)

(* ~Active flushes (Asynclogworker.cpp:391, "flush the log queue"): when   *)
(* join has returned, exactly the callbacks sent before the quit token     *)
(* have been called, each once, in the order they were sent, and the token *)
(* last; nothing sent after the token ran.                                 *)
FlushedAtJoin ==
    life = "joined" =>
        \E n \in 1..Len(sent) : /\ sent[n] = Quit
                                /\ \A i \in 1..(n-1) : sent[i] # Quit
                                /\ ran = SubSeq(sent, 1, n)

(* No callback is lost, repeated or overtaken while the object lives: what *)
(* ran, then what is being called, then what is queued, is what was sent.  *)
InHand == IF pc = "call" THEN <<func>> ELSE <<>>
NothingLost == life # "joined" => ran \o InHand \o mq_ = sent

(* ~Active returns if its quit token got into the queue: the token is      *)
(* reached whatever is queued before it and whatever is sent behind it.    *)
TokenSent == \E i \in 1..Len(sent) : sent[i] = Quit
DestructorReturns == life = "joining" /\ TokenSent ~> life = "joined"

(* The object is a serial executor of what was sent to it.                 *)
Executor == INSTANCE SerialExecutor WITH accepted <- sent, executed <- ran
ImplementsExecutor == Executor!FairSpec
=============================================================================
