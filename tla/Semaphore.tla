------------------------------ MODULE Semaphore ------------------------------
(***************************************************************************)
(* Include/ConcRTExtras/semaphore.h: the steps of wait and release.  A     *)
(* critical section of m_cs is one action; what is outside it, waiting on  *)
(* the event of a WaitNode and signalling it, is an action of its own.     *)
(*                                                                         *)
(* A thread has at most one WaitNode, on its stack, for as long as wait()  *)
(* lasts, so a node is named by its thread.  Where a thread is in its call *)
(* is kept by the module that uses these actions, which may have several   *)
(* semaphores: they can share m_event and pNode.                           *)
(***************************************************************************)
EXTENDS SequencesExt

VARIABLES m_semVal,
          m_waitQueue,   \* the nodes, first to be dequeued first
          m_event,       \* the threads whose event has been signalled
          pNode          \* per thread: the nodes it has still to signal

MinOf(a, b) == IF a < b THEN a ELSE b

-----------------------------------------------------------------------------
(* Mutants: plausible mistakes in the code, for the model to detect.       *)

(* The node that waits shortest is dequeued first.                         *)
MutEnqueueFirst(t) == /\ m_semVal = 0
                      /\ m_waitQueue' = <<t>> \o m_waitQueue
                      /\ UNCHANGED <<m_semVal, m_event, pNode>>

(* A wait that timed out returns without removing its node.                *)
MutLeaveNode(t) == UNCHANGED <<m_semVal, m_waitQueue, m_event, pNode>>

-----------------------------------------------------------------------------
(* Decrement, with and without success: taking a permit, or a place at the *)
(* end of the queue.                                                       *)
Acquire(t) == /\ m_semVal > 0
              /\ m_semVal' = m_semVal - 1
              /\ UNCHANGED <<m_waitQueue, m_event, pNode>>

Enqueue(t) == /\ m_semVal = 0
              /\ m_waitQueue' = Append(m_waitQueue, t)
              /\ UNCHANGED <<m_semVal, m_event, pNode>>

(* WaitNode::Wait returns, and with wait() the node is gone.               *)
Granted(t) == /\ t \in m_event
              /\ m_event' = m_event \ {t}
              /\ UNCHANGED <<m_semVal, m_waitQueue, pNode>>

(* RemoveWaiter, which fails when a release has dequeued the node.         *)
InQueue(t) == \E i \in DOMAIN m_waitQueue : m_waitQueue[i] = t

Withdraw(t) == /\ \E i \in DOMAIN m_waitQueue :
                     /\ m_waitQueue[i] = t
                     /\ m_waitQueue' = RemoveAt(m_waitQueue, i)
               /\ UNCHANGED <<m_semVal, m_event, pNode>>

TooLate(t) == /\ ~InQueue(t)
              /\ UNCHANGED <<m_semVal, m_waitQueue, m_event, pNode>>

(* Increment: of count permits, waiters get theirs, in the order they came.*)
Increment(t, count) ==
    LET n == MinOf(count, Len(m_waitQueue))
    IN  /\ pNode' = [pNode EXCEPT ![t] = SubSeq(m_waitQueue, 1, n)]
        /\ m_waitQueue' = SubSeq(m_waitQueue, n + 1, Len(m_waitQueue))
        /\ m_semVal' = m_semVal + (count - n)
        /\ UNCHANGED m_event

(* The loop of release: pNode[t] is the pNext it has read before Signal.   *)
Signal(t) == /\ pNode[t] # <<>>
             /\ m_event' = m_event \cup {Head(pNode[t])}
             /\ pNode' = [pNode EXCEPT ![t] = Tail(@)]
             /\ UNCHANGED <<m_semVal, m_waitQueue>>
=============================================================================
