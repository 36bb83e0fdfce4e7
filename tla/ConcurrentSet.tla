---------------------------- MODULE ConcurrentSet ----------------------------
(***************************************************************************)
(* What a concurrent hash container promises: each insertion happens at    *)
(* once, and a container without multimapping never holds two elements of  *)
(* one key.  An element has a name of its own, elements of one key differ. *)
(***************************************************************************)
CONSTANT Names
VARIABLES contents,    \* the elements
          multimapping \* _M_allow_multimapping
vars == <<contents, multimapping>>

Init == contents = {} /\ multimapping \in BOOLEAN

Insert(e) == /\ multimapping \/ \A f \in contents : f.val # e.val
             /\ contents' = contents \cup {e}
             /\ UNCHANGED multimapping

(* Erasing and clearing, which nothing else may happen beside.             *)
Remove(s) == /\ s # {} /\ s \subseteq contents
             /\ contents' = contents \ s
             /\ UNCHANGED multimapping

Next == \/ \E e \in Names : Insert(e)
        \/ \E s \in SUBSET contents : Remove(s)

Spec == Init /\ [][Next]_vars
=============================================================================
