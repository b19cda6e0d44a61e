----------------------------- MODULE TaskChannel -----------------------------
(***************************************************************************)
(* What one worker promises to the threads that schedule tasks on it: an   *)
(* unbounded-looking FIFO.  A task is either refused, and then freed by    *)
(* the scheduler, or accepted, and then run exactly once, in the order of  *)
(* acceptance, after which it is freed unless its run() claimed ownership. *)
(* Worker.tla (MessageQueue + Notifier + Worker) implements this module.   *)
(***************************************************************************)
EXTENDS Sequences, Functions

CONSTANT Tasks

VARIABLES
  pending,  \* accepted and not finished, in the order of acceptance
  ran,      \* finished, in the order in which they ran
  freed     \* tasks that were deleted

chanVars == <<pending, ran, freed>>

Fresh(c) == c \notin Range(pending) \cup Range(ran) \cup freed

Init ==
  /\ pending = <<>>
  /\ ran = <<>>
  /\ freed = {}

Accept(c) ==
  /\ Fresh(c)
  /\ pending' = Append(pending, c)
  /\ UNCHANGED <<ran, freed>>

Refuse(c) ==
  /\ Fresh(c)
  /\ freed' = freed \cup {c}
  /\ UNCHANGED <<pending, ran>>

Finish ==
  /\ pending # <<>>
  /\ pending' = Tail(pending)
  /\ ran' = Append(ran, Head(pending))
  /\ \/ freed' = freed \cup {Head(pending)}
     \/ UNCHANGED freed

Next ==
  \/ \E c \in Tasks : Accept(c) \/ Refuse(c)
  \/ Finish

Spec == Init /\ [][Next]_chanVars
==============================================================================
