---------------------------- MODULE TaskPromise ----------------------------
(***************************************************************************)
(* What a scheduled print is to whoever submitted it: it waits, and then   *)
(* either its start command goes out, once, or it never will.  Only a task *)
(* that has come loose - the machine failed between taking it up and       *)
(* striking it off - may be sent again.  Rows, jobs, threads, uploads and  *)
(* crashes are TaskLifecycle's.                                            *)
(***************************************************************************)
CONSTANT Tasks

VARIABLES phase, loose

Phases == {"none", "waiting", "sent", "over", "sent again"}

\* What can become of any task: nothing brings back what is over.
Moves == {<<"none", "waiting">>, <<"waiting", "sent">>, <<"waiting", "over">>}
Again == {<<"sent", "sent again">>}

Init == phase = [t \in Tasks |-> "none"] /\ loose = {}

\* A crash can end several tasks at once.
Next ==
  /\ phase' \in [Tasks -> Phases]
  /\ loose \subseteq loose'
  /\ \A t \in Tasks :
       \/ phase'[t] = phase[t]
       \/ <<phase[t], phase'[t]>> \in Moves \cup (IF t \in loose THEN Again ELSE {})

Spec == Init /\ [][Next]_<<phase, loose>>
=============================================================================
