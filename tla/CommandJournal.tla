--------------------------- MODULE CommandJournal ---------------------------
(* What the command journal promises, without threads, agent or calls: a   *)
(* command is accepted once, sent at most once and only while it is         *)
(* pending, and gets one verdict.  Those that a crash left pending get      *)
(* theirs together; a start is completed only if it was sent.               *)
EXTENDS Naturals

CONSTANTS Commands, Starts, Verdicts

VARIABLES status, sends

vars == <<status, sends>>

Init ==
  /\ status = [k \in Commands |-> "absent"]
  /\ sends = [k \in Commands |-> 0]

Accept(k) ==
  /\ status[k] = "absent"
  /\ status' = [status EXCEPT ![k] = "pending"]
  /\ UNCHANGED sends

Send(k) ==
  /\ status[k] = "pending"
  /\ sends[k] = 0
  /\ sends' = [sends EXCEPT ![k] = 1]
  /\ UNCHANGED status

Decide(k, verdict) ==
  /\ status[k] = "pending"
  /\ verdict = "completed" /\ k \in Starts => sends[k] = 1
  /\ status' = [status EXCEPT ![k] = verdict]
  /\ UNCHANGED sends

Recover ==
  /\ status' = [k \in Commands |->
                  IF status[k] = "pending" THEN "indeterminate" ELSE status[k]]
  /\ UNCHANGED sends

Next ==
  \/ \E k \in Commands :
       Accept(k) \/ Send(k) \/ \E verdict \in Verdicts : Decide(k, verdict)
  \/ Recover

Spec == Init /\ [][Next]_vars
=============================================================================
