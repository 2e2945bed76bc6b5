-------------------------- MODULE CallCommandProofs --------------------------
(* The call commands keep their invariant, whatever the number of requests, *)
(* calls and threads and whatever goes wrong; what needs a fault to stay     *)
(* away says so.  Every step of the coordinator has a lemma with one step    *)
(* for each part of the invariant.                                           *)
EXTENDS CallCommand, TLAPS

USE NamesAssumption
    DEF vars, journal, history, modem, thread, Goto, Commands, PCs, Reasons,
        Verdicts, Statuses, Placed, Dialled

\* Nothing is running, journalled or known at the start.
LEMMA InitInvariant == Init => IInv
BY DEF Init, IInv, TypeOK, Exclusive, Owned, Shape, Sent, RowsTruthful,
       HiddenCalls, Recent, Established, CompletedIsTrue

\* A start gets an entry of its own: nothing was sent for it, no call has it.
LEMMA StartCallStep ==
  ASSUME IInv, NEW t \in Threads, NEW k \in Commands, StartCall(t, k)
  PROVE  IInv'
<1> USE DEF StartCall, Begin, Fresh
<1>1. TypeOK' BY DEF IInv, TypeOK, Shape
<1>2. Exclusive' BY DEF IInv, TypeOK, Exclusive, Shape
<1>3. Owned' BY DEF IInv, TypeOK, Exclusive, Owned, Shape
<1>4. Shape' BY DEF IInv, TypeOK, Exclusive, Owned, Shape, RowsTruthful
<1>5. Sent' BY DEF IInv, TypeOK, Exclusive, Owned, Shape, Sent
<1>6. RowsTruthful' BY DEF IInv, TypeOK, Shape, RowsTruthful, HiddenCalls,
      Recent, Established, Sent
<1>7. Recent' BY DEF IInv, TypeOK, Exclusive, Shape, RowsTruthful,
      HiddenCalls, Recent
<1>8. Established' BY DEF IInv, TypeOK, Exclusive, Owned, Shape, Sent,
      RowsTruthful, HiddenCalls, Recent, Established
<1>9. CompletedIsTrue' BY DEF IInv, TypeOK, Owned, Shape, RowsTruthful,
      HiddenCalls, Recent, Established, CompletedIsTrue, Sent
<1>10. HiddenCalls' BY DEF IInv, TypeOK, Shape, RowsTruthful, HiddenCalls,
      Recent, Sent
<1> QED BY <1>1, <1>2, <1>3, <1>4, <1>5, <1>6, <1>7, <1>8, <1>9, <1>10 DEF IInv

\* A hang-up gets an entry of its own and the row of its call stays.
LEMMA CallActionStep ==
  ASSUME IInv, NEW t \in Threads, NEW k \in Commands, NEW c \in Calls, CallAction(t, k, c)
  PROVE  IInv'
<1> USE DEF CallAction, Begin, Fresh
<1>1. TypeOK' BY DEF IInv, TypeOK, Shape
<1>2. Exclusive' BY DEF IInv, TypeOK, Exclusive, Shape
<1>3. Owned' BY DEF IInv, TypeOK, Exclusive, Owned, Shape
<1>4. Shape' BY DEF IInv, TypeOK, Exclusive, Owned, Shape, RowsTruthful
<1>5. Sent' BY DEF IInv, TypeOK, Exclusive, Owned, Shape, Sent
<1>6. RowsTruthful' BY DEF IInv, TypeOK, Shape, RowsTruthful, HiddenCalls,
      Recent, Established, Sent
<1>7. Recent' BY DEF IInv, TypeOK, Exclusive, Shape, RowsTruthful,
      HiddenCalls, Recent
<1>8. Established' BY DEF IInv, TypeOK, Exclusive, Owned, Shape, Sent,
      RowsTruthful, HiddenCalls, Recent, Established
<1>9. CompletedIsTrue' BY DEF IInv, TypeOK, Owned, Shape, RowsTruthful,
      HiddenCalls, Recent, Established, CompletedIsTrue, Sent
<1>10. HiddenCalls' BY DEF IInv, TypeOK, Shape, RowsTruthful, HiddenCalls,
      Recent, Sent
<1> QED BY <1>1, <1>2, <1>3, <1>4, <1>5, <1>6, <1>7, <1>8, <1>9, <1>10 DEF IInv

\* A refresh has no command.
LEMMA PollStep ==
  ASSUME IInv, NEW t \in Threads, Poll(t)
  PROVE  IInv'
<1> USE DEF Poll
<1>1. TypeOK' BY DEF IInv, TypeOK, Shape
<1>2. Exclusive' BY DEF IInv, TypeOK, Exclusive, Shape
<1>3. Owned' BY DEF IInv, TypeOK, Exclusive, Owned, Shape
<1>4. Shape' BY DEF IInv, TypeOK, Exclusive, Owned, Shape, RowsTruthful
<1>5. Sent' BY DEF IInv, TypeOK, Exclusive, Owned, Shape, Sent
<1>6. RowsTruthful' BY DEF IInv, TypeOK, Shape, RowsTruthful, HiddenCalls,
      Recent, Established, Sent
<1>7. Recent' BY DEF IInv, TypeOK, Exclusive, Shape, RowsTruthful,
      HiddenCalls, Recent
<1>8. Established' BY DEF IInv, TypeOK, Exclusive, Owned, Shape, Sent,
      RowsTruthful, HiddenCalls, Recent, Established
<1>9. CompletedIsTrue' BY DEF IInv, TypeOK, Owned, Shape, RowsTruthful,
      HiddenCalls, Recent, Established, CompletedIsTrue, Sent
<1>10. HiddenCalls' BY DEF IInv, TypeOK, Shape, RowsTruthful, HiddenCalls,
      Recent, Sent
<1> QED BY <1>1, <1>2, <1>3, <1>4, <1>5, <1>6, <1>7, <1>8, <1>9, <1>10 DEF IInv

\* coordinatorMu was free, so no other thread is beyond "lock".
LEMMA AcquireStep ==
  ASSUME IInv, NEW t \in Threads, Acquire(t)
  PROVE  IInv'
<1> USE DEF Acquire, Acquirable
<1>1. TypeOK' BY DEF IInv, TypeOK, Shape
<1>2. Exclusive' BY DEF IInv, TypeOK, Exclusive, Shape
<1>3. Owned' BY DEF IInv, TypeOK, Exclusive, Owned, Shape
<1>4. Shape' BY DEF IInv, TypeOK, Exclusive, Owned, Shape, RowsTruthful
<1>5. Sent' BY DEF IInv, TypeOK, Exclusive, Owned, Shape, Sent
<1>6. RowsTruthful' BY DEF IInv, TypeOK, Shape, RowsTruthful, HiddenCalls,
      Recent, Established, Sent
<1>7. Recent' BY DEF IInv, TypeOK, Exclusive, Shape, RowsTruthful,
      HiddenCalls, Recent
<1>8. Established' BY DEF IInv, TypeOK, Exclusive, Owned, Shape, Sent,
      RowsTruthful, HiddenCalls, Recent, Established
<1>9. CompletedIsTrue' BY DEF IInv, TypeOK, Owned, Shape, RowsTruthful,
      HiddenCalls, Recent, Established, CompletedIsTrue, Sent
<1>10. HiddenCalls' BY DEF IInv, TypeOK, Shape, RowsTruthful, HiddenCalls,
      Recent, Sent
<1> QED BY <1>1, <1>2, <1>3, <1>4, <1>5, <1>6, <1>7, <1>8, <1>9, <1>10 DEF IInv

\* Only the thread moves.
LEMMA FailLocalStep ==
  ASSUME IInv, NEW t \in Threads, FailLocal(t)
  PROVE  IInv'
<1> USE DEF FailLocal
<1>1. TypeOK' BY DEF IInv, TypeOK, Shape
<1>2. Exclusive' BY DEF IInv, TypeOK, Exclusive, Shape
<1>3. Owned' BY DEF IInv, TypeOK, Exclusive, Owned, Shape
<1>4. Shape' BY DEF IInv, TypeOK, Exclusive, Owned, Shape, RowsTruthful
<1>5. Sent' BY DEF IInv, TypeOK, Exclusive, Owned, Shape, Sent
<1>6. RowsTruthful' BY DEF IInv, TypeOK, Shape, RowsTruthful, HiddenCalls,
      Recent, Established, Sent
<1>7. Recent' BY DEF IInv, TypeOK, Exclusive, Shape, RowsTruthful,
      HiddenCalls, Recent
<1>8. Established' BY DEF IInv, TypeOK, Exclusive, Owned, Shape, Sent,
      RowsTruthful, HiddenCalls, Recent, Established
<1>9. CompletedIsTrue' BY DEF IInv, TypeOK, Owned, Shape, RowsTruthful,
      HiddenCalls, Recent, Established, CompletedIsTrue, Sent
<1>10. HiddenCalls' BY DEF IInv, TypeOK, Shape, RowsTruthful, HiddenCalls,
      Recent, Sent
<1> QED BY <1>1, <1>2, <1>3, <1>4, <1>5, <1>6, <1>7, <1>8, <1>9, <1>10 DEF IInv

\* The row the thread read under coordinatorMu is closed.
LEMMA AlreadyOverStep ==
  ASSUME IInv, NEW t \in Threads, AlreadyOver(t)
  PROVE  IInv'
<1> USE DEF AlreadyOver
<1>1. TypeOK' BY DEF IInv, TypeOK, Shape
<1>2. Exclusive' BY DEF IInv, TypeOK, Exclusive, Shape
<1>3. Owned' BY DEF IInv, TypeOK, Exclusive, Owned, Shape
<1>4. Shape' BY DEF IInv, TypeOK, Exclusive, Owned, Shape, RowsTruthful
<1>5. Sent' BY DEF IInv, TypeOK, Exclusive, Owned, Shape, Sent
<1>6. RowsTruthful' BY DEF IInv, TypeOK, Shape, RowsTruthful, HiddenCalls,
      Recent, Established, Sent
<1>7. Recent' BY DEF IInv, TypeOK, Exclusive, Shape, RowsTruthful,
      HiddenCalls, Recent
<1>8. Established' BY DEF IInv, TypeOK, Exclusive, Owned, Shape, Sent,
      RowsTruthful, HiddenCalls, Recent, Established
<1>9. CompletedIsTrue' BY DEF IInv, TypeOK, Owned, Shape, RowsTruthful,
      HiddenCalls, Recent, Established, CompletedIsTrue, Sent
<1>10. HiddenCalls' BY DEF IInv, TypeOK, Shape, RowsTruthful, HiddenCalls,
      Recent, Sent
<1> QED BY <1>1, <1>2, <1>3, <1>4, <1>5, <1>6, <1>7, <1>8, <1>9, <1>10 DEF IInv

\* The command was not sent before, so it has not dialled.
LEMMA DispatchStep ==
  ASSUME IInv, NEW t \in Threads, Dispatch(t)
  PROVE  IInv'
<1> USE DEF Dispatch
<1>1. TypeOK' BY DEF IInv, TypeOK, Shape
<1>2. Exclusive' BY DEF IInv, TypeOK, Exclusive, Shape
<1>3. Owned' BY DEF IInv, TypeOK, Exclusive, Owned, Shape
<1>4. Shape' BY DEF IInv, TypeOK, Exclusive, Owned, Shape, RowsTruthful
<1>5. Sent' BY DEF IInv, TypeOK, Exclusive, Owned, Shape, Sent
<1>6. RowsTruthful' BY DEF IInv, TypeOK, Shape, RowsTruthful, HiddenCalls,
      Recent, Established, Sent
<1>7. Recent' BY DEF IInv, TypeOK, Exclusive, Shape, RowsTruthful,
      HiddenCalls, Recent
<1>8. Established' BY DEF IInv, TypeOK, Exclusive, Owned, Shape, Sent,
      RowsTruthful, HiddenCalls, Recent, Established
<1>9. CompletedIsTrue' BY DEF IInv, TypeOK, Owned, Shape, RowsTruthful,
      HiddenCalls, Recent, Established, CompletedIsTrue, Sent
<1>10. HiddenCalls' BY DEF IInv, TypeOK, Shape, RowsTruthful, HiddenCalls,
      Recent, Sent
<1> QED BY <1>1, <1>2, <1>3, <1>4, <1>5, <1>6, <1>7, <1>8, <1>9, <1>10 DEF IInv

\* The new call is the first of its request and has no row yet.
LEMMA DialStep ==
  ASSUME IInv, NEW t \in Threads, NEW c \in Calls, Dial(t, c)
  PROVE  IInv'
<1> USE DEF Dial, DialAnswer
<1>1. TypeOK' BY DEF IInv, TypeOK, Shape
<1>2. Exclusive' BY DEF IInv, TypeOK, Exclusive, Shape
<1>3. Owned' BY DEF IInv, TypeOK, Exclusive, Owned, Shape
<1>4. Shape' BY DEF IInv, TypeOK, Exclusive, Owned, Shape, RowsTruthful
<1>5. Sent' BY DEF IInv, TypeOK, Exclusive, Owned, Shape, Sent
<1>6. RowsTruthful' BY DEF IInv, TypeOK, Shape, RowsTruthful, HiddenCalls,
      Recent, Established, Sent
<1>7. Recent' BY DEF IInv, TypeOK, Exclusive, Shape, RowsTruthful,
      HiddenCalls, Recent
<1>8. Established' BY DEF IInv, TypeOK, Exclusive, Owned, Shape, Sent,
      RowsTruthful, HiddenCalls, Recent, Established
<1>9. CompletedIsTrue' BY DEF IInv, TypeOK, Owned, Shape, RowsTruthful,
      HiddenCalls, Recent, Established, CompletedIsTrue, Sent
<1>10. HiddenCalls' BY DEF IInv, TypeOK, Shape, RowsTruthful, HiddenCalls,
      Recent, Sent
<1> QED BY <1>1, <1>2, <1>3, <1>4, <1>5, <1>6, <1>7, <1>8, <1>9, <1>10 DEF IInv

\* Only the thread moves.
LEMMA RefuseStep ==
  ASSUME IInv, NEW t \in Threads, Refuse(t)
  PROVE  IInv'
<1> USE DEF Refuse
<1>1. TypeOK' BY DEF IInv, TypeOK, Shape
<1>2. Exclusive' BY DEF IInv, TypeOK, Exclusive, Shape
<1>3. Owned' BY DEF IInv, TypeOK, Exclusive, Owned, Shape
<1>4. Shape' BY DEF IInv, TypeOK, Exclusive, Owned, Shape, RowsTruthful
<1>5. Sent' BY DEF IInv, TypeOK, Exclusive, Owned, Shape, Sent
<1>6. RowsTruthful' BY DEF IInv, TypeOK, Shape, RowsTruthful, HiddenCalls,
      Recent, Established, Sent
<1>7. Recent' BY DEF IInv, TypeOK, Exclusive, Shape, RowsTruthful,
      HiddenCalls, Recent
<1>8. Established' BY DEF IInv, TypeOK, Exclusive, Owned, Shape, Sent,
      RowsTruthful, HiddenCalls, Recent, Established
<1>9. CompletedIsTrue' BY DEF IInv, TypeOK, Owned, Shape, RowsTruthful,
      HiddenCalls, Recent, Established, CompletedIsTrue, Sent
<1>10. HiddenCalls' BY DEF IInv, TypeOK, Shape, RowsTruthful, HiddenCalls,
      Recent, Sent
<1> QED BY <1>1, <1>2, <1>3, <1>4, <1>5, <1>6, <1>7, <1>8, <1>9, <1>10 DEF IInv

\* Only the thread moves.
LEMMA DialLostStep ==
  ASSUME IInv, NEW t \in Threads, DialLost(t)
  PROVE  IInv'
<1> USE DEF DialLost
<1>1. TypeOK' BY DEF IInv, TypeOK, Shape
<1>2. Exclusive' BY DEF IInv, TypeOK, Exclusive, Shape
<1>3. Owned' BY DEF IInv, TypeOK, Exclusive, Owned, Shape
<1>4. Shape' BY DEF IInv, TypeOK, Exclusive, Owned, Shape, RowsTruthful
<1>5. Sent' BY DEF IInv, TypeOK, Exclusive, Owned, Shape, Sent
<1>6. RowsTruthful' BY DEF IInv, TypeOK, Shape, RowsTruthful, HiddenCalls,
      Recent, Established, Sent
<1>7. Recent' BY DEF IInv, TypeOK, Exclusive, Shape, RowsTruthful,
      HiddenCalls, Recent
<1>8. Established' BY DEF IInv, TypeOK, Exclusive, Owned, Shape, Sent,
      RowsTruthful, HiddenCalls, Recent, Established
<1>9. CompletedIsTrue' BY DEF IInv, TypeOK, Owned, Shape, RowsTruthful,
      HiddenCalls, Recent, Established, CompletedIsTrue, Sent
<1>10. HiddenCalls' BY DEF IInv, TypeOK, Shape, RowsTruthful, HiddenCalls,
      Recent, Sent
<1> QED BY <1>1, <1>2, <1>3, <1>4, <1>5, <1>6, <1>7, <1>8, <1>9, <1>10 DEF IInv

\* The call is over; its row is as it was.
LEMMA HangUpStep ==
  ASSUME IInv, NEW t \in Threads, HangUp(t)
  PROVE  IInv'
<1> USE DEF HangUp
<1>1. TypeOK' BY SMTT(60) DEF IInv, TypeOK, Shape
<1>2. Exclusive' BY DEF IInv, TypeOK, Exclusive, Shape
<1>3. Owned' BY SMTT(60) DEF IInv, TypeOK, Exclusive, Owned, Shape
<1>4. Shape' BY DEF IInv, TypeOK, Exclusive, Owned, Shape, RowsTruthful
<1>5. Sent' BY DEF IInv, TypeOK, Exclusive, Owned, Shape, Sent
<1>6. RowsTruthful' BY DEF IInv, TypeOK, Shape, RowsTruthful, HiddenCalls,
      Recent, Established, Sent
<1>7. Recent' BY DEF IInv, TypeOK, Exclusive, Shape, RowsTruthful,
      HiddenCalls, Recent
<1>8. Established' BY DEF IInv, TypeOK, Exclusive, Owned, Shape, Sent,
      RowsTruthful, HiddenCalls, Recent, Established
<1>9. CompletedIsTrue' BY DEF IInv, TypeOK, Owned, Shape, RowsTruthful,
      HiddenCalls, Recent, Established, CompletedIsTrue, Sent
<1>10. HiddenCalls' BY DEF IInv, TypeOK, Shape, RowsTruthful, HiddenCalls,
      Recent, Sent
<1> QED BY <1>1, <1>2, <1>3, <1>4, <1>5, <1>6, <1>7, <1>8, <1>9, <1>10 DEF IInv

\* Only the thread moves.
LEMMA HangUpFailsStep ==
  ASSUME IInv, NEW t \in Threads, HangUpFails(t)
  PROVE  IInv'
<1> USE DEF HangUpFails
<1>1. TypeOK' BY DEF IInv, TypeOK, Shape
<1>2. Exclusive' BY DEF IInv, TypeOK, Exclusive, Shape
<1>3. Owned' BY DEF IInv, TypeOK, Exclusive, Owned, Shape
<1>4. Shape' BY DEF IInv, TypeOK, Exclusive, Owned, Shape, RowsTruthful
<1>5. Sent' BY DEF IInv, TypeOK, Exclusive, Owned, Shape, Sent
<1>6. RowsTruthful' BY DEF IInv, TypeOK, Shape, RowsTruthful, HiddenCalls,
      Recent, Established, Sent
<1>7. Recent' BY DEF IInv, TypeOK, Exclusive, Shape, RowsTruthful,
      HiddenCalls, Recent
<1>8. Established' BY DEF IInv, TypeOK, Exclusive, Owned, Shape, Sent,
      RowsTruthful, HiddenCalls, Recent, Established
<1>9. CompletedIsTrue' BY DEF IInv, TypeOK, Owned, Shape, RowsTruthful,
      HiddenCalls, Recent, Established, CompletedIsTrue, Sent
<1>10. HiddenCalls' BY DEF IInv, TypeOK, Shape, RowsTruthful, HiddenCalls,
      Recent, Sent
<1> QED BY <1>1, <1>2, <1>3, <1>4, <1>5, <1>6, <1>7, <1>8, <1>9, <1>10 DEF IInv

\* The agent says that the call is over, and it is.
LEMMA GoneStep ==
  ASSUME IInv, NEW t \in Threads, Gone(t)
  PROVE  IInv'
<1> USE DEF Gone
<1>1. TypeOK' BY DEF IInv, TypeOK, Shape
<1>2. Exclusive' BY DEF IInv, TypeOK, Exclusive, Shape
<1>3. Owned' BY DEF IInv, TypeOK, Exclusive, Owned, Shape
<1>4. Shape' BY DEF IInv, TypeOK, Exclusive, Owned, Shape, RowsTruthful
<1>5. Sent' BY DEF IInv, TypeOK, Exclusive, Owned, Shape, Sent
<1>6. RowsTruthful' BY DEF IInv, TypeOK, Shape, RowsTruthful, HiddenCalls,
      Recent, Established, Sent
<1>7. Recent' BY DEF IInv, TypeOK, Exclusive, Shape, RowsTruthful,
      HiddenCalls, Recent
<1>8. Established' BY DEF IInv, TypeOK, Exclusive, Owned, Shape, Sent,
      RowsTruthful, HiddenCalls, Recent, Established
<1>9. CompletedIsTrue' BY DEF IInv, TypeOK, Owned, Shape, RowsTruthful,
      HiddenCalls, Recent, Established, CompletedIsTrue, Sent
<1>10. HiddenCalls' BY DEF IInv, TypeOK, Shape, RowsTruthful, HiddenCalls,
      Recent, Sent
<1> QED BY <1>1, <1>2, <1>3, <1>4, <1>5, <1>6, <1>7, <1>8, <1>9, <1>10 DEF IInv

\* Only the thread and the agent's leftover move.
LEMMA HangUpLostStep ==
  ASSUME IInv, NEW t \in Threads, HangUpLost(t)
  PROVE  IInv'
<1> USE DEF HangUpLost, Leftover
<1>1. TypeOK' BY SMTT(60) DEF IInv, TypeOK, Shape
<1>2. Exclusive' BY DEF IInv, TypeOK, Exclusive, Shape
<1>3. Owned' BY SMTT(60) DEF IInv, TypeOK, Exclusive, Owned, Shape
<1>4. Shape' BY DEF IInv, TypeOK, Exclusive, Owned, Shape, RowsTruthful
<1>5. Sent' BY DEF IInv, TypeOK, Exclusive, Owned, Shape, Sent
<1>6. RowsTruthful' BY DEF IInv, TypeOK, Shape, RowsTruthful, HiddenCalls,
      Recent, Established, Sent
<1>7. Recent' BY DEF IInv, TypeOK, Exclusive, Shape, RowsTruthful,
      HiddenCalls, Recent
<1>8. Established' BY DEF IInv, TypeOK, Exclusive, Owned, Shape, Sent,
      RowsTruthful, HiddenCalls, Recent, Established
<1>9. CompletedIsTrue' BY DEF IInv, TypeOK, Owned, Shape, RowsTruthful,
      HiddenCalls, Recent, Established, CompletedIsTrue, Sent
<1>10. HiddenCalls' BY DEF IInv, TypeOK, Shape, RowsTruthful, HiddenCalls,
      Recent, Sent
<1> QED BY <1>1, <1>2, <1>3, <1>4, <1>5, <1>6, <1>7, <1>8, <1>9, <1>10 DEF IInv

\* The snapshot is the live calls of this moment.
LEMMA ObserveStep ==
  ASSUME IInv, NEW t \in Threads, Observe(t)
  PROVE  IInv'
<1> USE DEF Observe, Unconfirmed, Live
<1>1. TypeOK' BY DEF IInv, TypeOK, Shape
<1>2. Exclusive' BY DEF IInv, TypeOK, Exclusive, Shape
<1>3. Owned' BY DEF IInv, TypeOK, Exclusive, Owned, Shape
<1>4. Shape' BY DEF IInv, TypeOK, Exclusive, Owned, Shape, RowsTruthful
<1>5. Sent' BY DEF IInv, TypeOK, Exclusive, Owned, Shape, Sent
<1>6. RowsTruthful' BY DEF IInv, TypeOK, Shape, RowsTruthful, HiddenCalls,
      Recent, Established, Sent
<1>7. Recent' BY DEF IInv, TypeOK, Exclusive, Shape, RowsTruthful,
      HiddenCalls, Recent
<1>8. Established' BY DEF IInv, TypeOK, Exclusive, Owned, Shape, Sent,
      RowsTruthful, HiddenCalls, Recent, Established
<1>9. CompletedIsTrue' BY DEF IInv, TypeOK, Owned, Shape, RowsTruthful,
      HiddenCalls, Recent, Established, CompletedIsTrue, Sent
<1>10. HiddenCalls' BY DEF IInv, TypeOK, Shape, RowsTruthful, HiddenCalls,
      Recent, Sent
<1> QED BY <1>1, <1>2, <1>3, <1>4, <1>5, <1>6, <1>7, <1>8, <1>9, <1>10 DEF IInv

\* The thread gives up or ends the call; the rows stay.
LEMMA UnobservedStep ==
  ASSUME IInv, NEW t \in Threads, Unobserved(t)
  PROVE  IInv'
<1> USE DEF Unobserved, Unrefreshed, Return
<1>1. TypeOK' BY SMTT(60) DEF IInv, TypeOK, Shape
<1>2. Exclusive' BY DEF IInv, TypeOK, Exclusive, Shape
<1>3. Owned' BY SMTT(60) DEF IInv, TypeOK, Exclusive, Owned, Shape
<1>4. Shape' BY DEF IInv, TypeOK, Exclusive, Owned, Shape, RowsTruthful
<1>5. Sent' BY DEF IInv, TypeOK, Exclusive, Owned, Shape, Sent
<1>6. RowsTruthful' BY DEF IInv, TypeOK, Shape, RowsTruthful, HiddenCalls,
      Recent, Established, Sent
<1>7. Recent' BY DEF IInv, TypeOK, Exclusive, Shape, RowsTruthful,
      HiddenCalls, Recent
<1>8. Established' BY DEF IInv, TypeOK, Exclusive, Owned, Shape, Sent,
      RowsTruthful, HiddenCalls, Recent, Established
<1>9. CompletedIsTrue' BY DEF IInv, TypeOK, Owned, Shape, RowsTruthful,
      HiddenCalls, Recent, Established, CompletedIsTrue, Sent
<1>10. HiddenCalls' BY DEF IInv, TypeOK, Shape, RowsTruthful, HiddenCalls,
      Recent, Sent
<1> QED BY <1>1, <1>2, <1>3, <1>4, <1>5, <1>6, <1>7, <1>8, <1>9, <1>10 DEF IInv

\* The rows follow a snapshot that is newer than all of them.
LEMMA CommitStep ==
  ASSUME IInv, NEW t \in Threads, Commit(t)
  PROVE  IInv'
<1> USE DEF Commit, Quarantines, HiddenBy, Projected, Bound, Unloadable,
            Refreshed, Outcome, Unrefreshed, Return
<1>1. TypeOK' BY SMTT(60) DEF IInv, TypeOK, Shape
<1>2. Exclusive' BY DEF IInv, TypeOK, Exclusive, Shape
<1>3. Owned' BY SMTT(60) DEF IInv, TypeOK, Exclusive, Owned, Shape
<1>4. Shape' BY DEF IInv, TypeOK, Exclusive, Owned, Shape, RowsTruthful
<1>5. Sent' BY DEF IInv, TypeOK, Exclusive, Owned, Shape, Sent
<1>6. RowsTruthful' BY DEF IInv, TypeOK, Shape, RowsTruthful, HiddenCalls,
      Recent, Established, Sent
<1>7. Recent' BY DEF IInv, TypeOK, Exclusive, Shape, RowsTruthful,
      HiddenCalls, Recent
<1>8. Established' BY DEF IInv, TypeOK, Exclusive, Owned, Shape, Sent,
      RowsTruthful, HiddenCalls, Recent, Established
<1>9. CompletedIsTrue' BY DEF IInv, TypeOK, Owned, Shape, RowsTruthful,
      HiddenCalls, Recent, Established, CompletedIsTrue, Sent
<1>10. HiddenCalls' BY DEF IInv, TypeOK, Shape, RowsTruthful, HiddenCalls,
      Recent, Sent
<1> QED BY <1>1, <1>2, <1>3, <1>4, <1>5, <1>6, <1>7, <1>8, <1>9, <1>10 DEF IInv

\* The rows stay as they were.
LEMMA CommitFailsStep ==
  ASSUME IInv, NEW t \in Threads, CommitFails(t)
  PROVE  IInv'
<1> USE DEF CommitFails, Unrefreshed, Return
<1>1. TypeOK' BY SMTT(60) DEF IInv, TypeOK, Shape
<1>2. Exclusive' BY DEF IInv, TypeOK, Exclusive, Shape
<1>3. Owned' BY SMTT(60) DEF IInv, TypeOK, Exclusive, Owned, Shape
<1>4. Shape' BY DEF IInv, TypeOK, Exclusive, Owned, Shape, RowsTruthful
<1>5. Sent' BY DEF IInv, TypeOK, Exclusive, Owned, Shape, Sent
<1>6. RowsTruthful' BY DEF IInv, TypeOK, Shape, RowsTruthful, HiddenCalls,
      Recent, Established, Sent
<1>7. Recent' BY DEF IInv, TypeOK, Exclusive, Shape, RowsTruthful,
      HiddenCalls, Recent
<1>8. Established' BY DEF IInv, TypeOK, Exclusive, Owned, Shape, Sent,
      RowsTruthful, HiddenCalls, Recent, Established
<1>9. CompletedIsTrue' BY DEF IInv, TypeOK, Owned, Shape, RowsTruthful,
      HiddenCalls, Recent, Established, CompletedIsTrue, Sent
<1>10. HiddenCalls' BY DEF IInv, TypeOK, Shape, RowsTruthful, HiddenCalls,
      Recent, Sent
<1> QED BY <1>1, <1>2, <1>3, <1>4, <1>5, <1>6, <1>7, <1>8, <1>9, <1>10 DEF IInv

\* The call of this start is over.
LEMMA TerminateStep ==
  ASSUME IInv, NEW t \in Threads, Terminate(t)
  PROVE  IInv'
<1> USE DEF Terminate, AfterTermination, Return, ReleaseUnless
<1>1. TypeOK' BY SMTT(60) DEF IInv, TypeOK, Shape
<1>2. Exclusive' BY DEF IInv, TypeOK, Exclusive, Shape
<1>3. Owned' BY SMTT(60) DEF IInv, TypeOK, Exclusive, Owned, Shape
<1>4. Shape' BY DEF IInv, TypeOK, Exclusive, Owned, Shape, RowsTruthful
<1>5. Sent' BY DEF IInv, TypeOK, Exclusive, Owned, Shape, Sent
<1>6. RowsTruthful' BY DEF IInv, TypeOK, Shape, RowsTruthful, HiddenCalls,
      Recent, Established, Sent
<1>7. Recent' BY DEF IInv, TypeOK, Exclusive, Shape, RowsTruthful,
      HiddenCalls, Recent
<1>8. Established' BY DEF IInv, TypeOK, Exclusive, Owned, Shape, Sent,
      RowsTruthful, HiddenCalls, Recent, Established
<1>9. CompletedIsTrue' BY DEF IInv, TypeOK, Owned, Shape, RowsTruthful,
      HiddenCalls, Recent, Established, CompletedIsTrue, Sent
<1>10. HiddenCalls' BY DEF IInv, TypeOK, Shape, RowsTruthful, HiddenCalls,
      Recent, Sent
<1> QED BY <1>1, <1>2, <1>3, <1>4, <1>5, <1>6, <1>7, <1>8, <1>9, <1>10 DEF IInv

\* Only the thread and the agent's leftover move.
LEMMA TerminateFailsStep ==
  ASSUME IInv, NEW t \in Threads, TerminateFails(t)
  PROVE  IInv'
<1> USE DEF TerminateFails, Leftover, AfterTermination, Return, ReleaseUnless
<1>1. TypeOK' BY SMTT(60) DEF IInv, TypeOK, Shape
<1>2. Exclusive' BY DEF IInv, TypeOK, Exclusive, Shape
<1>3. Owned' BY SMTT(60) DEF IInv, TypeOK, Exclusive, Owned, Shape
<1>4. Shape' BY DEF IInv, TypeOK, Exclusive, Owned, Shape, RowsTruthful
<1>5. Sent' BY DEF IInv, TypeOK, Exclusive, Owned, Shape, Sent
<1>6. RowsTruthful' BY DEF IInv, TypeOK, Shape, RowsTruthful, HiddenCalls,
      Recent, Established, Sent
<1>7. Recent' BY DEF IInv, TypeOK, Exclusive, Shape, RowsTruthful,
      HiddenCalls, Recent
<1>8. Established' BY DEF IInv, TypeOK, Exclusive, Owned, Shape, Sent,
      RowsTruthful, HiddenCalls, Recent, Established
<1>9. CompletedIsTrue' BY DEF IInv, TypeOK, Owned, Shape, RowsTruthful,
      HiddenCalls, Recent, Established, CompletedIsTrue, Sent
<1>10. HiddenCalls' BY DEF IInv, TypeOK, Shape, RowsTruthful, HiddenCalls,
      Recent, Sent
<1> QED BY <1>1, <1>2, <1>3, <1>4, <1>5, <1>6, <1>7, <1>8, <1>9, <1>10 DEF IInv

\* The verdict is what the thread has established.
LEMMA SettleStep ==
  ASSUME IInv, NEW t \in Threads, Settle(t)
  PROVE  IInv'
<1> USE DEF Settle, Return, ReleaseUnless
<1>1. TypeOK' BY SMTT(60) DEF IInv, TypeOK, Shape
<1>2. Exclusive' BY DEF IInv, TypeOK, Exclusive, Shape
<1>3. Owned' BY SMTT(60) DEF IInv, TypeOK, Exclusive, Owned, Shape
<1>4. Shape' BY DEF IInv, TypeOK, Exclusive, Owned, Shape, RowsTruthful
<1>5. Sent' BY DEF IInv, TypeOK, Exclusive, Owned, Shape, Sent
<1>6. RowsTruthful' BY DEF IInv, TypeOK, Shape, RowsTruthful, HiddenCalls,
      Recent, Established, Sent
<1>7. Recent' BY DEF IInv, TypeOK, Exclusive, Shape, RowsTruthful,
      HiddenCalls, Recent
<1>8. Established' BY DEF IInv, TypeOK, Exclusive, Owned, Shape, Sent,
      RowsTruthful, HiddenCalls, Recent, Established
<1>9. CompletedIsTrue' BY DEF IInv, TypeOK, Owned, Shape, RowsTruthful,
      HiddenCalls, Recent, Established, CompletedIsTrue, Sent
<1>10. HiddenCalls' BY DEF IInv, TypeOK, Shape, RowsTruthful, HiddenCalls,
      Recent, Sent
<1> QED BY <1>1, <1>2, <1>3, <1>4, <1>5, <1>6, <1>7, <1>8, <1>9, <1>10 DEF IInv

\* The entry stays pending; the thread ends its call or returns.
LEMMA SettleFailsStep ==
  ASSUME IInv, NEW t \in Threads, SettleFails(t)
  PROVE  IInv'
<1> USE DEF SettleFails, Return, ReleaseUnless
<1>1. TypeOK' BY SMTT(60) DEF IInv, TypeOK, Shape
<1>2. Exclusive' BY DEF IInv, TypeOK, Exclusive, Shape
<1>3. Owned' BY SMTT(60) DEF IInv, TypeOK, Exclusive, Owned, Shape
<1>4. Shape' BY DEF IInv, TypeOK, Exclusive, Owned, Shape, RowsTruthful
<1>5. Sent' BY DEF IInv, TypeOK, Exclusive, Owned, Shape, Sent
<1>6. RowsTruthful' BY DEF IInv, TypeOK, Shape, RowsTruthful, HiddenCalls,
      Recent, Established, Sent
<1>7. Recent' BY DEF IInv, TypeOK, Exclusive, Shape, RowsTruthful,
      HiddenCalls, Recent
<1>8. Established' BY DEF IInv, TypeOK, Exclusive, Owned, Shape, Sent,
      RowsTruthful, HiddenCalls, Recent, Established
<1>9. CompletedIsTrue' BY DEF IInv, TypeOK, Owned, Shape, RowsTruthful,
      HiddenCalls, Recent, Established, CompletedIsTrue, Sent
<1>10. HiddenCalls' BY DEF IInv, TypeOK, Shape, RowsTruthful, HiddenCalls,
      Recent, Sent
<1> QED BY <1>1, <1>2, <1>3, <1>4, <1>5, <1>6, <1>7, <1>8, <1>9, <1>10 DEF IInv

\* A call ends; snapshots and rows may be behind, never ahead.
LEMMA LateHangUpStep ==
  ASSUME IInv, NEW c \in Calls, LateHangUp(c)
  PROVE  IInv'
<1> USE DEF LateHangUp
<1>1. TypeOK' BY DEF IInv, TypeOK, Shape
<1>2. Exclusive' BY DEF IInv, TypeOK, Exclusive, Shape
<1>3. Owned' BY DEF IInv, TypeOK, Exclusive, Owned, Shape
<1>4. Shape' BY DEF IInv, TypeOK, Exclusive, Owned, Shape, RowsTruthful
<1>5. Sent' BY DEF IInv, TypeOK, Exclusive, Owned, Shape, Sent
<1>6. RowsTruthful' BY DEF IInv, TypeOK, Shape, RowsTruthful, HiddenCalls,
      Recent, Established, Sent
<1>7. Recent' BY DEF IInv, TypeOK, Exclusive, Shape, RowsTruthful,
      HiddenCalls, Recent
<1>8. Established' BY DEF IInv, TypeOK, Exclusive, Owned, Shape, Sent,
      RowsTruthful, HiddenCalls, Recent, Established
<1>9. CompletedIsTrue' BY DEF IInv, TypeOK, Owned, Shape, RowsTruthful,
      HiddenCalls, Recent, Established, CompletedIsTrue, Sent
<1>10. HiddenCalls' BY DEF IInv, TypeOK, Shape, RowsTruthful, HiddenCalls,
      Recent, Sent
<1> QED BY <1>1, <1>2, <1>3, <1>4, <1>5, <1>6, <1>7, <1>8, <1>9, <1>10 DEF IInv

\* A call begins; no snapshot and no row has it.
LEMMA IncomingStep ==
  ASSUME IInv, NEW c \in Calls, Incoming(c)
  PROVE  IInv'
<1> USE DEF Incoming
<1>1. TypeOK' BY DEF IInv, TypeOK, Shape
<1>2. Exclusive' BY DEF IInv, TypeOK, Exclusive, Shape
<1>3. Owned' BY DEF IInv, TypeOK, Exclusive, Owned, Shape
<1>4. Shape' BY DEF IInv, TypeOK, Exclusive, Owned, Shape, RowsTruthful
<1>5. Sent' BY DEF IInv, TypeOK, Exclusive, Owned, Shape, Sent
<1>6. RowsTruthful' BY DEF IInv, TypeOK, Shape, RowsTruthful, HiddenCalls,
      Recent, Established, Sent
<1>7. Recent' BY DEF IInv, TypeOK, Exclusive, Shape, RowsTruthful,
      HiddenCalls, Recent
<1>8. Established' BY DEF IInv, TypeOK, Exclusive, Owned, Shape, Sent,
      RowsTruthful, HiddenCalls, Recent, Established
<1>9. CompletedIsTrue' BY DEF IInv, TypeOK, Owned, Shape, RowsTruthful,
      HiddenCalls, Recent, Established, CompletedIsTrue, Sent
<1>10. HiddenCalls' BY DEF IInv, TypeOK, Shape, RowsTruthful, HiddenCalls,
      Recent, Sent
<1> QED BY <1>1, <1>2, <1>3, <1>4, <1>5, <1>6, <1>7, <1>8, <1>9, <1>10 DEF IInv

\* A call ends; snapshots and rows may be behind, never ahead.
LEMMA EndsByItselfStep ==
  ASSUME IInv, NEW c \in Calls, EndsByItself(c)
  PROVE  IInv'
<1> USE DEF EndsByItself
<1>1. TypeOK' BY DEF IInv, TypeOK, Shape
<1>2. Exclusive' BY DEF IInv, TypeOK, Exclusive, Shape
<1>3. Owned' BY DEF IInv, TypeOK, Exclusive, Owned, Shape
<1>4. Shape' BY DEF IInv, TypeOK, Exclusive, Owned, Shape, RowsTruthful
<1>5. Sent' BY DEF IInv, TypeOK, Exclusive, Owned, Shape, Sent
<1>6. RowsTruthful' BY DEF IInv, TypeOK, Shape, RowsTruthful, HiddenCalls,
      Recent, Established, Sent
<1>7. Recent' BY DEF IInv, TypeOK, Exclusive, Shape, RowsTruthful,
      HiddenCalls, Recent
<1>8. Established' BY DEF IInv, TypeOK, Exclusive, Owned, Shape, Sent,
      RowsTruthful, HiddenCalls, Recent, Established
<1>9. CompletedIsTrue' BY DEF IInv, TypeOK, Owned, Shape, RowsTruthful,
      HiddenCalls, Recent, Established, CompletedIsTrue, Sent
<1>10. HiddenCalls' BY DEF IInv, TypeOK, Shape, RowsTruthful, HiddenCalls,
      Recent, Sent
<1> QED BY <1>1, <1>2, <1>3, <1>4, <1>5, <1>6, <1>7, <1>8, <1>9, <1>10 DEF IInv

\* Without threads nothing is established; the tables stay.
LEMMA CrashStep ==
  ASSUME IInv, Crash
  PROVE  IInv'
<1> USE DEF Crash
<1>1. TypeOK'
  <2>1. late' \subseteq Calls
    <3>1. \A t \in Threads :
            \/ pc[t] = "await" /\ key[t] \notin Starts
            \/ pc[t] = "abort"
            => target[t] \in Calls
      BY DEF IInv, TypeOK, Shape
    <3> QED BY <3>1 DEF IInv, TypeOK
  <2> QED BY <2>1 DEF IInv, TypeOK
<1>2. Exclusive' BY DEF IInv, TypeOK, Exclusive, Shape
<1>3. Owned' BY DEF IInv, TypeOK, Exclusive, Owned, Shape
<1>4. Shape' BY DEF IInv, TypeOK, Exclusive, Owned, Shape, RowsTruthful
<1>5. Sent' BY DEF IInv, TypeOK, Exclusive, Owned, Shape, Sent
<1>6. RowsTruthful' BY DEF IInv, TypeOK, Shape, RowsTruthful, HiddenCalls,
      Recent, Established, Sent
<1>7. Recent' BY DEF IInv, TypeOK, Exclusive, Shape, RowsTruthful,
      HiddenCalls, Recent
<1>8. Established' BY DEF IInv, TypeOK, Exclusive, Owned, Shape, Sent,
      RowsTruthful, HiddenCalls, Recent, Established
<1>9. CompletedIsTrue' BY DEF IInv, TypeOK, Owned, Shape, RowsTruthful,
      HiddenCalls, Recent, Established, CompletedIsTrue, Sent
<1>10. HiddenCalls' BY DEF IInv, TypeOK, Shape, RowsTruthful, HiddenCalls,
      Recent, Sent
<1> QED BY <1>1, <1>2, <1>3, <1>4, <1>5, <1>6, <1>7, <1>8, <1>9, <1>10 DEF IInv

\* Pending entries become indeterminate; no thread works on one.
LEMMA RestartStep ==
  ASSUME IInv, Restart
  PROVE  IInv'
<1> USE DEF Restart
<1>1. TypeOK' BY DEF IInv, TypeOK, Shape
<1>2. Exclusive' BY DEF IInv, TypeOK, Exclusive, Shape
<1>3. Owned' BY DEF IInv, TypeOK, Exclusive, Owned, Shape
<1>4. Shape' BY DEF IInv, TypeOK, Exclusive, Owned, Shape, RowsTruthful
<1>5. Sent' BY DEF IInv, TypeOK, Exclusive, Owned, Shape, Sent
<1>6. RowsTruthful' BY DEF IInv, TypeOK, Shape, RowsTruthful, HiddenCalls,
      Recent, Established, Sent
<1>7. Recent' BY DEF IInv, TypeOK, Exclusive, Shape, RowsTruthful,
      HiddenCalls, Recent
<1>8. Established' BY DEF IInv, TypeOK, Exclusive, Owned, Shape, Sent,
      RowsTruthful, HiddenCalls, Recent, Established
<1>9. CompletedIsTrue' BY DEF IInv, TypeOK, Owned, Shape, RowsTruthful,
      HiddenCalls, Recent, Established, CompletedIsTrue, Sent
<1>10. HiddenCalls' BY DEF IInv, TypeOK, Shape, RowsTruthful, HiddenCalls,
      Recent, Sent
<1> QED BY <1>1, <1>2, <1>3, <1>4, <1>5, <1>6, <1>7, <1>8, <1>9, <1>10 DEF IInv

\* Each step of the program keeps the invariant, and so does no step.
LEMMA NextInvariant == IInv /\ [Next]_vars => IInv'
<1> SUFFICES ASSUME IInv, [Next]_vars PROVE IInv'
  OBVIOUS
<1>1. ASSUME NEW t \in Threads, NEW k \in Commands, StartCall(t, k)
      PROVE  IInv'
  BY <1>1, StartCallStep
<1>2. ASSUME NEW t \in Threads, NEW k \in Commands, NEW c \in Calls,
             CallAction(t, k, c)
      PROVE  IInv'
  BY <1>2, CallActionStep
<1>3. ASSUME NEW t \in Threads, Poll(t) \/ Acquire(t)
      PROVE  IInv'
  BY <1>3, PollStep, AcquireStep
<1>4. ASSUME NEW t \in Threads, Run(t)
      PROVE  IInv'
  <2>1. CASE \E c \in Calls : Dial(t, c)
    BY <2>1, DialStep
  <2>2. CASE FailLocal(t) \/ AlreadyOver(t) \/ Dispatch(t)
    BY <2>2, FailLocalStep, AlreadyOverStep, DispatchStep
  <2>3. CASE Refuse(t) \/ DialLost(t)
    BY <2>3, RefuseStep, DialLostStep
  <2>4. CASE HangUp(t) \/ HangUpFails(t) \/ Gone(t) \/ HangUpLost(t)
    BY <2>4, HangUpStep, HangUpFailsStep, GoneStep, HangUpLostStep
  <2>5. CASE Observe(t) \/ Unobserved(t) \/ Commit(t) \/ CommitFails(t)
    BY <2>5, ObserveStep, UnobservedStep, CommitStep, CommitFailsStep
  <2>6. CASE Terminate(t) \/ TerminateFails(t)
    BY <2>6, TerminateStep, TerminateFailsStep
  <2>7. CASE Settle(t) \/ SettleFails(t)
    BY <2>7, SettleStep, SettleFailsStep
  <2> QED BY <1>4, <2>1, <2>2, <2>3, <2>4, <2>5, <2>6, <2>7 DEF Run
<1>5. ASSUME NEW c \in Calls, LateHangUp(c) \/ Incoming(c) \/ EndsByItself(c)
      PROVE  IInv'
  BY <1>5, LateHangUpStep, IncomingStep, EndsByItselfStep
<1>6. CASE Crash \/ Restart
  BY <1>6, CrashStep, RestartStep
<1>7. CASE UNCHANGED vars
  BY <1>7 DEF IInv, TypeOK, Exclusive, Owned, Shape, Sent, RowsTruthful,
              HiddenCalls, Recent, Established, CompletedIsTrue
<1> QED BY <1>1, <1>2, <1>3, <1>4, <1>5, <1>6, <1>7 DEF Next

\* The invariant holds in every reachable state (the whole coordinator).
THEOREM InvariantHolds == Spec => []IInv
<1>1. Init => IInv
  BY InitInvariant
<1>2. IInv /\ [Next]_vars => IInv'
  BY NextInvariant
<1> QED BY <1>1, <1>2, PTL DEF Spec

\* Every variable keeps its type.
THEOREM WellTyped == Spec => []TypeOK
<1>1. IInv => TypeOK
  BY DEF IInv
<1> QED BY <1>1, InvariantHolds, PTL

\* No snapshot, however late it is committed, closes the row of a call the
\* modem still has, but for the calls that the quarantine leaves out as long
\* as it does; only a StartCall's own call gets its request id.
THEOREM RowsAreTruthful == Spec => []RowsTruthful
<1>1. IInv => RowsTruthful
  BY DEF IInv
<1> QED BY <1>1, InvariantHolds, PTL

\* The journal's "completed" is true, for starts and for hang-ups.
THEOREM CompletedCommandsAreTrue == Spec => []CompletedIsTrue
<1>1. IInv => CompletedIsTrue
  BY DEF IInv
<1> QED BY <1>1, InvariantHolds, PTL
-----------------------------------------------------------------------------
(* The journal                                                              *)

\* Only Begin, Dispatch, Settle and Restart touch the journal.
LEMMA RunJournal ==
  ASSUME IInv, NEW t \in Threads, Run(t)
  PROVE  [Journal!Next]_(Journal!vars)
<1> USE DEF Journal!Next, Journal!vars
<1>1. CASE Dispatch(t)
  <2>1. key[t] \in Commands /\ status[key[t]] = "pending"
          /\ dispatched[key[t]] = 0
    BY <1>1 DEF Dispatch, IInv, TypeOK, Owned, Shape, Sent
  <2>2. Journal!Send(key[t])
    BY <1>1, <2>1 DEF Dispatch, Journal!Send, IInv, TypeOK
  <2> QED BY <2>1, <2>2
<1>2. CASE Settle(t)
  <2>1. key[t] \in Commands /\ why[t] \in {"completed", "failed", "indeterminate"}
    BY <1>2 DEF Settle, IInv, TypeOK, Shape
  <2>2. why[t] = "completed" /\ key[t] \in Starts => dispatched[key[t]] = 1
    BY <2>1 DEF IInv, TypeOK, Shape, Sent, Established
  <2>3. Journal!Decide(key[t], why[t])
    BY <1>2, <2>1, <2>2 DEF Settle, Journal!Decide, IInv, TypeOK
  <2> QED BY <2>1, <2>3
<1>3. CASE FailLocal(t) \/ AlreadyOver(t)
  BY <1>3 DEF FailLocal, AlreadyOver
<1>4. CASE (\E c \in Calls : Dial(t, c)) \/ Refuse(t) \/ DialLost(t)
  BY <1>4 DEF Dial, Refuse, DialLost
<1>5. CASE HangUp(t) \/ HangUpFails(t) \/ Gone(t) \/ HangUpLost(t)
  BY <1>5 DEF HangUp, HangUpFails, Gone, HangUpLost
<1>6. CASE Observe(t) \/ Unobserved(t) \/ Commit(t) \/ CommitFails(t)
  BY <1>6 DEF Observe, Unobserved, Commit, CommitFails
<1>7. CASE Terminate(t) \/ TerminateFails(t) \/ SettleFails(t)
  BY <1>7 DEF Terminate, TerminateFails, SettleFails
<1> QED BY <1>1, <1>2, <1>3, <1>4, <1>5, <1>6, <1>7 DEF Run

LEMMA NextJournal ==
  ASSUME IInv, [Next]_vars
  PROVE  [Journal!Next]_(Journal!vars)
<1> USE DEF Journal!Next, Journal!vars
<1>1. ASSUME NEW t \in Threads, NEW k \in Commands, NEW c, Begin(t, k, c)
      PROVE  Journal!Next
  BY <1>1 DEF Begin, Fresh, Journal!Accept
<1>2. ASSUME NEW t \in Threads, NEW k \in Commands, StartCall(t, k)
      PROVE  Journal!Next
  BY <1>1, <1>2 DEF StartCall
<1>3. ASSUME NEW t \in Threads, NEW k \in Commands, NEW c \in Calls,
             CallAction(t, k, c)
      PROVE  Journal!Next
  BY <1>1, <1>3 DEF CallAction
<1>4. ASSUME NEW t \in Threads, Poll(t) \/ Acquire(t)
      PROVE  UNCHANGED Journal!vars
  BY <1>4 DEF Poll, Acquire
<1>5. ASSUME NEW c \in Calls, LateHangUp(c) \/ Incoming(c) \/ EndsByItself(c)
      PROVE  UNCHANGED Journal!vars
  BY <1>5 DEF LateHangUp, Incoming, EndsByItself
<1>6. CASE Crash
  BY <1>6 DEF Crash
<1>7. CASE Restart
  BY <1>7 DEF Restart, Journal!Recover
<1>8. CASE UNCHANGED vars
  BY <1>8
<1> QED BY <1>2, <1>3, <1>4, <1>5, <1>6, <1>7, <1>8, RunJournal DEF Next

\* The coordinator implements the journal's contract: accepted before sent,
\* sent at most once, one verdict, and a completed start was sent.
THEOREM ImplementsTheJournal == Spec => ImplementsJournal
<1>1. Init => Journal!Init
  BY DEF Init, Journal!Init
<1>2. IInv /\ [Next]_vars => [Journal!Next]_(Journal!vars)
  BY NextJournal
<1> QED BY <1>1, <1>2, InvariantHolds, PTL DEF Spec, Journal!Spec,
           ImplementsJournal
-----------------------------------------------------------------------------
(* What "failed" means                                                      *)

\* A thread about to record "failed" for a start has seen no call of it.
Harmless ==
  /\ FailedIsNotPlaced
  /\ \A t \in Threads :
       key[t] \in Starts /\ why[t] = "failed" => ~Dialled(key[t])

Definite == Faults \cap {"refused", "ghost"} = {}

LEMMA RunHarmless ==
  ASSUME Definite, IInv, Harmless, NEW t \in Threads, Run(t)
  PROVE  Harmless'
<1> USE DEF Harmless, FailedIsNotPlaced, IInv, TypeOK, Definite
<1>1. CASE FailLocal(t)
  BY <1>1 DEF FailLocal, Shape, Sent
<1>2. CASE AlreadyOver(t) \/ Dispatch(t)
  BY <1>2 DEF AlreadyOver, Dispatch
<1>3. ASSUME NEW c \in Calls, Dial(t, c)
      PROVE  Harmless'
  BY <1>3 DEF Dial, DialAnswer, Shape, Owned
<1>4. CASE Refuse(t) \/ DialLost(t)
  BY <1>4 DEF Refuse, DialLost, Shape, Sent
<1>5. CASE HangUp(t) \/ HangUpFails(t) \/ Gone(t) \/ HangUpLost(t)
  BY <1>5 DEF HangUp, HangUpFails, Gone, HangUpLost
<1>6. CASE Observe(t) \/ CommitFails(t)
  BY <1>6 DEF Observe, CommitFails, Unrefreshed, Return, Shape
<1>7. CASE Unobserved(t)
  <2>1. why[t] = "placed" \/ Unrefreshed(t, FALSE)
    BY <1>7 DEF Unobserved
  <2>2. CASE why[t] = "placed"
    BY <1>7, <2>2 DEF Unobserved
  <2>3. CASE why[t] # "placed" /\ Unrefreshed(t, FALSE)
    <3>1. /\ why' \in {[why EXCEPT ![t] = "plain"],
                        [why EXCEPT ![t] = "indeterminate"]}
          /\ key' \in {key, [key EXCEPT ![t] = None]}
      BY <2>3 DEF Unrefreshed, Return
    <3>2. UNCHANGED <<status, origin>>
      BY <1>7 DEF Unobserved
    <3> QED BY <3>1, <3>2
  <2> QED BY <2>1, <2>2, <2>3
<1>8. CASE Commit(t)
  <2>1. key' \in {key, [key EXCEPT ![t] = None]}
    BY <1>8 DEF Commit, Refreshed, Unrefreshed, Return
  <2>2. PICK v : /\ why' = [why EXCEPT ![t] = v]
                 /\ v = "failed" => why[t] = "missing"
    <3>1. pc[t] = "commit" /\ (Refreshed(t) \/ Unrefreshed(t, FALSE))
      BY <1>8 DEF Commit
    <3>2. why[t] \in {"plain", "placed", "resolve", "aborted", "ended", "missing"}
      BY <3>1 DEF Shape
    <3> QED BY <3>1, <3>2 DEF Refreshed, Outcome, Unrefreshed, Return
  <2>3. v = "failed" => key[t] \notin Starts
    BY <2>2 DEF Shape
  <2>4. UNCHANGED <<status, origin>>
    BY <1>8 DEF Commit
  <2> QED BY <2>1, <2>2, <2>3, <2>4
<1>9. CASE Terminate(t) \/ TerminateFails(t)
  <2>1. AfterTermination(t) /\ UNCHANGED <<status, origin>>
    BY <1>9 DEF Terminate, TerminateFails
  <2>2. /\ why' \in {[why EXCEPT ![t] = "plain"], [why EXCEPT ![t] = "aborted"]}
        /\ key' \in {key, [key EXCEPT ![t] = None]}
    BY <2>1 DEF AfterTermination, Return
  <2> QED BY <2>1, <2>2
<1>10. CASE Settle(t)
  BY <1>10 DEF Settle, Return, Shape
<1>11. CASE SettleFails(t)
  BY <1>11 DEF SettleFails, Return
<1> QED BY <1>1, <1>2, <1>3, <1>4, <1>5, <1>6, <1>7, <1>8, <1>9, <1>10, <1>11
        DEF Run

LEMMA NextHarmless ==
  ASSUME Definite, IInv, Harmless, [Next]_vars
  PROVE  Harmless'
<1> USE DEF Harmless, FailedIsNotPlaced, IInv, TypeOK
<1>1. ASSUME NEW t \in Threads, NEW k \in Commands, NEW c, Begin(t, k, c)
      PROVE  Harmless'
  BY <1>1 DEF Begin, Fresh
<1>2. ASSUME NEW t \in Threads, NEW k \in Commands, StartCall(t, k)
      PROVE  Harmless'
  BY <1>1, <1>2 DEF StartCall
<1>3. ASSUME NEW t \in Threads, NEW k \in Commands, NEW c \in Calls,
             CallAction(t, k, c)
      PROVE  Harmless'
  BY <1>1, <1>3 DEF CallAction
<1>4. ASSUME NEW t \in Threads, Poll(t) \/ Acquire(t)
      PROVE  Harmless'
  BY <1>4 DEF Poll, Acquire
<1>5. ASSUME NEW c \in Calls, LateHangUp(c) \/ Incoming(c) \/ EndsByItself(c)
      PROVE  Harmless'
  BY <1>5 DEF LateHangUp, Incoming, EndsByItself
<1>6. CASE Crash
  BY <1>6 DEF Crash
<1>7. CASE Restart
  BY <1>7 DEF Restart
<1>8. CASE UNCHANGED vars
  BY <1>8
<1> QED BY <1>2, <1>3, <1>4, <1>5, <1>6, <1>7, <1>8, RunHarmless DEF Next

\* Where the agent reports no error for a dial it made and answers snapshots
\* without error codes, a start that the journal calls failed made no call.
THEOREM FailedStartsMadeNoCall ==
  ASSUME Definite
  PROVE  Spec => []FailedIsNotPlaced
<1>1. Init => Harmless
  BY DEF Init, Harmless, FailedIsNotPlaced, Commands
<1>2. IInv /\ Harmless /\ [Next]_vars => Harmless'
  BY NextHarmless
<1>3. Harmless => FailedIsNotPlaced
  BY DEF Harmless
<1> QED BY <1>1, <1>2, <1>3, InvariantHolds, PTL DEF Spec
-----------------------------------------------------------------------------
(* What a released reservation means                                        *)

Resolved(k) ==
  \A c \in Calls : origin[c] = k /\ call[c] = "live" =>
    row[c] = "open" \/ hidden[c] = "now"

\* A command on its way to an unmarked error has seen its call, if any, in
\* the snapshot it commits; once committed, the row stays open with the call,
\* or the last committed snapshot left the call out.
Retained ==
  /\ \A k \in released : status[k] # "absent" /\ Resolved(k)
  /\ \A t \in Threads :
       /\ key[t] \notin released
       /\ key[t] \in Starts =>
            /\ pc[t] = "commit" =>
                 \A c \in Calls :
                   origin[c] = key[t] /\ call[c] = "live" => c \in snap[t]
            /\ why[t] = "uncommitted" => Resolved(key[t])
            /\ pc[t] = "settle" /\ t \notin marked => Resolved(key[t])

Recorded == Faults \cap {"ghost", "unsaved", "unrecorded"} = {}

\* Where rows stay and no call begins, only the moving thread has something
\* to show.
LEMMA Stays ==
  ASSUME IInv, Retained, NEW t \in Threads,
         UNCHANGED <<row, origin, hidden>>,
         \A c \in Calls : call'[c] = "live" => call[c] = "live",
         \A k \in Commands : status'[k] = "absent" => status[k] = "absent",
         NEW place, NEW reason,
         pc' = [pc EXCEPT ![t] = place],
         why' = [why EXCEPT ![t] = reason],
         snap' \in {snap, [snap EXCEPT ![t] = Live], [snap EXCEPT ![t] = {}]},
         UNCHANGED key \/ key' = [key EXCEPT ![t] = None],
         marked' \in {marked, marked \cup {t}, marked \ {t}},
         released' \in {released, released \cup {key[t]}},
         released' # released =>
           key[t] \in Starts /\ key'[t] = None /\ Resolved(key[t]),
         key[t] \in Starts /\ key'[t] # None =>
           /\ place = "commit" => snap' = [snap EXCEPT ![t] = Live]
           /\ reason = "uncommitted" => Resolved(key[t])
           /\ place = "settle" /\ t \notin marked' => Resolved(key[t])
  PROVE  Retained'
<1> USE DEF IInv, TypeOK
<1>1. \A k : Resolved(k) => Resolved(k)'
  BY DEF Resolved
<1>2. \A k \in released' : status'[k] # "absent" /\ Resolved(k)'
  BY <1>1 DEF Retained, Owned, Commands
<1>3. \A u \in Threads : key'[u] \notin released'
  BY DEF Retained, Owned
<1>4. ASSUME NEW u \in Threads, key'[u] \in Starts
      PROVE  /\ pc'[u] = "commit" =>
                  \A c \in Calls : origin'[c] = key'[u] /\ call'[c] = "live"
                                     => c \in snap'[u]
             /\ why'[u] = "uncommitted" => Resolved(key[u])'
             /\ pc'[u] = "settle" /\ u \notin marked' => Resolved(key[u])'
  <2>1. CASE u = t
    BY <1>1, <1>4, <2>1 DEF Live
  <2>2. CASE u # t
    BY <1>1, <1>4, <2>2 DEF Retained
  <2> QED BY <2>1, <2>2
<1>5. \A u \in Threads : key'[u] \in Starts => key'[u] = key[u]
  OBVIOUS
<1> QED BY <1>2, <1>3, <1>4, <1>5 DEF Retained, Resolved

\* A committed snapshot keeps the rows of live calls open or leaves these
\* calls out.
LEMMA CommitKeepsOpen ==
  ASSUME IInv, NEW t \in Threads, Commit(t), NEW c \in Calls, call[c] = "live",
         row[c] = "open" \/ hidden[c] = "now" \/ c \in snap[t]
  PROVE  row'[c] = "open" \/ hidden'[c] = "now"
BY DEF Commit, Projected, HiddenBy, IInv, TypeOK, Recent

LEMMA CommitRetains ==
  ASSUME IInv, Retained, NEW t \in Threads, Commit(t)
  PROVE  Retained'
<1> USE DEF IInv, TypeOK
<1>1. UNCHANGED <<call, origin, status, released>>
  BY DEF Commit
<1>2. \A k : Resolved(k) => Resolved(k)'
  BY <1>1, CommitKeepsOpen DEF Resolved
<1>3. ASSUME key[t] \in Starts, NEW c \in Calls, origin[c] = key[t],
             call[c] = "live"
      PROVE  row'[c] = "open" \/ hidden'[c] = "now"
  <2>1. c \in snap[t]
    BY <1>3 DEF Commit, Retained
  <2> QED BY <1>3, <2>1, CommitKeepsOpen
<1>4. /\ key' \in {key, [key EXCEPT ![t] = None]}
      /\ \A u \in Threads \ {t} :
           /\ pc'[u] = pc[u] /\ why'[u] = why[u] /\ snap'[u] = snap[u]
           /\ u \in marked' <=> u \in marked
      /\ pc'[t] # "commit"
  BY DEF Commit, Refreshed, Unrefreshed, Return
<1>5. \A k \in released' : status'[k] # "absent" /\ Resolved(k)'
  BY <1>1, <1>2 DEF Retained
<1>6. \A u \in Threads : key'[u] \notin released'
  BY <1>1, <1>4 DEF Retained
<1>7. \A u \in Threads : key'[u] \in Starts => key'[u] = key[u]
  BY <1>4
<1>8. ASSUME NEW u \in Threads, key'[u] \in Starts
      PROVE  /\ pc'[u] = "commit" =>
                  \A c \in Calls : origin'[c] = key'[u] /\ call'[c] = "live"
                                     => c \in snap'[u]
             /\ why'[u] = "uncommitted" => Resolved(key[u])'
             /\ pc'[u] = "settle" /\ u \notin marked' => Resolved(key[u])'
  <2>1. CASE u = t
    BY <1>1, <1>3, <1>4, <1>7, <1>8, <2>1 DEF Resolved
  <2>2. CASE u # t
    BY <1>1, <1>2, <1>4, <1>7, <1>8, <2>2 DEF Retained
  <2> QED BY <2>1, <2>2
<1> QED BY <1>5, <1>6, <1>7, <1>8 DEF Retained, Resolved

\* The unmarked errors of a start: it sent nothing or was refused, its
\* snapshot is committed, or it never got there.
LEMMA RunRetains ==
  ASSUME Recorded, IInv, Retained, NEW t \in Threads, Run(t)
  PROVE  Retained'
<1> USE DEF IInv, TypeOK
<1>1. CASE FailLocal(t)
  <2>1. ~Dialled(key[t])
    BY <1>1 DEF FailLocal, Shape, Sent
  <2> QED BY <1>1, <2>1, Stays DEF FailLocal, Resolved
<1>2. CASE AlreadyOver(t)
  BY <1>2, Stays DEF AlreadyOver
<1>3. CASE Dispatch(t)
  BY <1>3, Stays DEF Dispatch
<1>4. ASSUME NEW c \in Calls, Dial(t, c)
      PROVE  Retained'
  <2>1. /\ key[t] \in Starts /\ key[t] \notin released
        /\ origin' = [origin EXCEPT ![c] = key[t]]
        /\ call' = [call EXCEPT ![c] = "live"]
        /\ UNCHANGED <<row, hidden, status, key, snap, marked, released>>
    BY <1>4 DEF Dial, Retained
  <2>2. \E place \in {"observe", "abort"}, reason \in Reasons \ {"uncommitted"} :
          Goto(t, place, reason)
    BY <1>4 DEF Dial, DialAnswer, Recorded
  <2>3. \A u \in Threads \ {t} :
          pc[u] \notin {"commit", "settle"} /\ why[u] # "uncommitted"
    BY <1>4 DEF Dial, Exclusive, Shape
  <2>4. \A k \in released : Resolved(k) => Resolved(k)'
    BY <2>1 DEF Resolved
  <2> QED BY <2>1, <2>2, <2>3, <2>4 DEF Retained, Resolved
<1>5. CASE Refuse(t) \/ DialLost(t)
  <2>1. key[t] \in Starts => ~Dialled(key[t])
    BY <1>5 DEF Refuse, DialLost, Sent
  <2> QED BY <1>5, <2>1, Stays DEF Refuse, DialLost, Resolved
<1>6. CASE HangUp(t)
  BY <1>6, Stays DEF HangUp
<1>7. CASE HangUpFails(t)
  BY <1>7, Stays DEF HangUpFails
<1>8. CASE Gone(t)
  BY <1>8, Stays DEF Gone
<1>9. CASE HangUpLost(t)
  BY <1>9, Stays DEF HangUpLost
<1>10. CASE Observe(t)
  BY <1>10, Stays DEF Observe, Unconfirmed, Shape
<1>11. CASE Unobserved(t)
  BY <1>11, Stays DEF Unobserved, Unrefreshed, Return, Shape
<1>12. CASE Terminate(t)
  BY <1>12, Stays DEF Terminate, AfterTermination, Return, ReleaseUnless, Retained
<1>13. CASE TerminateFails(t)
  BY <1>13, Stays DEF TerminateFails, AfterTermination, Return, ReleaseUnless, Retained
<1>14. CASE Settle(t)
  BY <1>14, Stays DEF Settle, Return, ReleaseUnless, Retained
<1>15. ~CommitFails(t) /\ ~SettleFails(t)
  BY DEF Recorded, CommitFails, SettleFails
<1> QED BY <1>1, <1>2, <1>3, <1>4, <1>5, <1>6, <1>7, <1>8, <1>9, <1>10, <1>11,
           <1>12, <1>13, <1>14, <1>15, CommitRetains DEF Run

LEMMA NextRetains ==
  ASSUME Recorded, IInv, Retained, [Next]_vars
  PROVE  Retained'
<1> USE DEF IInv, TypeOK
<1>1. ASSUME NEW t \in Threads, NEW k \in Commands, NEW c, Begin(t, k, c)
      PROVE  Retained'
  <2>1. k \notin released
    BY <1>1 DEF Begin, Fresh, Retained
  <2>2. /\ key' = [key EXCEPT ![t] = k]
        /\ pc' = [pc EXCEPT ![t] = "lock"]
        /\ why' = [why EXCEPT ![t] = "plain"]
        /\ status' = [status EXCEPT ![k] = "pending"]
        /\ UNCHANGED <<row, hidden, call, origin, snap, marked, released>>
    BY <1>1 DEF Begin
  <2> QED BY <2>1, <2>2 DEF Retained, Resolved
<1>2. ASSUME NEW t \in Threads, NEW k \in Commands, StartCall(t, k)
      PROVE  Retained'
  BY <1>1, <1>2 DEF StartCall
<1>3. ASSUME NEW t \in Threads, NEW k \in Commands, NEW c \in Calls,
             CallAction(t, k, c)
      PROVE  Retained'
  BY <1>1, <1>3 DEF CallAction
<1>4. ASSUME NEW t \in Threads, Poll(t) \/ Acquire(t)
      PROVE  Retained'
  BY <1>4, Stays DEF Poll, Acquire
<1>5. ASSUME NEW c \in Calls, LateHangUp(c) \/ EndsByItself(c)
      PROVE  Retained'
  BY <1>5 DEF LateHangUp, EndsByItself, Retained, Resolved
<1>6. ASSUME NEW c \in Calls, Incoming(c)
      PROVE  Retained'
  <2>1. origin[c] = None
    BY <1>6 DEF Incoming, Sent
  <2> QED BY <1>6, <2>1 DEF Incoming, Retained, Resolved
<1>7. CASE Crash
  BY <1>7 DEF Crash, Retained, Resolved
<1>8. CASE Restart
  BY <1>8 DEF Restart, Retained, Resolved, Commands
<1>9. CASE UNCHANGED vars
  BY <1>9 DEF Retained, Resolved
<1> QED BY <1>2, <1>3, <1>4, <1>5, <1>6, <1>7, <1>8, <1>9, RunRetains DEF Next

\* Where snapshots and verdicts can be stored and the agent reports no error
\* for a dial it made, a reservation is released only when its call, if there
\* is one, is over or has an open row: nobody dials a line that is in use,
\* unless the quarantine of a doubly claimed subscription hides the call.
THEOREM ReleasedReservationsAreResolved ==
  ASSUME Recorded
  PROVE  Spec => []ReleasedIsResolved
<1>1. Init => Retained
  BY DEF Init, Retained
<1>2. IInv /\ Retained /\ [Next]_vars => Retained'
  BY NextRetains
<1>3. IInv /\ Retained => ReleasedIsResolved
  BY DEF Retained, Resolved, ReleasedIsResolved
<1> QED BY <1>1, <1>2, <1>3, InvariantHolds, PTL DEF Spec
-----------------------------------------------------------------------------
(* What "already in progress" means                                         *)

Working ==
  /\ PendingMeansRunning
  /\ \A t \in Threads : why[t] = "uncommitted" => Stranded(key[t])

Stored == Faults \cap {"unsaved", "unreconciled", "unrecorded"} = {}

\* A row gets a request id from the thread that runs the request.
LEMMA StrandedStays ==
  ASSUME IInv, NEW t \in Threads, Run(t), NEW k \in Commands, k # key[t],
         Stranded(k)
  PROVE  Stranded(k)'
<1> USE DEF IInv, TypeOK, Stranded
<1>1. ASSUME UNCHANGED <<origin, boundTo, hidden>>
      PROVE  Stranded(k)'
  BY <1>1
<1>2. ASSUME NEW c \in Calls, Dial(t, c)
      PROVE  Stranded(k)'
  BY <1>2 DEF Dial, Sent
<1>3. CASE Commit(t)
  <2>1. PICK c \in Calls : origin[c] = k /\ boundTo[c] = None /\ hidden[c] # "never"
    OBVIOUS
  <2>2. hidden'[c] # "never" /\ origin' = origin
    BY <1>3, <2>1 DEF Commit, HiddenBy
  <2>3. why[t] = "placed" => target[t] # c
    BY <2>1 DEF Established, Shape
  <2>4. boundTo'[c] = None
    BY <1>3, <2>1, <2>3 DEF Commit, Bound, Shape
  <2> QED BY <2>1, <2>2, <2>4
<1>4. CASE FailLocal(t) \/ AlreadyOver(t) \/ Dispatch(t)
  BY <1>1, <1>4 DEF FailLocal, AlreadyOver, Dispatch
<1>5. CASE Refuse(t) \/ DialLost(t)
  BY <1>1, <1>5 DEF Refuse, DialLost
<1>6. CASE HangUp(t) \/ HangUpFails(t) \/ Gone(t) \/ HangUpLost(t)
  BY <1>1, <1>6 DEF HangUp, HangUpFails, Gone, HangUpLost
<1>7. CASE Observe(t) \/ Unobserved(t) \/ CommitFails(t)
  BY <1>1, <1>7 DEF Observe, Unobserved, CommitFails
<1>8. CASE Terminate(t) \/ TerminateFails(t)
  BY <1>1, <1>8 DEF Terminate, TerminateFails
<1>9. CASE Settle(t) \/ SettleFails(t)
  BY <1>1, <1>9 DEF Settle, SettleFails
<1> QED BY <1>2, <1>3, <1>4, <1>5, <1>6, <1>7, <1>8, <1>9 DEF Run

LEMMA RunWorks ==
  ASSUME Stored, IInv, Working, NEW t \in Threads, Run(t)
  PROVE  Working'
<1> USE DEF IInv, TypeOK, Working
<1>1. \A k \in Commands : k # key[t] /\ Stranded(k) => Stranded(k)'
  BY StrandedStays
<1>2. CASE Settle(t)
  <2>1. \A k \in Commands : status'[k] = "pending" =>
           k # key[t] /\ status[k] = "pending"
    BY <1>2 DEF Settle, Shape
  <2>2. \A u \in Threads : key[u] # key[t] => key'[u] = key[u]
    BY <1>2 DEF Settle, Return
  <2>3. /\ up' = up
        /\ \A u \in Threads : why'[u] = "uncommitted" =>
             u # t /\ why[u] = "uncommitted"
    BY <1>2 DEF Settle, Return
  <2>4. \A u \in Threads : why[u] # "uncommitted" \/ u = t
    BY <1>2 DEF Settle, Exclusive, Shape
  <2> QED BY <1>1, <2>1, <2>2, <2>3, <2>4 DEF PendingMeansRunning
<1>3. ASSUME UNCHANGED <<status, up>>,
             key' = key \/ (key[t] = None /\ key' = [key EXCEPT ![t] = None]),
             NEW reason,
             reason = "uncommitted" => key' = key /\ Stranded(key[t])',
             why' = [why EXCEPT ![t] = reason]
      PROVE  Working'
  <2>1. ASSUME NEW k \in Commands, status'[k] = "pending", up'
        PROVE  (\E u \in Threads : key'[u] = k) \/ Stranded(k)'
    <3>1. (\E u \in Threads : key[u] = k) \/ Stranded(k)
      BY <1>3, <2>1 DEF PendingMeansRunning
    <3>2. \A u \in Threads : key[u] = k => key'[u] = k
      BY <1>3 DEF Commands
    <3> QED BY <1>1, <3>1, <3>2
  <2>2. ASSUME NEW u \in Threads, why'[u] = "uncommitted"
        PROVE  Stranded(key[u])'
    <3>1. CASE u = t
      BY <1>3, <2>2, <3>1 DEF Stranded
    <3>2. CASE u # t
      <4>1. why[u] = "uncommitted" /\ key'[u] = key[u]
        BY <1>3, <2>2, <3>2
      <4>2. key[u] \in Commands /\ key[u] # key[t]
        BY <3>2, <4>1 DEF Shape, Owned
      <4>3. Stranded(key[u])
        BY <4>1
      <4> QED BY <1>1, <4>1, <4>2, <4>3 DEF Stranded
    <3> QED BY <3>1, <3>2
  <2>3. Working' <=> /\ PendingMeansRunning'
                     /\ \A u \in Threads :
                          why'[u] = "uncommitted" => Stranded(key[u])'
    OBVIOUS
  <2> QED BY <2>1, <2>2, <2>3 DEF PendingMeansRunning
<1>4. CASE FailLocal(t) \/ AlreadyOver(t) \/ Dispatch(t)
  BY <1>3, <1>4 DEF FailLocal, AlreadyOver, Dispatch
<1>5. ASSUME NEW c \in Calls, Dial(t, c)
      PROVE  Working'
  BY <1>3, <1>5 DEF Dial, DialAnswer
<1>6. CASE Refuse(t) \/ DialLost(t)
  BY <1>3, <1>6 DEF Refuse, DialLost
<1>7. CASE HangUp(t) \/ HangUpFails(t) \/ Gone(t) \/ HangUpLost(t)
  BY <1>3, <1>7 DEF HangUp, HangUpFails, Gone, HangUpLost
<1>8. CASE Observe(t)
  BY <1>3, <1>8 DEF Observe, Unconfirmed, Shape
<1>9. CASE Unobserved(t)
  BY <1>3, <1>9 DEF Unobserved, Unrefreshed, Return, Shape
<1>10. CASE Commit(t)
  <2>1. Refreshed(t) /\ UNCHANGED <<status, up>>
    BY <1>10 DEF Commit, Stored
  <2>2. PICK reason : /\ why' = [why EXCEPT ![t] = reason]
                      /\ reason = "uncommitted" => Unloadable(t) /\ key' = key
    BY <2>1 DEF Refreshed, Outcome, Return
  <2>3. key' = key \/ (key[t] = None /\ key' = [key EXCEPT ![t] = None])
    BY <1>10, <2>1 DEF Commit, Refreshed, Return, Shape
  <2>4. ASSUME Unloadable(t), key' = key
        PROVE  Stranded(key[t])'
    <3>1. /\ target[t] \in Calls /\ target[t] \in snap[t]
          /\ origin[target[t]] = key[t] /\ row[target[t]] = "absent"
      BY <1>10, <2>4 DEF Commit, Unloadable, Established, Shape
    <3>2. hidden'[target[t]] = "now" /\ origin' = origin
      BY <1>10, <2>4, <3>1 DEF Commit, Unloadable, Projected, HiddenBy
    <3>3. boundTo'[target[t]] = None
      BY <1>10, <2>4, <3>1 DEF Commit, Bound, RowsTruthful
    <3>4. origin'[target[t]] = key'[t]
      BY <2>4, <3>1, <3>2
    <3> QED BY <3>1, <3>2, <3>3, <3>4 DEF Stranded
  <2> QED BY <1>3, <2>1, <2>2, <2>3, <2>4
<1>11. CASE Terminate(t) \/ TerminateFails(t)
  <2>1. AfterTermination(t) /\ UNCHANGED <<status, up, origin, boundTo, hidden>>
    BY <1>11 DEF Terminate, TerminateFails
  <2>2. CASE why[t] = "aborted"
    BY <1>3, <1>11, <2>2 DEF Terminate, TerminateFails, AfterTermination
  <2>3. CASE why[t] = "uncommitted"
    <3>1. Stranded(key[t]) /\ \A k : Stranded(k) => Stranded(k)'
      BY <2>1, <2>3 DEF Stranded
    <3>2. /\ key' = [key EXCEPT ![t] = None]
          /\ why' = [why EXCEPT ![t] = "plain"]
      BY <2>1, <2>3 DEF AfterTermination, Return
    <3> QED BY <2>1, <3>1, <3>2 DEF PendingMeansRunning
  <2> QED BY <2>1, <2>2, <2>3 DEF AfterTermination
<1>12. ~CommitFails(t) /\ ~SettleFails(t)
  BY DEF Stored, CommitFails, SettleFails
<1> QED BY <1>2, <1>4, <1>5, <1>6, <1>7, <1>8, <1>9, <1>10, <1>11, <1>12 DEF Run

LEMMA NextWorks ==
  ASSUME Stored, IInv, Working, [Next]_vars
  PROVE  Working'
<1> USE DEF IInv, TypeOK, Working, PendingMeansRunning, Stranded
<1>1. ASSUME NEW t \in Threads, NEW k \in Commands, NEW c, Begin(t, k, c)
      PROVE  Working'
  <2>1. key[t] = None
    BY <1>1 DEF Begin, Shape
  <2>2. \A u \in Threads : key[u] # None => key'[u] = key[u]
    BY <1>1, <2>1 DEF Begin
  <2>3. /\ key'[t] = k
        /\ UNCHANGED <<up, origin, boundTo, hidden>>
        /\ \A u \in Threads : why'[u] = "uncommitted" =>
             why[u] = "uncommitted" /\ key'[u] = key[u]
    BY <1>1 DEF Begin
  <2>4. \A j \in Commands : status'[j] = "pending" =>
           j = k \/ status[j] = "pending"
    BY <1>1 DEF Begin
  <2> QED BY <2>2, <2>3, <2>4
<1>2. ASSUME NEW t \in Threads, NEW k \in Commands, StartCall(t, k)
      PROVE  Working'
  BY <1>1, <1>2 DEF StartCall
<1>3. ASSUME NEW t \in Threads, NEW k \in Commands, NEW c \in Calls,
             CallAction(t, k, c)
      PROVE  Working'
  BY <1>1, <1>3 DEF CallAction
<1>4. ASSUME NEW t \in Threads, Poll(t) \/ Acquire(t)
      PROVE  Working'
  BY <1>4 DEF Poll, Acquire
<1>5. ASSUME NEW c \in Calls, LateHangUp(c) \/ Incoming(c) \/ EndsByItself(c)
      PROVE  Working'
  BY <1>5 DEF LateHangUp, Incoming, EndsByItself
<1>6. CASE Crash
  BY <1>6 DEF Crash
<1>7. CASE Restart
  BY <1>7 DEF Restart
<1>8. CASE UNCHANGED vars
  BY <1>8
<1> QED BY <1>2, <1>3, <1>4, <1>5, <1>6, <1>7, <1>8, RunWorks DEF Next

\* Where snapshots are stored, media and recordings reconciled and verdicts
\* recorded, "already in progress" is true: a pending command is being run,
\* or it is a start whose call the quarantine hid.
THEOREM PendingCommandsRun ==
  ASSUME Stored
  PROVE  Spec => []PendingMeansRunning
<1>1. Init => Working
  BY DEF Init, Working, PendingMeansRunning
<1>2. IInv /\ Working /\ [Next]_vars => Working'
  BY NextWorks
<1>3. Working => PendingMeansRunning
  BY DEF Working
<1> QED BY <1>1, <1>2, <1>3, InvariantHolds, PTL DEF Spec
=============================================================================
