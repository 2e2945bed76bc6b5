--------------------------- MODULE CallLeaseProofs ---------------------------
(***************************************************************************)
(* Theorems about the call ownership manager, for any number of sessions,  *)
(* requests, calls, lines, records and handlers.                           *)
(***************************************************************************)
EXTENDS CallLease, TLAPS

-----------------------------------------------------------------------------
(* What one committed snapshot can do to a row                             *)

\* A new row is a well-formed row of its line.
LEMMA RowsType ==
  ASSUME NEW l \in Lines, NEW rs \in SUBSET (Requests \cup {None}),
         NEW row \in Rows(l, rs)
  PROVE  /\ row \in RowType
         /\ row.line = l
         /\ row.phase \in {"ringing", "live", "unknown"}
BY LeaseAssumption DEF Rows, RowType

\* A snapshot keeps the line of a known call, and makes no call unknown.
LEMMA SuccessorFacts ==
  ASSUME TypeOK, NEW c \in Calls, RowShape(c), NEW row \in Successors(c)
  PROVE  /\ row \in RowType
         /\ row.phase = "absent" <=> row.line = None
         /\ calls[c].line # None => row.line = calls[c].line
         /\ calls[c].phase # "absent" => row.phase # "absent"
         /\ calls[c].phase \in {"ended", "relisted"} =>
              row.phase \in {"ended", "relisted"}
<1>0. calls[c] \in RowType
  BY DEF TypeOK
<1>1. CASE calls[c].phase = "absent"
  <2>1. calls[c].line = None
    BY <1>1 DEF RowShape
  <2>2. PICK x \in {NoRow} \cup UNION {Rows(l, DialedOn(l)) : l \in Lines} : row = x
    BY <1>1 DEF Successors
  <2>3. CASE row = NoRow
    BY <1>1, <2>1, <2>3 DEF NoRow, RowType
  <2>4. CASE row # NoRow
    <3>1. PICK l \in Lines : row \in Rows(l, DialedOn(l))
      BY <2>2, <2>4
    <3>2. DialedOn(l) \in SUBSET (Requests \cup {None})
      BY DEF DialedOn
    <3>3. QED
      BY <1>1, <2>1, <3>1, <3>2, RowsType, LeaseAssumption
  <2>5. QED
    BY <2>3, <2>4
<1>2. CASE calls[c].phase \in {"ended", "relisted"}
  <2>1. PICK p \in {"ended", "relisted"} : row = [calls[c] EXCEPT !.phase = p]
    BY <1>2 DEF Successors
  <2>2. QED
    BY <1>0, <1>2, <2>1 DEF RowShape, RowType
<1>3. CASE calls[c].phase \notin {"absent", "ended", "relisted"}
  <2>1. PICK p \in {"ended", calls[c].phase} \cup OpenPhases :
          row = [calls[c] EXCEPT !.phase = p]
    BY <1>3 DEF Successors
  <2>2. p \in {"ringing", "live", "unknown", "ended"}
    BY <1>0, <1>3, LeaseAssumption DEF RowType
  <2>3. QED
    BY <1>0, <1>3, <2>1, <2>2 DEF RowShape, RowType
<1>4. QED
  BY <1>1, <1>2, <1>3

-----------------------------------------------------------------------------
(* Most actions only touch what a record says about time and liveness      *)

SameIdentity(r, q) ==
  /\ q.req = r.req /\ q.call = r.call /\ q.line = r.line /\ q.holder = r.holder
  /\ q.preparing => r.preparing
  /\ q.ending => r.ending \/ r.call # None
  /\ r = NoRecord => q = NoRecord

RecordsOK ==
  /\ \A s \in Slots : RecordShape(rec[s])
  /\ OneRecordPerIdentity
  /\ OneRecordPerHolder
  /\ OneOwnerPerLine

\* Removing records and refreshing them cannot break what relates records.
LEMMA Keep ==
  ASSUME IInv, UNCHANGED calls, rec' \in [Slots -> RecordType],
         \A s \in Slots : rec'[s] = NoRecord \/ SameIdentity(rec[s], rec'[s])
  PROVE  RecordsOK'
<1>1. Live' \subseteq Live /\ \A s \in Live' : SameIdentity(rec[s], rec'[s])
  BY DEF Live, NoRecord, SameIdentity
<1>2. \A s \in Slots : RecordShape(rec[s])'
  <2> SUFFICES ASSUME NEW s \in Slots PROVE RecordShape(rec[s])'
    OBVIOUS
  <2>1. CASE rec'[s] = NoRecord
    BY <2>1 DEF RecordShape, NoRecord
  <2>2. CASE SameIdentity(rec[s], rec'[s])
    <3>1. RecordShape(rec[s])
      BY DEF IInv
    <3>2. rec'[s] = NoRecord \/ rec[s] # NoRecord
      BY <2>2 DEF SameIdentity
    <3>3. QED
      BY <2>1, <2>2, <3>1, <3>2 DEF RecordShape, SameIdentity
  <2>3. QED
    BY <2>1, <2>2
<1>3. OneRecordPerIdentity'
  BY <1>1 DEF IInv, OneRecordPerIdentity, SameIdentity
<1>4. OneRecordPerHolder'
  BY <1>1 DEF IInv, OneRecordPerHolder, SameIdentity
<1>5. OneOwnerPerLine'
  BY <1>1 DEF IInv, OneOwnerPerLine, SameIdentity
<1>6. QED
  BY <1>2, <1>3, <1>4, <1>5 DEF RecordsOK

\* The parts of the invariant that do not depend on the records.
RestOK ==
  /\ \A c \in Calls : RowShape(c)
  /\ \A t \in Threads : HandlerShape(handler[t])
  /\ \A c \in todo : calls[c].phase # "absent"

LEMMA IInvParts == IInv <=> TypeOK /\ RestOK /\ RecordsOK
BY DEF IInv, RestOK, RecordsOK

\* A handler that is done, and a list that gets shorter, ask nothing new.
LEMMA RestKept ==
  ASSUME IInv, UNCHANGED calls, todo' \subseteq todo,
         \A t \in Threads : handler'[t] = handler[t] \/ handler'[t] = Idle
  PROVE  RestOK'
<1>1. \A t \in Threads : HandlerShape(handler[t])'
  BY DEF IInv, HandlerShape, Idle
<1>2. QED
  BY <1>1 DEF IInv, RestOK, RowShape

\* The whole invariant, for the actions that create and name no record.
LEMMA KeepStep ==
  ASSUME IInv, TypeOK', UNCHANGED calls, todo' \subseteq todo,
         \A t \in Threads : handler'[t] = handler[t] \/ handler'[t] = Idle,
         \A s \in Slots : rec'[s] = NoRecord \/ SameIdentity(rec[s], rec'[s])
  PROVE  IInv'
<1>1. rec' \in [Slots -> RecordType]
  BY DEF TypeOK
<1>2. RecordsOK'
  BY <1>1, Keep
<1>3. RestOK'
  BY RestKept
<1>4. QED
  BY <1>2, <1>3 DEF IInv, RestOK, RecordsOK

LEMMA Constants ==
  /\ NoRecord \in RecordType
  /\ Idle \in OpType
  /\ Grace \in 0..Grace /\ Grace \in 0..PrepareWindow
  /\ Grace \in NoDeadline..Grace /\ NoDeadline \in NoDeadline..Grace
  /\ 0 \in NoDeadline..Grace /\ PrepareWindow \in 0..PrepareWindow
  /\ 0 \in 0..PrepareWindow
BY LeaseAssumption DEF NoRecord, RecordType, Idle, OpType, NoDeadline

LEMMA OrGraceType ==
  \A d \in NoDeadline..Grace : OrGrace(d) \in NoDeadline..Grace
BY Constants DEF OrGrace

\* A handler that ends one locked section.
LEMMA DoneFacts ==
  ASSUME TypeOK, NEW t \in Threads, Done(t)
  PROVE  /\ handler' \in [Threads -> OpType]
         /\ \A u \in Threads : handler'[u] = handler[u] \/ handler'[u] = Idle
         /\ handler[t] \in OpType
BY Constants DEF TypeOK, Done

-----------------------------------------------------------------------------
(* The operations that create no record                                    *)

LEMMA RefreshStep == ASSUME IInv, NEW t \in Threads, Refresh(t) PROVE IInv'
<1>1. TypeOK
  BY DEF IInv
<1>2. \A s \in Slots : /\ rec'[s] \in RecordType
                       /\ SameIdentity(rec[s], rec'[s])
  <2> SUFFICES ASSUME NEW s \in Slots
               PROVE  rec'[s] \in RecordType /\ SameIdentity(rec[s], rec'[s])
    OBVIOUS
  <2>1. \/ rec'[s] = rec[s]
        \/ s \in Live /\ rec'[s] = [rec[s] EXCEPT !.orphanAt = Grace]
    BY DEF Refresh
  <2>2. rec[s] \in RecordType
    BY <1>1 DEF TypeOK
  <2>3. CASE rec'[s] = rec[s]
    BY <2>2, <2>3 DEF SameIdentity
  <2>4. CASE s \in Live /\ rec'[s] = [rec[s] EXCEPT !.orphanAt = Grace]
    BY <2>2, <2>4, Constants DEF SameIdentity, RecordType, Live, NoRecord
  <2>5. QED
    BY <2>1, <2>3, <2>4
<1>3. rec' \in [Slots -> RecordType]
  BY <1>2 DEF Refresh
<1>4. TypeOK'
  BY <1>1, <1>3, DoneFacts DEF TypeOK, Refresh
<1>5. QED
  BY <1>1, <1>2, <1>4, DoneFacts, KeepStep DEF Refresh

\* One record of a caller that keeps its identity, or goes.
LEMMA UpdateStep ==
  ASSUME IInv, NEW s \in Slots, NEW r \in RecordType, Update(s, r),
         r = NoRecord \/ SameIdentity(rec[s], r),
         endRequested' \subseteq Calls, UNCHANGED inherited
  PROVE  IInv'
<1>1. TypeOK
  BY DEF IInv
<1>2. TypeOK'
  BY <1>1 DEF TypeOK, Update
<1>3. \A x \in Slots : rec'[x] = NoRecord \/ SameIdentity(rec[x], rec'[x])
  <2> SUFFICES ASSUME NEW x \in Slots
               PROVE  rec'[x] = NoRecord \/ SameIdentity(rec[x], rec'[x])
    OBVIOUS
  <2>1. CASE x = s
    BY <1>1, <2>1 DEF TypeOK, Update
  <2>2. CASE x # s
    BY <1>1, <2>2 DEF TypeOK, Update, SameIdentity
  <2>3. QED
    BY <2>1, <2>2
<1>4. QED
  BY <1>2, <1>3, KeepStep DEF Update

LEMMA MediaStep ==
  ASSUME IInv, NEW s \in Slots, MediaConnected(s) \/ MediaDisconnected(s)
  PROVE  IInv'
<1>1. /\ rec[s] \in RecordType /\ endRequested \subseteq Calls
      /\ rec[s] # NoRecord
  BY DEF IInv, TypeOK, MediaConnected, MediaDisconnected, MediaReaches, NoRecord
<1>2. CASE MediaConnected(s)
  <2> DEFINE r == [rec[s] EXCEPT !.mediaAlive = TRUE]
  <2>1. r \in RecordType /\ SameIdentity(rec[s], r)
    BY <1>1 DEF RecordType, SameIdentity
  <2>2. Update(s, r) /\ UNCHANGED <<endRequested, inherited>>
    BY <1>2 DEF MediaConnected
  <2> HIDE DEF r
  <2>3. QED
    BY <1>1, <2>1, <2>2, UpdateStep
<1>3. CASE MediaDisconnected(s)
  <2> DEFINE r == [rec[s] EXCEPT !.mediaAlive = FALSE, !.orphanAt = Grace]
  <2>1. r \in RecordType /\ SameIdentity(rec[s], r)
    BY <1>1, Constants DEF RecordType, SameIdentity
  <2>2. Update(s, r) /\ UNCHANGED <<endRequested, inherited>>
    BY <1>3 DEF MediaDisconnected
  <2> HIDE DEF r
  <2>3. QED
    BY <1>1, <2>1, <2>2, UpdateStep
<1>4. QED
  BY <1>2, <1>3

LEMMA OutgoingStep ==
  ASSUME IInv, NEW s \in Slots, NEW h \in Holders, Outgoing(s, h)
  PROVE  IInv'
<1>1. rec[s] \in RecordType /\ endRequested \subseteq Calls
  BY DEF IInv, TypeOK
<1>2. rec[s] # NoRecord
  BY DEF Outgoing, RenewPreparation, BeginOutgoing, ReleaseOutgoing,
         AwaitOutgoingResolution, CancelOutgoing, Reservation, Live, NoRecord
<1>3. CASE RenewPreparation(s, h)
  <2> DEFINE r == [rec[s] EXCEPT !.prepareUntil = PrepareWindow]
  <2>1. r \in RecordType /\ SameIdentity(rec[s], r)
    BY <1>1, <1>2, Constants DEF RecordType, SameIdentity
  <2>2. Update(s, r) /\ UNCHANGED <<endRequested, inherited>>
    BY <1>3 DEF RenewPreparation
  <2> HIDE DEF r
  <2>3. QED
    BY <1>1, <2>1, <2>2, UpdateStep
<1>4. CASE BeginOutgoing(s, h)
  <2> DEFINE r == [rec[s] EXCEPT !.preparing = FALSE, !.dispatching = TRUE]
  <2>1. r \in RecordType /\ SameIdentity(rec[s], r)
    BY <1>1, <1>2 DEF RecordType, SameIdentity
  <2>2. Update(s, r) /\ UNCHANGED <<endRequested, inherited>>
    BY <1>4 DEF BeginOutgoing
  <2> HIDE DEF r
  <2>3. QED
    BY <1>1, <2>1, <2>2, UpdateStep
<1>5. CASE ReleaseOutgoing(s, h)
  BY <1>1, <1>5, Constants, UpdateStep DEF ReleaseOutgoing
<1>6. CASE AwaitOutgoingResolution(s, h)
  <2> DEFINE r == [rec[s] EXCEPT !.orphanAt = Grace]
  <2>1. r \in RecordType /\ SameIdentity(rec[s], r)
    BY <1>1, <1>2, Constants DEF RecordType, SameIdentity
  <2>2. Update(s, r) /\ UNCHANGED <<endRequested, inherited>>
    BY <1>6 DEF AwaitOutgoingResolution
  <2> HIDE DEF r
  <2>3. QED
    BY <1>1, <2>1, <2>2, UpdateStep
<1>7. CASE CancelOutgoing(s, h)
  <2> DEFINE q == [rec[s] EXCEPT !.revoked = TRUE, !.mediaAlive = FALSE]
             e == [q EXCEPT !.ending = TRUE]
             d == [q EXCEPT !.orphanAt = OrGrace(q.orphanAt)]
  <2>1. /\ e \in RecordType
        /\ rec[s].call # None => SameIdentity(rec[s], e)
    BY <1>1, <1>2 DEF RecordType, SameIdentity
  <2>2. d \in RecordType /\ SameIdentity(rec[s], d)
    <3>1. q.orphanAt \in NoDeadline..Grace
      BY <1>1 DEF RecordType
    <3>2. OrGrace(q.orphanAt) \in NoDeadline..Grace
      BY <3>1, OrGraceType
    <3>3. QED
      BY <1>1, <1>2, <3>2 DEF RecordType, SameIdentity
  <2>3. /\ UNCHANGED inherited
        /\ \/ Update(s, NoRecord) /\ endRequested' \subseteq Calls
           \/ /\ Update(s, e) /\ rec[s].call # None
              /\ endRequested' \subseteq Calls
           \/ Update(s, d) /\ endRequested' \subseteq Calls
    <3>1. rec[s].call \in Calls \cup {None}
      BY <1>1 DEF RecordType
    <3>2. QED
      BY <1>1, <1>7, <3>1 DEF CancelOutgoing
  <2> HIDE DEF e, d
  <2>4. QED
    BY <2>1, <2>2, <2>3, Constants, UpdateStep
<1>8. QED
  BY <1>3, <1>4, <1>5, <1>6, <1>7 DEF Outgoing

\* Revocation, removal and expiry work on all records at once.
LEMMA SweepStep ==
  ASSUME IInv, UNCHANGED <<calls, handler>>, todo' \subseteq todo,
         rec' \in [Slots -> RecordType],
         \A s \in Slots : rec'[s] = NoRecord \/ SameIdentity(rec[s], rec'[s]),
         initialized' \in BOOLEAN, coord' \in {"idle", "captured", "binding"},
         missing' \subseteq Slots \X Calls, expired' \subseteq Slots \X Calls,
         endRequested' \subseteq Calls, UNCHANGED inherited
  PROVE  IInv'
<1>1. TypeOK'
  BY DEF IInv, TypeOK
<1>2. QED
  BY <1>1, KeepStep

LEMMA RevokeStep ==
  ASSUME IInv, NEW group \in Groups, Revoke(group) PROVE IInv'
<1>1. rec \in [Slots -> RecordType] /\ endRequested \subseteq Calls
  BY DEF IInv, TypeOK
<1> DEFINE cut(r)  == [r EXCEPT !.mediaAlive = FALSE, !.revoked = TRUE,
                                !.orphanAt = OrGrace(r.orphanAt)]
           stop(r) == [r EXCEPT !.mediaAlive = FALSE, !.revoked = TRUE,
                                !.ending = TRUE]
<1>2. \A s \in Slots : \/ rec'[s] = rec[s]
                       \/ s \in Live /\ rec'[s] = cut(rec[s])
                       \/ /\ s \in Live /\ rec'[s] = stop(rec[s])
                          /\ rec[s].call # None
  BY DEF Revoke
<1>3. \A s \in Slots : rec'[s] \in RecordType /\ SameIdentity(rec[s], rec'[s])
  <2> SUFFICES ASSUME NEW s \in Slots
               PROVE  rec'[s] \in RecordType /\ SameIdentity(rec[s], rec'[s])
    OBVIOUS
  <2>0. rec[s] \in RecordType
    BY <1>1
  <2>1. CASE rec'[s] = rec[s]
    BY <2>0, <2>1 DEF SameIdentity
  <2>2. CASE s \in Live /\ rec'[s] = cut(rec[s])
    <3>1. rec[s].orphanAt \in NoDeadline..Grace
      BY <2>0 DEF RecordType
    <3>2. OrGrace(rec[s].orphanAt) \in NoDeadline..Grace
      BY <3>1, OrGraceType
    <3>3. rec[s] # NoRecord
      BY <2>2 DEF Live, NoRecord
    <3>4. QED
      BY <2>0, <2>2, <3>2, <3>3 DEF RecordType, SameIdentity
  <2>3. CASE s \in Live /\ rec'[s] = stop(rec[s]) /\ rec[s].call # None
    <3>1. rec[s] # NoRecord
      BY <2>3 DEF Live, NoRecord
    <3>2. QED
      BY <2>0, <2>3, <3>1 DEF RecordType, SameIdentity
  <2>4. QED
    BY <1>2, <2>1, <2>2, <2>3
<1> HIDE DEF cut, stop
<1>4. rec' \in [Slots -> RecordType]
  BY <1>3 DEF Revoke
<1>5. endRequested' \subseteq Calls
  <2>1. \A s \in Slots : rec[s].call \in Calls \cup {None}
    BY <1>1 DEF RecordType
  <2>2. QED
    BY <1>1, <2>1 DEF Revoke, Live
<1>6. QED
  BY <1>3, <1>4, <1>5, SweepStep DEF Revoke, IInv, TypeOK

LEMMA FinishStep == ASSUME IInv, FinishReconcile PROVE IInv'
<1>1. rec \in [Slots -> RecordType]
  BY DEF IInv, TypeOK
<1>2. \A s \in Slots : rec'[s] = NoRecord \/ rec'[s] = rec[s]
  BY DEF FinishReconcile
<1>3. rec' \in [Slots -> RecordType]
  BY <1>1, Constants DEF FinishReconcile
<1>4. \A s \in Slots : rec'[s] = NoRecord \/ SameIdentity(rec[s], rec'[s])
  BY <1>2 DEF SameIdentity
<1>5. missing' \subseteq Slots \X Calls
  BY DEF FinishReconcile
<1>6. QED
  BY <1>3, <1>4, <1>5, SweepStep DEF FinishReconcile, IInv, TypeOK

LEMMA VerifyStep ==
  ASSUME IInv, NEW s \in Slots, NEW c \in Calls, VerifyMissing(s, c)
  PROVE  IInv'
<1>1. rec \in [Slots -> RecordType] /\ missing \subseteq Slots \X Calls
  BY DEF IInv, TypeOK
<1>2. rec' \in [Slots -> RecordType]
  BY <1>1, Constants DEF VerifyMissing
<1>3. \A x \in Slots : rec'[x] = NoRecord \/ SameIdentity(rec[x], rec'[x])
  BY <1>1 DEF VerifyMissing, SameIdentity
<1>4. missing' \subseteq Slots \X Calls
  BY <1>1 DEF VerifyMissing
<1>5. QED
  BY <1>2, <1>3, <1>4, SweepStep DEF VerifyMissing, IInv, TypeOK

LEMMA RunStep == ASSUME IInv, Run PROVE IInv'
<1>1. rec \in [Slots -> RecordType] /\ endRequested \subseteq Calls
      /\ expired \subseteq Slots \X Calls
  BY DEF IInv, TypeOK
<1>2. CASE ExpireCalls
  <2> DEFINE stop(r) == [r EXCEPT !.ending = TRUE]
  <2>1. \A s \in Slots : \/ rec'[s] = NoRecord
                         \/ rec'[s] = rec[s]
                         \/ rec[s].call # None /\ rec'[s] = stop(rec[s])
    BY <1>2 DEF ExpireCalls, Orphaned
  <2>2. \A s \in Slots : \/ rec'[s] = NoRecord
                         \/ /\ rec'[s] \in RecordType
                            /\ SameIdentity(rec[s], rec'[s])
    <3> SUFFICES ASSUME NEW s \in Slots,
                        rec[s].call # None /\ rec'[s] = stop(rec[s])
                 PROVE  /\ rec'[s] \in RecordType
                        /\ SameIdentity(rec[s], rec'[s])
      BY <1>1, <2>1 DEF SameIdentity
    <3>1. rec[s] \in RecordType /\ rec[s] # NoRecord
      BY <1>1 DEF NoRecord
    <3>2. QED
      BY <3>1 DEF RecordType, SameIdentity
  <2> HIDE DEF stop
  <2>3. rec' \in [Slots -> RecordType]
    BY <1>2, <2>2, Constants DEF ExpireCalls
  <2>4. expired' \subseteq Slots \X Calls
    BY <1>2 DEF ExpireCalls
  <2>5. QED
    BY <1>2, <2>2, <2>3, <2>4, SweepStep DEF ExpireCalls, IInv, TypeOK
<1>3. CASE \E s \in Slots, c \in Calls : EndExpired(s, c)
  <2>1. \A s \in Slots : SameIdentity(rec[s], rec'[s])
    BY <1>3 DEF EndExpired, SameIdentity
  <2>2. endRequested' \subseteq Calls /\ expired' \subseteq Slots \X Calls
    BY <1>1, <1>3 DEF EndExpired
  <2>3. UNCHANGED <<rec, initialized, calls, handler, coord, todo, missing, inherited>>
    BY <1>3 DEF EndExpired
  <2>4. QED
    BY <2>1, <2>2, <2>3, SweepStep DEF IInv, TypeOK
<1>4. QED
  BY <1>2, <1>3 DEF Run

LEMMA TickStep == ASSUME IInv, Tick PROVE IInv'
<1>1. rec \in [Slots -> RecordType]
  BY DEF IInv, TypeOK
<1>2. /\ \A d \in NoDeadline..Grace : Elapse(d) \in NoDeadline..Grace
      /\ \A d \in 0..PrepareWindow : Elapse(d) \in 0..PrepareWindow
      /\ Elapse(NoDeadline) = NoDeadline /\ Elapse(0) = 0
  BY LeaseAssumption DEF Elapse, NoDeadline
<1>3. \A s \in Slots : rec'[s] \in RecordType /\ SameIdentity(rec[s], rec'[s])
  <2> SUFFICES ASSUME NEW s \in Slots
               PROVE  rec'[s] \in RecordType /\ SameIdentity(rec[s], rec'[s])
    OBVIOUS
  <2>0. rec[s] \in RecordType
    BY <1>1
  <2>1. rec'[s] = [rec[s] EXCEPT !.orphanAt = Elapse(rec[s].orphanAt),
                                 !.prepareUntil = Elapse(rec[s].prepareUntil)]
    BY DEF Tick
  <2>2. /\ Elapse(rec[s].orphanAt) \in NoDeadline..Grace
        /\ Elapse(rec[s].prepareUntil) \in 0..PrepareWindow
    BY <1>2, <2>0 DEF RecordType
  <2>3. rec'[s] \in RecordType
    BY <2>0, <2>1, <2>2 DEF RecordType
  <2>4. ASSUME rec[s] = NoRecord PROVE rec'[s] = NoRecord
    <3>1. rec[s].orphanAt = NoDeadline /\ rec[s].prepareUntil = 0
      BY <2>4 DEF NoRecord
    <3>2. rec'[s] = [NoRecord EXCEPT !.orphanAt = NoDeadline, !.prepareUntil = 0]
      BY <1>2, <2>1, <2>4, <3>1
    <3>3. QED
      BY <3>2 DEF NoRecord
  <2>5. QED
    BY <2>0, <2>1, <2>3, <2>4 DEF SameIdentity, RecordType
<1>4. rec' \in [Slots -> RecordType]
  BY <1>3 DEF Tick
<1>5. QED
  BY <1>3, <1>4, SweepStep DEF Tick, IInv, TypeOK

-----------------------------------------------------------------------------
(* The operations that create or bind a record                             *)

\* One record is written; it may only stand where no other record is in its
\* way.  Other records may go at the same time.
LEMMA Put ==
  ASSUME IInv, UNCHANGED calls, NEW s \in Slots,
         rec' \in [Slots -> RecordType], RecordShape(rec'[s]),
         \A x \in Slots \ {s} : rec'[x] = NoRecord \/ rec'[x] = rec[x],
         \A x \in Live' \ {s} :
           /\ rec'[s].call # None => rec[x].call # rec'[s].call
           /\ rec'[s].req # None => rec[x].req # rec'[s].req
           /\ rec'[s].holder \in Holders =>
                /\ rec[x].holder # rec'[s].holder
                /\ rec[x].holder \in Holders => rec[x].line # rec'[s].line
  PROVE  RecordsOK'
<1>1. \A x \in Live' \ {s} : x \in Live /\ rec'[x] = rec[x]
  BY DEF Live, NoRecord
<1>2. \A x \in Slots : RecordShape(rec[x])'
  <2> SUFFICES ASSUME NEW x \in Slots PROVE RecordShape(rec[x])'
    OBVIOUS
  <2>1. CASE x = s
    BY <2>1 DEF RecordShape
  <2>2. CASE rec'[x] = NoRecord
    BY <2>2 DEF RecordShape, NoRecord
  <2>3. CASE x # s /\ rec'[x] = rec[x]
    BY <2>3 DEF IInv, RecordShape
  <2>4. QED
    BY <2>1, <2>2, <2>3
<1>3. OneRecordPerIdentity'
  <2> SUFFICES ASSUME NEW a \in Live', NEW b \in Live',
                      \/ rec'[a].call # None /\ rec'[a].call = rec'[b].call
                      \/ rec'[a].req # None /\ rec'[a].req = rec'[b].req
               PROVE  a = b
    BY DEF OneRecordPerIdentity
  <2>1. CASE a # s /\ b # s
    BY <1>1, <2>1 DEF IInv, OneRecordPerIdentity
  <2>2. CASE a = s \/ b = s
    BY <1>1, <2>2
  <2>3. QED
    BY <2>1, <2>2
<1>4. OneRecordPerHolder'
  <2> SUFFICES ASSUME NEW a \in Live', NEW b \in Live',
                      rec'[a].holder \in Holders, rec'[a].holder = rec'[b].holder
               PROVE  a = b
    BY DEF OneRecordPerHolder
  <2>1. CASE a # s /\ b # s
    BY <1>1, <2>1 DEF IInv, OneRecordPerHolder
  <2>2. CASE a = s \/ b = s
    BY <1>1, <2>2
  <2>3. QED
    BY <2>1, <2>2
<1>5. OneOwnerPerLine'
  <2> SUFFICES ASSUME NEW a \in Live', NEW b \in Live',
                      rec'[a].holder \in Holders, rec'[b].holder \in Holders,
                      rec'[a].line = rec'[b].line
               PROVE  a = b
    BY DEF OneOwnerPerLine
  <2>1. CASE a # s /\ b # s
    BY <1>1, <2>1 DEF IInv, OneOwnerPerLine
  <2>2. CASE a = s \/ b = s
    BY <1>1, <2>2
  <2>3. QED
    BY <2>1, <2>2
<1>6. QED
  BY <1>2, <1>3, <1>4, <1>5 DEF RecordsOK

\* The whole invariant, once the records are accounted for.
LEMMA HandlerStep ==
  ASSUME IInv, NEW t \in Threads, Done(t), rec' \in [Slots -> RecordType],
         RecordsOK',
         UNCHANGED <<initialized, calls, coord, todo, missing, expired,
                     endRequested, inherited>>
  PROVE  IInv'
<1>1. TypeOK'
  BY DoneFacts DEF IInv, TypeOK
<1>2. RestOK'
  BY DoneFacts, RestKept DEF IInv
<1>3. QED
  BY <1>1, <1>2 DEF IInv, RestOK, RecordsOK

LEMMA PrepareStep == ASSUME IInv, NEW t \in Threads, Prepare(t) PROVE IInv'
<1> DEFINE o == handler[t]
<1>1. /\ rec \in [Slots -> RecordType] /\ o \in OpType /\ HandlerShape(o)
      /\ o.kind = "prepare" /\ Done(t)
      /\ UNCHANGED <<initialized, calls, coord, todo, missing, expired,
                     endRequested, inherited>>
  BY DEF IInv, TypeOK, Prepare
<1>2. o.holder \in Holders /\ o.req \in Requests /\ o.line \in Lines
  BY <1>1 DEF HandlerShape
<1>3. CASE UNCHANGED rec
  BY <1>1, <1>3, Keep, HandlerStep DEF SameIdentity
<1>4. CASE ~PrepareRefused(o) /\ ~UNCHANGED rec
  <2> DEFINE q == [NoRecord EXCEPT !.req = o.req, !.line = o.line,
                                   !.holder = o.holder, !.preparing = TRUE,
                                   !.prepareUntil = Grace]
  <2>1. PICK s \in FreeSlots : rec' = [rec EXCEPT ![s] = q]
    BY <1>4 DEF Prepare
  <2>2. s \in Slots
    BY DEF FreeSlots
  <2>3. /\ q \in RecordType /\ q.call = None /\ q.req = o.req
        /\ q.line = o.line /\ q.holder = o.holder /\ ~q.ending
    BY <1>2, Constants DEF RecordType, NoRecord
  <2>4. RecordShape(q)
    BY <1>2, <2>3, LeaseAssumption DEF RecordShape
  <2> HIDE DEF q
  <2>5. /\ rec' \in [Slots -> RecordType] /\ rec'[s] = q
        /\ \A x \in Slots \ {s} : rec'[x] = rec[x]
    BY <1>1, <2>1, <2>2, <2>3
  <2>6. \A x \in Live' \ {s} : x \in Live
    BY <2>5 DEF Live
  <2>7. \A x \in Live : rec[x].req # o.req /\ rec[x].line # o.line
                          /\ rec[x].holder # o.holder
    BY <1>4 DEF PrepareRefused
  <2>8. RecordsOK'
    BY <1>1, <2>2, <2>3, <2>4, <2>5, <2>6, <2>7, Put
  <2>9. QED
    BY <1>1, <2>5, <2>8, HandlerStep
<1>5. QED
  BY <1>3, <1>4 DEF Prepare

LEMMA ActivateStep == ASSUME IInv, NEW t \in Threads, Activate(t) PROVE IInv'
<1> DEFINE o == handler[t]
<1>1. /\ rec \in [Slots -> RecordType] /\ o \in OpType /\ HandlerShape(o)
      /\ o.kind = "activate" /\ Done(t)
      /\ UNCHANGED <<initialized, calls, coord, todo, missing, expired,
                     endRequested, inherited>>
  BY DEF IInv, TypeOK, Activate
<1>2. o.call \in Calls /\ o.line = calls[o.call].line /\ o.line # None
  BY <1>1 DEF HandlerShape
<1>3. CASE UNCHANGED rec
  BY <1>1, <1>3, Keep, HandlerStep DEF SameIdentity
<1>4. CASE ~UNCHANGED rec
  <2> DEFINE cleared(s) == [x \in Slots |->
               IF x \in Shadows(s, o) THEN NoRecord ELSE rec[x]]
             blocked(s) == \E x \in Live \ ({s} \cup Shadows(s, o)) :
               \/ rec[x].line = o.line /\ BlocksLine(rec[x])
               \/ rec[x].holder = o.holder
             q(s) == [rec[s] EXCEPT !.preparing = FALSE, !.dispatching = FALSE,
                                    !.call = o.call, !.orphanAt = Grace]
  <2>1. PICK s \in Live :
          /\ Activatable(s, o)
          /\ rec' = IF blocked(s) THEN cleared(s)
                    ELSE [cleared(s) EXCEPT ![s] = q(s)]
    BY <1>4 DEF Activate
  <2>2. s \in Slots /\ s \notin Shadows(s, o)
    BY DEF Live, Shadows
  <2>3. CASE blocked(s)
    <3>1. rec' = cleared(s)
      BY <2>1, <2>3
    <3>2. rec' \in [Slots -> RecordType]
      BY <1>1, <3>1, Constants
    <3>3. \A x \in Slots : rec'[x] = NoRecord \/ SameIdentity(rec[x], rec'[x])
      BY <3>1 DEF SameIdentity
    <3>4. QED
      BY <1>1, <3>2, <3>3, Keep, HandlerStep
  <2>4. CASE ~blocked(s)
    <3>1. /\ q(s) \in RecordType /\ q(s).call = o.call
          /\ q(s).req = rec[s].req /\ q(s).line = rec[s].line
          /\ q(s).holder = rec[s].holder /\ q(s).preparing = FALSE
      BY <1>1, <1>2, <2>2, Constants DEF RecordType
    <3>2. rec[s].holder = o.holder /\ rec[s].line = o.line
      BY <2>1 DEF Activatable
    <3>3. RecordShape(q(s))
      BY <1>2, <3>1, <3>2, LeaseAssumption DEF RecordShape
    <3>4. /\ rec'[s] = q(s)
          /\ \A x \in Slots \ {s} :
               rec'[x] = IF x \in Shadows(s, o) THEN NoRecord ELSE rec[x]
      BY <2>1, <2>2, <2>4
    <3>5. rec' \in [Slots -> RecordType]
      BY <1>1, <2>1, <2>4, <3>1, Constants
    <3> HIDE DEF q
    <3>6. \A x \in Live' \ {s} : x \in Live \ ({s} \cup Shadows(s, o))
      BY <3>4 DEF Live, NoRecord
    <3>7. \A x \in Live' \ {s} :
            /\ rec[x].call # o.call /\ rec[x].holder # o.holder
            /\ rec[x].line = o.line => rec[x].holder \notin Holders
      BY <2>4, <3>6, LeaseAssumption DEF Shadows, BlocksLine
    <3>8. \A x \in Live' \ {s} : rec[s].req # None => rec[x].req # rec[s].req
      BY <3>6 DEF IInv, OneRecordPerIdentity
    <3>9. RecordsOK'
      BY <1>1, <2>2, <3>1, <3>2, <3>3, <3>4, <3>5, <3>7, <3>8, Put
    <3>10. QED
      BY <1>1, <3>5, <3>9, HandlerStep
  <2>5. QED
    BY <2>3, <2>4
<1>5. QED
  BY <1>3, <1>4

LEMMA ClaimStep == ASSUME IInv, NEW t \in Threads, Claim(t) PROVE IInv'
<1> DEFINE o == handler[t]
           admitted == o.clear /\ ~ClaimBlocked(o.call, o.holder, o.line)
<1>1. /\ rec \in [Slots -> RecordType] /\ o \in OpType /\ HandlerShape(o)
      /\ o.kind = "claim" /\ Done(t)
      /\ UNCHANGED <<initialized, calls, coord, todo, missing, expired,
                     endRequested, inherited>>
  BY DEF IInv, TypeOK, Claim
<1>2. /\ o.call \in Calls /\ o.line = calls[o.call].line /\ o.line # None
      /\ o.line \in Lines /\ o.holder \in Holders /\ o.call # None
  BY <1>1, LeaseAssumption DEF HandlerShape, OpType
<1>3. CASE UNCHANGED rec
  BY <1>1, <1>3, Keep, HandlerStep DEF SameIdentity
<1>4. CASE /\ \A s \in Live : rec[s].call # o.call
           /\ \E s \in FreeSlots :
                rec' = [rec EXCEPT ![s] =
                  [NoRecord EXCEPT
                     !.call = o.call, !.line = o.line,
                     !.holder = IF admitted THEN o.holder ELSE None,
                     !.orphanAt = IF admitted THEN Grace ELSE NoDeadline]]
  <2> DEFINE q == [NoRecord EXCEPT
                     !.call = o.call, !.line = o.line,
                     !.holder = IF admitted THEN o.holder ELSE None,
                     !.orphanAt = IF admitted THEN Grace ELSE NoDeadline]
  <2>1. PICK s \in FreeSlots : rec' = [rec EXCEPT ![s] = q]
    BY <1>4
  <2>2. s \in Slots
    BY DEF FreeSlots
  <2>3. /\ q \in RecordType /\ q.call = o.call /\ q.req = None
        /\ q.line = o.line /\ q.preparing = FALSE
        /\ q.holder = IF admitted THEN o.holder ELSE None
    BY <1>2, Constants DEF RecordType, NoRecord
  <2>4. RecordShape(q)
    BY <1>2, <2>3 DEF RecordShape
  <2> HIDE DEF q
  <2>5. /\ rec' \in [Slots -> RecordType] /\ rec'[s] = q
        /\ \A x \in Slots \ {s} : rec'[x] = rec[x]
    BY <1>1, <2>1, <2>2, <2>3
  <2>6. \A x \in Live' \ {s} : x \in Live
    BY <2>5 DEF Live
  <2>7. q.holder \in Holders => \A x \in Live :
          /\ rec[x].holder # o.holder
          /\ rec[x].holder \in Holders => rec[x].line # o.line
    <3>1. CASE ~admitted
      BY <2>3, <3>1, LeaseAssumption
    <3>2. CASE admitted
      BY <1>4, <3>2, LeaseAssumption DEF ClaimBlocked, BlocksLine
    <3>3. QED
      BY <3>1, <3>2
  <2>8. q.holder \in Holders => q.holder = o.holder
    BY <2>3, LeaseAssumption
  <2>9. \A x \in Live' \ {s} :
          /\ rec'[x] = rec[x] /\ rec[x].call # o.call
          /\ q.holder \in Holders =>
               /\ rec[x].holder # q.holder
               /\ rec[x].holder \in Holders => rec[x].line # q.line
    <3> HIDE DEF admitted
    <3>1. \A x \in Live : rec[x].call # o.call
      BY <1>4
    <3>2. \A x \in Live' \ {s} : x \in Live /\ x \in Slots
      BY <2>6 DEF Live
    <3>3. QED
      BY <2>3, <2>5, <2>7, <2>8, <3>1, <3>2
  <2>10. RecordsOK'
    <3> HIDE DEF admitted
    <3>1. UNCHANGED calls
      BY <1>1
    <3>2. q.call = o.call /\ q.req = None
      BY <2>3
    <3>3. QED
      BY <2>2, <2>4, <2>5, <2>9, <3>1, <3>2, Put
  <2>11. QED
    BY <1>1, <2>5, <2>10, HandlerStep
<1>5. CASE \E s \in Live :
             /\ rec[s].call = o.call
             /\ rec[s].holder = o.holder \/ admitted
             /\ rec' = [rec EXCEPT ![s].holder = o.holder,
                                   ![s].orphanAt = Grace]
  <2>1. PICK s \in Live :
          /\ rec[s].call = o.call
          /\ rec[s].holder = o.holder \/ admitted
          /\ rec' = [rec EXCEPT ![s].holder = o.holder, ![s].orphanAt = Grace]
    BY <1>5
  <2> DEFINE q == [rec[s] EXCEPT !.holder = o.holder, !.orphanAt = Grace]
  <2>2. s \in Slots /\ rec[s] \in RecordType /\ RecordShape(rec[s])
    BY <1>1 DEF Live, IInv
  <2>3. /\ q \in RecordType /\ q.call = o.call /\ q.req = rec[s].req
        /\ q.line = rec[s].line /\ q.preparing = rec[s].preparing
        /\ q.holder = o.holder
    BY <1>2, <2>1, <2>2, Constants DEF RecordType
  <2>4. q.line = o.line
    BY <1>2, <2>1, <2>2, <2>3 DEF RecordShape
  <2>5. RecordShape(q)
    BY <1>2, <2>1, <2>2, <2>3, <2>4 DEF RecordShape
  <2>6. rec' = [rec EXCEPT ![s] = q]
    BY <1>1, <2>1, <2>2
  <2> HIDE DEF q
  <2>7. /\ rec' \in [Slots -> RecordType] /\ rec'[s] = q
        /\ \A x \in Slots \ {s} : rec'[x] = rec[x]
    BY <1>1, <2>2, <2>3, <2>6
  <2>8. \A x \in Live' \ {s} : x \in Live /\ x # s
    BY <2>7 DEF Live
  <2>9. \A x \in Live \ {s} : /\ rec[x].call # o.call
                              /\ q.req # None => rec[x].req # q.req
    BY <1>2, <2>1, <2>3 DEF IInv, OneRecordPerIdentity
  <2>10. \A x \in Live \ {s} :
           /\ rec[x].holder # o.holder
           /\ rec[x].holder \in Holders => rec[x].line # o.line
    <3>1. CASE rec[s].holder = o.holder
      BY <1>2, <2>3, <2>4, <3>1 DEF IInv, OneRecordPerHolder, OneOwnerPerLine
    <3>2. CASE admitted
      BY <2>9, <3>2, LeaseAssumption DEF ClaimBlocked, BlocksLine
    <3>3. QED
      BY <2>1, <3>1, <3>2
  <2>11. RecordsOK'
    BY <1>1, <2>2, <2>3, <2>4, <2>5, <2>7, <2>8, <2>9, <2>10, Put
  <2>12. QED
    BY <1>1, <2>7, <2>11, HandlerStep
<1>6. QED
  BY <1>3, <1>4, <1>5 DEF Claim

LEMMA BindStep == ASSUME IInv, NEW c \in Calls, BindCall(c) PROVE IInv'
<1>1. /\ rec \in [Slots -> RecordType] /\ calls[c] \in RowType
      /\ inherited \subseteq Calls /\ c \in todo /\ RowShape(c)
  BY DEF IInv, TypeOK, BindCall
<1>2. calls[c].line # None /\ calls[c].line \in Lines /\ c # None
  BY <1>1, LeaseAssumption DEF IInv, RowShape, RowType
<1>3. todo' \subseteq todo /\ inherited' \subseteq Calls
  BY <1>1 DEF BindCall
<1>4. ASSUME rec' \in [Slots -> RecordType], RecordsOK'
      PROVE  IInv'
  <2>1. UNCHANGED <<initialized, calls, handler, coord, missing, expired,
                    endRequested>>
    BY DEF BindCall
  <2>2. RestOK'
    BY <1>3, <2>1, RestKept
  <2>3. TypeOK'
    BY <1>3, <1>4, <2>1 DEF IInv, TypeOK
  <2>4. QED
    BY <1>4, <2>2, <2>3 DEF IInv, RestOK, RecordsOK
\* Whatever the record was, settling its deadline changes nothing else.
<1>5. ASSUME NEW r \in RecordType
      PROVE  /\ Settled(r, calls[c]) \in RecordType
             /\ Settled(r, calls[c]).req = r.req
             /\ Settled(r, calls[c]).call = r.call
             /\ Settled(r, calls[c]).line = r.line
             /\ Settled(r, calls[c]).holder = r.holder
             /\ Settled(r, calls[c]).preparing = r.preparing
  <2>1. r.orphanAt \in NoDeadline..Grace
    BY DEF RecordType
  <2>2. OrGrace(r.orphanAt) \in NoDeadline..Grace
    BY <2>1, OrGraceType
  <2>3. QED
    BY <2>2, Constants DEF Settled, RecordType
\* Found, matched or discovered: the record of the call, and no other has it.
<1>6. \E s \in Slots, r \in RecordType :
        /\ rec' = [rec EXCEPT ![s] = Settled(r, calls[c])]
        /\ r.call = c /\ r.line = calls[c].line /\ ~r.preparing
        /\ \/ s \in Live /\ r.req = rec[s].req /\ r.holder = rec[s].holder
                         /\ r.line = rec[s].line
           \/ r.req = None /\ r.holder \notin Holders
        /\ \A x \in Live \ {s} : rec[x].call # c
  <2>1. CASE \E s \in Live : rec[s].call = c
    <3>1. PICK s \in Live : /\ rec[s].call = c
                            /\ rec' = [rec EXCEPT ![s] = Settled(rec[s], calls[c])]
      BY <2>1 DEF BindCall
    <3>2. s \in Slots /\ rec[s] \in RecordType /\ RecordShape(rec[s])
      BY <1>1 DEF Live, IInv
    <3>3. \A x \in Live \ {s} : rec[x].call # c
      BY <1>2, <3>1 DEF IInv, OneRecordPerIdentity
    <3>4. rec[s].line = calls[c].line /\ ~rec[s].preparing
      BY <1>2, <3>1, <3>2 DEF RecordShape
    <3>5. QED
      BY <3>1, <3>2, <3>3, <3>4
  <2>2. CASE /\ \A s \in Live : rec[s].call # c
             /\ \E s \in MatchPending(c, initialized) :
                  rec' = [rec EXCEPT ![s] = Settled(Bound(rec[s], c), calls[c])]
    <3>1. PICK s \in MatchPending(c, initialized) :
                 rec' = [rec EXCEPT ![s] = Settled(Bound(rec[s], c), calls[c])]
      BY <2>2
    <3>2. /\ s \in Live /\ rec[s].line = calls[c].line
          /\ ~rec[s].preparing
      BY DEF MatchPending, ByRequest, ByLine
    <3>3. s \in Slots /\ rec[s] \in RecordType
      BY <1>1, <3>2 DEF Live
    <3>4. /\ Bound(rec[s], c) \in RecordType
          /\ Bound(rec[s], c).call = c
          /\ Bound(rec[s], c).line = rec[s].line
          /\ Bound(rec[s], c).req = rec[s].req
          /\ Bound(rec[s], c).holder = rec[s].holder
          /\ Bound(rec[s], c).preparing = rec[s].preparing
      BY <3>3, Constants DEF Bound, RecordType
    <3>5. QED
      BY <2>2, <3>1, <3>2, <3>3, <3>4
  <2>3. CASE /\ \A s \in Live : rec[s].call # c
             /\ \E s \in FreeSlots :
                  rec' = [rec EXCEPT ![s] = Settled(Discovered(c), calls[c])]
    <3>1. PICK s \in FreeSlots :
                 rec' = [rec EXCEPT ![s] = Settled(Discovered(c), calls[c])]
      BY <2>3
    <3>2. s \in Slots
      BY DEF FreeSlots
    <3>3. /\ Discovered(c) \in RecordType
          /\ Discovered(c).call = c
          /\ Discovered(c).line = calls[c].line
          /\ Discovered(c).req = None
          /\ Discovered(c).holder \in {None, RestartOrphan}
          /\ ~Discovered(c).preparing
      BY <1>2, Constants DEF Discovered, RecordType, NoRecord
    <3>4. QED
      BY <2>3, <3>1, <3>2, <3>3, LeaseAssumption
  <2>4. QED
    BY <2>1, <2>2, <2>3 DEF BindCall
<1>7. PICK s \in Slots, r \in RecordType :
        /\ rec' = [rec EXCEPT ![s] = Settled(r, calls[c])]
        /\ r.call = c /\ r.line = calls[c].line /\ ~r.preparing
        /\ \/ s \in Live /\ r.req = rec[s].req /\ r.holder = rec[s].holder
                         /\ r.line = rec[s].line
           \/ r.req = None /\ r.holder \notin Holders
        /\ \A x \in Live \ {s} : rec[x].call # c
  BY <1>6
<1> DEFINE q == Settled(r, calls[c])
<1>8. /\ q \in RecordType /\ q.call = c /\ q.line = calls[c].line /\ ~q.preparing
      /\ q.req = r.req /\ q.holder = r.holder /\ q.line = r.line
  BY <1>5, <1>7
<1> HIDE DEF q
<1>9. /\ rec' \in [Slots -> RecordType] /\ rec'[s] = q
      /\ \A x \in Slots \ {s} : rec'[x] = rec[x]
  BY <1>1, <1>7, <1>8 DEF q
<1>10. RecordShape(q)
  BY <1>2, <1>8 DEF RecordShape
<1>11. \A x \in Live' \ {s} : x \in Live \ {s}
  BY <1>9 DEF Live
<1>12. \A x \in Live \ {s} :
         /\ q.req # None => rec[x].req # q.req
         /\ q.holder \in Holders =>
              /\ rec[x].holder # q.holder
              /\ rec[x].holder \in Holders => rec[x].line # q.line
  BY <1>7, <1>8 DEF IInv, OneRecordPerIdentity, OneRecordPerHolder, OneOwnerPerLine
<1>13. RecordsOK'
  <2>1. UNCHANGED calls
    BY DEF BindCall
  <2>2. QED
    BY <1>7, <1>8, <1>9, <1>10, <1>11, <1>12, <2>1, Put
<1>14. QED
  BY <1>4, <1>9, <1>13

-----------------------------------------------------------------------------
(* Reads, commits and the whole step                                       *)

\* A read remembers the line of a committed call.
LEMMA ReadStep ==
  ASSUME IInv, NEW t \in Threads, NEW h \in Holders,
         \/ \E r \in Requests, l \in Lines : ReadForPrepare(t, h, r, l)
         \/ \E kind \in {"activate", "refresh", "claim"},
               r \in Requests \cup {None}, c \in Calls : ReadCall(t, kind, h, r, c)
  PROVE  IInv'
<1>1. TypeOK /\ \A c \in Calls : calls[c] \in RowType
  BY DEF IInv, TypeOK
<1>2. \E o \in OpType : HandlerShape(o) /\ handler' = [handler EXCEPT ![t] = o]
  <2>1. CASE \E r \in Requests, l \in Lines : ReadForPrepare(t, h, r, l)
    <3>1. PICK r \in Requests, l \in Lines : ReadForPrepare(t, h, r, l)
      BY <2>1
    <3> DEFINE o == [Idle EXCEPT
               !.kind = "prepare", !.holder = h, !.req = r, !.line = l,
               !.clear = ~\E c \in Calls : Tracked(c) /\ calls[c].line = l]
    <3>2. o \in OpType /\ HandlerShape(o)
      BY DEF OpType, Idle, HandlerShape
    <3>3. QED
      BY <3>1, <3>2 DEF ReadForPrepare
  <2>2. CASE \E kind \in {"activate", "refresh", "claim"},
                r \in Requests \cup {None}, c \in Calls : ReadCall(t, kind, h, r, c)
    <3>1. PICK kind \in {"activate", "refresh", "claim"},
               r \in Requests \cup {None}, c \in Calls : ReadCall(t, kind, h, r, c)
      BY <2>2
    <3>0. PICK clear \in UnclaimedRead(calls[c]) :
            handler' = [handler EXCEPT ![t] = [Idle EXCEPT
               !.kind = kind, !.holder = h, !.req = r, !.call = c,
               !.line = calls[c].line, !.clear = clear]]
      BY <3>1 DEF ReadCall
    <3> DEFINE o == [Idle EXCEPT
               !.kind = kind, !.holder = h, !.req = r, !.call = c,
               !.line = calls[c].line, !.clear = clear]
    <3>2. calls[c].line # None /\ calls[c].line \in Lines \cup {None}
      BY <1>1, <3>1 DEF IInv, RowShape, ReadCall, Leaseable, RowType
    <3>3. o \in OpType /\ HandlerShape(o)
      BY <3>2 DEF OpType, Idle, HandlerShape, Unclaimed, UnclaimedRead
    <3>4. QED
      BY <3>0, <3>3
  <2>3. QED
    BY <2>1, <2>2
<1>3. UNCHANGED <<rec, initialized, calls, coord, todo, missing, expired,
                  endRequested, inherited>>
  BY DEF ReadForPrepare, ReadCall
<1>4. PICK o \in OpType : HandlerShape(o) /\ handler' = [handler EXCEPT ![t] = o]
  BY <1>2
<1>5. TypeOK'
  BY <1>1, <1>3, <1>4 DEF TypeOK
<1>6. \A u \in Threads : HandlerShape(handler[u])'
  <2>1. \A u \in Threads : handler'[u] = handler[u] \/ handler'[u] = o
    BY <1>1, <1>4 DEF TypeOK
  <2>2. QED
    BY <1>3, <1>4, <2>1 DEF IInv, HandlerShape
<1>7. RecordsOK'
  BY <1>1, <1>3, Keep DEF TypeOK, SameIdentity
<1>8. QED
  BY <1>3, <1>5, <1>6, <1>7 DEF IInv, RecordsOK, RowShape

\* A committed snapshot moves no call to another line and forgets none.
LEMMA CommitStep == ASSUME IInv, Commit PROVE IInv'
<1>1. TypeOK
  BY DEF IInv
<1>2. /\ calls' \in [Calls -> UNION {Successors(c) : c \in Calls}]
      /\ \A c \in Calls : calls'[c] \in Successors(c)
      /\ coord' = "captured"
      /\ UNCHANGED <<rec, initialized, handler, todo, missing, expired,
                     endRequested, inherited>>
  BY DEF Commit
<1>3. \A c \in Calls :
        /\ calls'[c] \in RowType
        /\ calls'[c].phase = "absent" <=> calls'[c].line = None
        /\ calls[c].line # None => calls'[c].line = calls[c].line
        /\ calls[c].phase # "absent" => calls'[c].phase # "absent"
  BY <1>1, <1>2, SuccessorFacts DEF IInv
<1>4. TypeOK'
  <2>1. calls' \in [Calls -> RowType]
    BY <1>2, <1>3
  <2>2. QED
    BY <1>1, <1>2, <2>1 DEF TypeOK
<1>5. \A c \in Calls : RowShape(c)'
  BY <1>3 DEF RowShape
<1>6. \A s \in Slots : RecordShape(rec[s])'
  <2> SUFFICES ASSUME NEW s \in Slots PROVE RecordShape(rec[s])'
    OBVIOUS
  <2>1. RecordShape(rec[s]) /\ rec[s] \in RecordType
    BY <1>1 DEF IInv, TypeOK
  <2>2. rec[s].call # None => rec[s].call \in Calls /\ rec[s].line # None
    BY <2>1 DEF RecordType, RecordShape, NoRecord
  <2>3. QED
    BY <1>2, <1>3, <2>1, <2>2 DEF RecordShape
<1>7. \A t \in Threads : HandlerShape(handler[t])'
  BY <1>2, <1>3 DEF IInv, HandlerShape
<1>8. \A c \in todo' : calls'[c].phase # "absent"
  BY <1>1, <1>2, <1>3 DEF IInv, TypeOK
<1>9. OneRecordPerIdentity' /\ OneRecordPerHolder' /\ OneOwnerPerLine'
  BY <1>2 DEF IInv, OneRecordPerIdentity, OneRecordPerHolder, OneOwnerPerLine, Live
<1>10. QED
  BY <1>4, <1>5, <1>6, <1>7, <1>8, <1>9 DEF IInv

LEMMA BeginStep == ASSUME IInv, BeginReconcile PROVE IInv'
<1>1. UNCHANGED <<rec, initialized, calls, handler, missing, expired,
                  endRequested, inherited>>
      /\ coord' = "binding" /\ todo' = {c \in Calls : Tracked(c)}
  BY DEF BeginReconcile
<1>2. TypeOK'
  BY <1>1 DEF IInv, TypeOK
<1>3. RecordsOK'
  BY <1>1, Keep DEF IInv, TypeOK, SameIdentity
<1>4. \A t \in Threads : HandlerShape(handler[t])'
  BY <1>1 DEF IInv, HandlerShape
<1>5. QED
  BY <1>1, <1>2, <1>3, <1>4 DEF IInv, RecordsOK, RowShape, Tracked

-----------------------------------------------------------------------------
THEOREM InitInvariant == Init => IInv
<1> SUFFICES ASSUME Init PROVE IInv
  OBVIOUS
<1>1. \A l \in Lines : \A row \in Rows(l, {None}) :
        row \in RowType /\ row.line = l /\ row.phase # "absent"
  <2> SUFFICES ASSUME NEW l \in Lines, NEW row \in Rows(l, {None})
               PROVE  row \in RowType /\ row.line = l /\ row.phase # "absent"
    OBVIOUS
  <2>1. {None} \in SUBSET (Requests \cup {None})
    OBVIOUS
  <2>2. QED
    BY <2>1, RowsType
<1>2. \A c \in Calls : calls[c] \in RowType /\ RowShape(c)
  <2> SUFFICES ASSUME NEW c \in Calls PROVE calls[c] \in RowType /\ RowShape(c)
    OBVIOUS
  <2>1. calls[c] = NoRow \/ \E l \in Lines : calls[c] \in Rows(l, {None})
    BY DEF Init
  <2>2. CASE calls[c] = NoRow
    BY <2>2 DEF NoRow, RowType, RowShape
  <2>3. CASE \E l \in Lines : calls[c] \in Rows(l, {None})
    BY <2>3, <1>1, LeaseAssumption DEF RowShape
  <2>4. QED
    BY <2>1, <2>2, <2>3
<1>3. NoRecord \in RecordType
  BY LeaseAssumption DEF NoRecord, RecordType, NoDeadline
<1>4. Idle \in OpType
  BY DEF Idle, OpType
<1>5. calls \in [Calls -> RowType]
  BY <1>2 DEF Init
<1>6. TypeOK
  BY <1>3, <1>4, <1>5 DEF Init, TypeOK
<1>7. Live = {}
  BY DEF Init, Live, NoRecord
<1>8. \A s \in Slots : RecordShape(rec[s])
  BY DEF Init, RecordShape, NoRecord
<1>9. \A t \in Threads : HandlerShape(handler[t])
  BY DEF Init, HandlerShape, Idle
<1>10. OneRecordPerIdentity /\ OneRecordPerHolder /\ OneOwnerPerLine
  BY <1>7 DEF OneRecordPerIdentity, OneRecordPerHolder, OneOwnerPerLine
<1>11. \A c \in todo : calls[c].phase # "absent"
  BY DEF Init
<1>12. QED
  BY <1>2, <1>6, <1>8, <1>9, <1>10, <1>11 DEF IInv

THEOREM NextInvariant == IInv /\ [Next]_vars => IInv'
<1> SUFFICES ASSUME IInv, [Next]_vars PROVE IInv'
  OBVIOUS
<1>1. CASE \E t \in Threads : Handle(t)
  <2>1. PICK t \in Threads : Handle(t)
    BY <1>1
  <2>2. CASE Prepare(t) \/ Activate(t) \/ Refresh(t) \/ Claim(t)
    BY <2>2, PrepareStep, ActivateStep, RefreshStep, ClaimStep
  <2>3. CASE \E h \in Holders, r \in Requests, l \in Lines : ReadForPrepare(t, h, r, l)
    BY <2>3, ReadStep
  <2>4. CASE \E h \in Holders, c \in Calls :
               \/ \E r \in Requests : ReadCall(t, "activate", h, r, c)
               \/ \E kind \in {"refresh", "claim"} : ReadCall(t, kind, h, None, c)
    <3>1. PICK h \in Holders, c \in Calls :
               \/ \E r \in Requests : ReadCall(t, "activate", h, r, c)
               \/ \E kind \in {"refresh", "claim"} : ReadCall(t, kind, h, None, c)
      BY <2>4
    <3>2. \E kind \in {"activate", "refresh", "claim"}, r \in Requests \cup {None} :
            ReadCall(t, kind, h, r, c)
      BY <3>1
    <3>3. QED
      BY <3>2, ReadStep
  <2>5. QED
    BY <2>1, <2>2, <2>3, <2>4 DEF Handle
<1>2. CASE \E s \in Slots, h \in Holders : Outgoing(s, h)
  BY <1>2, OutgoingStep
<1>3. CASE \E s \in Slots : MediaConnected(s) \/ MediaDisconnected(s)
  BY <1>3, MediaStep
<1>4. CASE \E group \in Groups : Revoke(group)
  BY <1>4, RevokeStep
<1>5. CASE Reconcile
  BY <1>5, CommitStep, BeginStep, FinishStep, BindStep, VerifyStep DEF Reconcile
<1>6. CASE Run
  BY <1>6, RunStep
<1>7. CASE Tick
  BY <1>7, TickStep
<1>8. CASE UNCHANGED vars
  <2>1. UNCHANGED <<rec, initialized, calls, handler, coord, todo, missing, expired,
                    endRequested, inherited>>
    BY <1>8 DEF vars
  <2>2. \A s \in Slots : SameIdentity(rec[s], rec'[s])
    BY <2>1 DEF SameIdentity
  <2>3. QED
    BY <2>1, <2>2, SweepStep DEF IInv, TypeOK
<1>9. QED
  BY <1>1, <1>2, <1>3, <1>4, <1>5, <1>6, <1>7, <1>8 DEF Next

\* Every reachable state of the manager satisfies the inductive invariant.
THEOREM Invariant == Spec => []IInv
<1>1. QED
  BY InitInvariant, NextInvariant, PTL DEF Spec

\* The variables keep their types.
THEOREM TypeCorrect == Spec => []TypeOK
<1>1. IInv => TypeOK
  BY DEF IInv
<1>2. QED
  BY <1>1, Invariant, PTL

\* One line has at most one session in control or preparing to dial, for every
\* number of sessions, lines and handlers.
THEOREM LineExclusive == Spec => []OneOwnerPerLine
<1>1. IInv => OneOwnerPerLine
  BY DEF IInv
<1>2. QED
  BY <1>1, Invariant, PTL

\* One session owns at most one call or reservation.
THEOREM HolderExclusive == Spec => []OneRecordPerHolder
<1>1. IInv => OneRecordPerHolder
  BY DEF IInv
<1>2. QED
  BY <1>1, Invariant, PTL

\* A call, and a request, has at most one record.
THEOREM IdentityUnique == Spec => []OneRecordPerIdentity
<1>1. IInv => OneRecordPerIdentity
  BY DEF IInv
<1>2. QED
  BY <1>1, Invariant, PTL

-----------------------------------------------------------------------------
(* What a step may do to the owners of the calls                           *)

Owned(r) == r.call # None /\ r.holder # None

\* The record gains, loses and changes no owned call, and keeps its end.
Quiet(s) ==
  /\ Owned(rec'[s]) <=> Owned(rec[s])
  /\ Owned(rec[s]) =>
       rec'[s].call = rec[s].call /\ rec'[s].holder = rec[s].holder
  /\ rec[s].ending => rec'[s].ending /\ rec'[s].call = rec[s].call

\* The record becomes that of an owned call nobody owned.
Taken(s) ==
  /\ rec'[s].call \in Calls /\ rec'[s].holder # None /\ ~rec'[s].ending
  /\ rec[s].call \in {None, rec'[s].call}
  /\ \A x \in Slots : rec[x].call = rec'[s].call =>
       rec[x].holder = None /\ ~rec[x].ending
  /\ \A x \in Slots \ {s} :
       /\ Quiet(x)
       /\ rec'[x].ending => rec[x].ending /\ rec'[x].call = rec[x].call

\* The record of a call that is over goes.
Removed(s) ==
  /\ rec[s].call \in Calls /\ ~Tracked(rec[s].call)
  /\ rec' = [rec EXCEPT ![s] = NoRecord]

\* A record gets the call of a claim, of an activation or of the snapshot.
Nameable(c) ==
  \/ initialized \/ BindCall(c)
  \/ \E t \in Threads : handler[t].kind = "activate" /\ handler[t].call = c

Effect ==
  /\ UNCHANGED calls
  /\ \A s \in Slots, c \in Calls :
       rec'[s].call = c => rec[s].call = c \/ Nameable(c)
  /\ \/ \A s \in Slots : Quiet(s)
     \/ \E s \in Slots : Taken(s) \/ Removed(s)

\* A slot without a record has no call, and a pending record a session.
LEMMA RecordFacts ==
  ASSUME IInv, NEW s \in Slots
  PROVE  /\ rec \in [Slots -> RecordType] /\ rec[s] \in RecordType
         /\ RecordShape(rec[s])
         /\ rec[s].call # None => rec[s].call \in Calls /\ s \in Live
         /\ s \notin Live => rec[s] = NoRecord
         /\ rec[s].ending => rec[s].call # None
BY DEF IInv, TypeOK, RecordShape, Live, NoRecord, RecordType

\* Updating the record of a slot: who owns which call is what it was.
LEMMA UpdateEffect ==
  ASSUME IInv, NEW s \in Slots, NEW q, rec' = [rec EXCEPT ![s] = q],
         UNCHANGED calls, q.call \in {None, rec[s].call},
         \/ /\ q.call = rec[s].call /\ q.holder = rec[s].holder
            /\ rec[s].ending => q.ending
         \/ ~Owned(q) /\ ~Owned(rec[s]) /\ ~rec[s].ending
  PROVE  Effect
<1>1. rec'[s] = q /\ \A x \in Slots \ {s} : rec'[x] = rec[x]
  BY RecordFacts
<1>2. \A x \in Slots : Quiet(x)
  BY <1>1 DEF Quiet, Owned
<1>3. QED
  BY <1>1, <1>2, LeaseAssumption DEF Effect

LEMMA OutgoingEffect ==
  ASSUME IInv, NEW s \in Slots, NEW h,
         Outgoing(s, h) \/ MediaConnected(s) \/ MediaDisconnected(s)
  PROVE  Effect
<1>1. rec[s] \in RecordType /\ RecordShape(rec[s])
  BY RecordFacts
<1>2. CASE ReleaseOutgoing(s, h) \/ (CancelOutgoing(s, h) /\ rec[s].preparing)
  <2>1. rec' = [rec EXCEPT ![s] = NoRecord] /\ UNCHANGED calls /\ rec[s].call = None
    BY <1>1, <1>2 DEF ReleaseOutgoing, CancelOutgoing, Update, RecordShape
  <2>2. /\ ~Owned(NoRecord) /\ ~Owned(rec[s]) /\ ~rec[s].ending
        /\ NoRecord.call = None
    BY <1>1, <2>1 DEF Owned, NoRecord, RecordShape
  <2>3. QED
    BY <2>1, <2>2, UpdateEffect
<1>3. CASE \/ RenewPreparation(s, h) \/ BeginOutgoing(s, h)
           \/ AwaitOutgoingResolution(s, h)
           \/ CancelOutgoing(s, h) /\ ~rec[s].preparing
           \/ MediaConnected(s) \/ MediaDisconnected(s)
  <2>1. \E q : /\ Update(s, q) /\ q.call = rec[s].call
               /\ q.holder = rec[s].holder /\ (rec[s].ending => q.ending)
    <3>1. CASE RenewPreparation(s, h)
      BY <1>1, <3>1 DEF RenewPreparation, RecordType
    <3>2. CASE BeginOutgoing(s, h)
      BY <1>1, <3>2 DEF BeginOutgoing, RecordType
    <3>3. CASE AwaitOutgoingResolution(s, h)
      BY <1>1, <3>3 DEF AwaitOutgoingResolution, RecordType
    <3>4. CASE CancelOutgoing(s, h) /\ ~rec[s].preparing
      <4> DEFINE r == [rec[s] EXCEPT !.revoked = TRUE, !.mediaAlive = FALSE]
      <4>1. \/ Update(s, [r EXCEPT !.ending = TRUE])
            \/ Update(s, [r EXCEPT !.orphanAt = OrGrace(@)])
        BY <3>4 DEF CancelOutgoing
      <4>2. /\ r.call = rec[s].call /\ r.holder = rec[s].holder
            /\ r.ending = rec[s].ending
            /\ r \in RecordType
        BY <1>1 DEF RecordType
      <4> HIDE DEF r
      <4>3. QED
        BY <4>1, <4>2 DEF RecordType
    <3>5. CASE MediaConnected(s) \/ MediaDisconnected(s)
      BY <1>1, <3>5 DEF MediaConnected, MediaDisconnected, RecordType
    <3>6. QED
      BY <1>3, <3>1, <3>2, <3>3, <3>4, <3>5
  <2>2. PICK q : /\ Update(s, q) /\ q.call = rec[s].call
                 /\ q.holder = rec[s].holder /\ (rec[s].ending => q.ending)
    BY <2>1
  <2>3. rec' = [rec EXCEPT ![s] = q] /\ UNCHANGED calls
    BY <2>2 DEF Update
  <2>4. QED
    BY <2>2, <2>3, UpdateEffect
<1>4. QED
  BY <1>2, <1>3 DEF Outgoing

\* The passes over every record, and the reads that touch none.
LEMMA SweepEffect ==
  ASSUME IInv,
         \/ Run \/ Tick \/ FinishReconcile \/ BeginReconcile
         \/ \E group \in Groups : Revoke(group)
         \/ \E t \in Threads : Refresh(t)
         \/ UNCHANGED <<rec, calls>>
  PROVE  Effect
<1>1. UNCHANGED calls
  BY DEF Run, ExpireCalls, EndExpired, Tick, FinishReconcile, BeginReconcile,
         Revoke, Refresh
<1>2. ASSUME NEW s \in Slots
      PROVE  Quiet(s) /\ rec'[s].call \in {None, rec[s].call}
  <2>1. rec[s] \in RecordType /\ RecordShape(rec[s])
    BY RecordFacts
  <2>2. \/ /\ rec'[s].call = rec[s].call /\ rec'[s].holder = rec[s].holder
           /\ rec[s].ending => rec'[s].ending
        \/ rec[s].call = None /\ rec'[s] = NoRecord
    <3>1. CASE Run
      <4>1. CASE ExpireCalls
        <5>1. rec'[s] = CASE Lapsed(rec[s]) -> NoRecord
                          [] Orphaned(rec[s]) -> [rec[s] EXCEPT !.ending = TRUE]
                          [] OTHER -> rec[s]
          BY <4>1 DEF ExpireCalls
        <5>2. \/ Lapsed(rec[s]) /\ rec'[s] = NoRecord
              \/ rec'[s] = [rec[s] EXCEPT !.ending = TRUE]
              \/ rec'[s] = rec[s]
          BY <5>1
        <5>3. QED
          BY <2>1, <5>2 DEF Lapsed, RecordType
      <4>2. QED
        BY <3>1, <4>1 DEF Run, EndExpired
    <3>2. CASE Tick
      BY <2>1, <3>2 DEF Tick, RecordType
    <3>3. CASE FinishReconcile \/ BeginReconcile
      BY <2>1, <3>3 DEF FinishReconcile, BeginReconcile, ResolvedByAbsence
    <3>4. CASE \E group \in Groups : Revoke(group)
      <4>1. PICK group \in Groups : Revoke(group)
        BY <3>4
      <4> DEFINE a == [rec[s] EXCEPT !.mediaAlive = FALSE, !.revoked = TRUE,
                                     !.orphanAt = OrGrace(@)]
                 b == [rec[s] EXCEPT !.mediaAlive = FALSE, !.revoked = TRUE,
                                     !.ending = TRUE]
      <4>2. rec'[s] \in {rec[s], a, b}
        BY <4>1 DEF Revoke
      <4>3. /\ a.call = rec[s].call /\ a.holder = rec[s].holder
            /\ a.ending = rec[s].ending
            /\ b.call = rec[s].call /\ b.holder = rec[s].holder /\ b.ending
        BY <2>1 DEF RecordType
      <4>4. QED
        BY <4>2, <4>3
    <3>5. CASE \E t \in Threads : Refresh(t)
      BY <2>1, <3>5 DEF Refresh, RecordType
    <3>6. CASE UNCHANGED <<rec, calls>>
      BY <3>6
    <3>7. QED
      BY <3>1, <3>2, <3>3, <3>4, <3>5, <3>6
  <2>3. QED
    BY <2>1, <2>2 DEF Quiet, Owned, NoRecord, RecordShape
<1>3. QED
  BY <1>1, <1>2, LeaseAssumption DEF Effect

LEMMA VerifyEffect ==
  ASSUME IInv, NEW s \in Slots, NEW c \in Calls, VerifyMissing(s, c)
  PROVE  Effect
<1>1. CASE UNCHANGED rec
  BY <1>1, SweepEffect DEF VerifyMissing
<1>2. CASE ~UNCHANGED rec
  <2>1. rec' = [rec EXCEPT ![s] = NoRecord] /\ NoRecord.call = None
    BY <1>2 DEF VerifyMissing, NoRecord
  <2>2. \A x \in Slots, d \in Calls : rec'[x].call = d => rec[x].call = d
    BY <2>1, RecordFacts, LeaseAssumption
  <2>3. QED
    BY <1>2, <2>1, <2>2 DEF VerifyMissing, Effect, Removed
<1>3. QED
  BY <1>1, <1>2

\* The one record that is written is bound to a call nobody owned.
LEMMA TakeEffect ==
  ASSUME IInv, NEW s \in Slots, NEW q, rec' = [rec EXCEPT ![s] = q],
         UNCHANGED calls, q.call \in Calls, Nameable(q.call), ~q.ending,
         rec[s].call \in {None, q.call},
         \A x \in Slots : rec[x].call = q.call => rec[x].holder = None /\ ~rec[x].ending
  PROVE  Effect
<1>1. rec'[s] = q /\ \A x \in Slots \ {s} : rec'[x] = rec[x]
  BY RecordFacts
<1>2. \A x \in Slots \ {s} :
        /\ Quiet(x)
        /\ rec'[x].ending => rec[x].ending /\ rec'[x].call = rec[x].call
  BY <1>1 DEF Quiet, Owned
<1>3. \A x \in Slots, c \in Calls : rec'[x].call = c => rec[x].call = c \/ Nameable(c)
  BY <1>1
<1>4. CASE q.holder # None
  BY <1>1, <1>2, <1>3, <1>4 DEF Effect, Taken
<1>5. CASE q.holder = None
  <2>1. Quiet(s)
    BY <1>1, <1>5, RecordFacts DEF Quiet, Owned
  <2>2. QED
    BY <1>2, <1>3, <2>1 DEF Effect
<1>6. QED
  BY <1>4, <1>5

LEMMA ClaimEffect ==
  ASSUME IInv, NEW t \in Threads, Prepare(t) \/ Activate(t) \/ Claim(t)
  PROVE  Effect
<1> DEFINE o == handler[t]
<1>1. UNCHANGED calls /\ HandlerShape(o)
  BY DEF Prepare, Activate, Claim, IInv
<1>2. CASE UNCHANGED rec
  BY <1>1, <1>2, SweepEffect
<1>3. CASE Prepare(t) /\ ~UNCHANGED rec
  <2> DEFINE q == [NoRecord EXCEPT !.req = o.req, !.line = o.line,
                                   !.holder = o.holder, !.preparing = TRUE,
                                   !.prepareUntil = Grace]
  <2>1. PICK s \in FreeSlots : rec' = [rec EXCEPT ![s] = q]
    BY <1>3 DEF Prepare
  <2>2. s \in Slots /\ rec[s] = NoRecord
    BY RecordFacts DEF FreeSlots
  <2>3. ~Owned(q) /\ ~Owned(rec[s]) /\ ~rec[s].ending /\ q.call = None
    BY <2>2 DEF Owned, NoRecord
  <2> HIDE DEF q
  <2>4. QED
    BY <1>1, <2>1, <2>2, <2>3, UpdateEffect
<1>4. CASE Claim(t) /\ ~UNCHANGED rec
  <2> DEFINE admitted == o.clear /\ ~ClaimBlocked(o.call, o.holder, o.line)
             p == [NoRecord EXCEPT
                     !.call = o.call, !.line = o.line,
                     !.holder = IF admitted THEN o.holder ELSE None,
                     !.orphanAt = IF admitted THEN Grace ELSE NoDeadline]
             q(s) == [rec[s] EXCEPT !.holder = o.holder, !.orphanAt = Grace]
  <2>0. o.call \in Calls /\ o.call # None /\ Nameable(o.call)
    BY <1>1, <1>4, LeaseAssumption DEF HandlerShape, Claim, Nameable
  <2>1. CASE /\ \A s \in Live : rec[s].call # o.call
             /\ \E s \in FreeSlots : rec' = [rec EXCEPT ![s] = p]
    <3>1. PICK s \in FreeSlots : rec' = [rec EXCEPT ![s] = p]
      BY <2>1
    <3>2. s \in Slots /\ rec[s].call = None
      BY RecordFacts DEF FreeSlots, NoRecord
    <3>3. p.call = o.call /\ ~p.ending
      BY DEF NoRecord
    <3>4. \A x \in Slots : rec[x].call # o.call
      BY <2>0, <2>1, RecordFacts
    <3> HIDE DEF p
    <3>5. QED
      BY <1>1, <2>0, <3>1, <3>2, <3>3, <3>4, TakeEffect
  <2>2. CASE \E s \in Live :
               /\ rec[s].call = o.call /\ ~rec[s].ending
               /\ rec[s].holder = o.holder \/ (rec[s].holder = None /\ admitted)
               /\ rec' = [rec EXCEPT ![s].holder = o.holder,
                                     ![s].orphanAt = Grace]
    <3> HIDE DEF admitted
    <3>1. PICK s \in Live :
               /\ rec[s].call = o.call /\ ~rec[s].ending
               /\ rec[s].holder = o.holder \/ rec[s].holder = None
               /\ rec' = [rec EXCEPT ![s].holder = o.holder,
                                     ![s].orphanAt = Grace]
      BY <2>2
    <3>2. s \in Slots /\ rec \in [Slots -> RecordType] /\ rec[s] \in RecordType
      BY RecordFacts DEF Live
    <3>3. /\ q(s).call = rec[s].call /\ q(s).holder = o.holder
          /\ q(s).ending = rec[s].ending
      BY <3>2 DEF RecordType
    <3>4. rec' = [rec EXCEPT ![s] = q(s)]
      BY <3>1, <3>2
    <3>5. \A x \in Slots : rec[x].call = o.call => x = s
      BY <2>0, <3>1, RecordFacts DEF IInv, OneRecordPerIdentity
    <3> HIDE DEF q
    <3>6. CASE rec[s].holder = o.holder
      BY <1>1, <3>2, <3>3, <3>4, <3>6, UpdateEffect
    <3>7. CASE rec[s].holder = None
      <4>1. /\ q(s).call \in Calls /\ Nameable(q(s).call) /\ ~q(s).ending
            /\ rec[s].call = q(s).call
        BY <2>0, <3>1, <3>3
      <4>2. \A x \in Slots : rec[x].call = q(s).call =>
              rec[x].holder = None /\ ~rec[x].ending
        BY <3>1, <3>3, <3>5, <3>7
      <4>3. QED
        BY <1>1, <3>2, <3>4, <4>1, <4>2, TakeEffect
    <3>8. QED
      BY <3>1, <3>6, <3>7
  <2>3. QED
    BY <1>4, <2>1, <2>2 DEF Claim
<1>5. CASE Activate(t) /\ ~UNCHANGED rec
  <2> DEFINE cleared(s) == [x \in Slots |->
               IF x \in Shadows(s, o) THEN NoRecord ELSE rec[x]]
             blocked(s) == \E x \in Live \ ({s} \cup Shadows(s, o)) :
               \/ rec[x].line = o.line /\ BlocksLine(rec[x])
               \/ rec[x].holder = o.holder
             q(s) == [rec[s] EXCEPT !.preparing = FALSE, !.dispatching = FALSE,
                                    !.call = o.call, !.orphanAt = Grace]
  <2>0. /\ o.call \in Calls /\ o.call # None /\ o.holder \in Holders
        /\ Nameable(o.call)
    BY <1>1, <1>5, LeaseAssumption DEF HandlerShape, Activate, Nameable
  <2>1. PICK s \in Live :
          /\ Activatable(s, o)
          /\ \A x \in Shadows(s, o) : rec[x].holder = None /\ ~rec[x].ending
          /\ rec' = IF blocked(s) THEN cleared(s)
                    ELSE [cleared(s) EXCEPT ![s] = q(s)]
    BY <1>5 DEF Activate
  <2>2. /\ s \in Slots /\ s \notin Shadows(s, o) /\ rec[s] \in RecordType
        /\ rec[s].call \in {None, o.call} /\ rec[s].holder = o.holder
        /\ ~rec[s].ending
    BY <2>1, RecordFacts DEF Live, Shadows, Activatable
  <2>3. /\ q(s).call = o.call /\ q(s).holder = o.holder /\ ~q(s).ending
    BY <2>2 DEF RecordType
  <2> HIDE DEF q
  <2>4. ASSUME NEW x \in Slots \ {s}
        PROVE  /\ Quiet(x)
               /\ rec'[x].ending => rec[x].ending /\ rec'[x].call = rec[x].call
               /\ rec'[x].call \in {None, rec[x].call}
    <3>1. rec'[x] = IF x \in Shadows(s, o) THEN NoRecord ELSE rec[x]
      BY <2>1, <2>2
    <3>2. QED
      BY <2>1, <3>1 DEF Quiet, Owned, NoRecord
  <2>5. rec'[s] = IF blocked(s) THEN rec[s] ELSE q(s)
    BY <2>1, <2>2
  <2>6. \A x \in Slots, c \in Calls : rec'[x].call = c => rec[x].call = c \/ Nameable(c)
    BY <2>0, <2>3, <2>4, <2>5, LeaseAssumption
  <2>7. CASE blocked(s) \/ rec[s].call = o.call
    <3>1. Quiet(s)
      BY <2>2, <2>3, <2>5, <2>7 DEF Quiet, Owned
    <3>2. QED
      BY <1>1, <2>4, <2>6, <3>1 DEF Effect
  <2>8. CASE ~blocked(s) /\ rec[s].call # o.call
    <3>1. \A x \in Slots : rec[x].call = o.call => x \in Shadows(s, o)
      BY <2>0, <2>8, RecordFacts DEF Shadows
    <3>2. rec'[s] = q(s)
      BY <2>5, <2>8
    <3>3. Taken(s)
      BY <2>0, <2>1, <2>2, <2>3, <2>4, <3>1, <3>2, LeaseAssumption DEF Taken
    <3>4. QED
      BY <1>1, <2>2, <2>6, <3>3 DEF Effect
  <2>9. QED
    BY <2>7, <2>8
<1>6. QED
  BY <1>2, <1>3, <1>4, <1>5

LEMMA BindEffect == ASSUME IInv, NEW c \in Calls, BindCall(c) PROVE Effect
<1>1. UNCHANGED calls /\ c # None /\ Nameable(c)
  BY LeaseAssumption DEF BindCall, Nameable
<1>2. ASSUME NEW r \in RecordType
      PROVE  /\ Settled(r, calls[c]).call = r.call
             /\ Settled(r, calls[c]).holder = r.holder
             /\ Settled(r, calls[c]).ending = r.ending
  BY DEF Settled, RecordType
<1>3. CASE \E s \in Live :
             rec[s].call = c /\ rec' = [rec EXCEPT ![s] = Settled(rec[s], calls[c])]
  <2>1. PICK s \in Live : rec' = [rec EXCEPT ![s] = Settled(rec[s], calls[c])]
    BY <1>3
  <2>2. s \in Slots /\ rec[s] \in RecordType
    BY RecordFacts DEF Live
  <2> DEFINE q == Settled(rec[s], calls[c])
  <2>3. q.call = rec[s].call /\ q.holder = rec[s].holder /\ q.ending = rec[s].ending
    BY <1>2, <2>2
  <2>4. rec' = [rec EXCEPT ![s] = q]
    BY <2>1
  <2> HIDE DEF q
  <2>5. QED
    BY <1>1, <2>2, <2>3, <2>4, UpdateEffect
<1>4. CASE /\ \A s \in Live : rec[s].call # c
           /\ \E s \in MatchPending(c, initialized) :
                rec' = [rec EXCEPT ![s] = Settled(Bound(rec[s], c), calls[c])]
  <2>1. PICK s \in MatchPending(c, initialized) :
               rec' = [rec EXCEPT ![s] = Settled(Bound(rec[s], c), calls[c])]
    BY <1>4
  <2>2. s \in Slots /\ rec[s] \in RecordType /\ rec[s].call = None /\ ~rec[s].ending
    BY RecordFacts DEF MatchPending, ByRequest, ByLine, Live
  <2>3. /\ Bound(rec[s], c) \in RecordType /\ Bound(rec[s], c).call = c
        /\ Bound(rec[s], c).ending = rec[s].ending
    BY <2>2, Constants DEF Bound, RecordType
  <2>4. \A x \in Slots : rec[x].call # c
    BY <1>1, <1>4, RecordFacts
  <2> DEFINE q == Settled(Bound(rec[s], c), calls[c])
  <2>5. q.call = c /\ ~q.ending
    BY <1>2, <2>2, <2>3
  <2>6. rec' = [rec EXCEPT ![s] = q]
    BY <2>1
  <2> HIDE DEF q
  <2>7. QED
    BY <1>1, <2>2, <2>4, <2>5, <2>6, TakeEffect
<1>5. CASE /\ \A s \in Live : rec[s].call # c
           /\ \E s \in FreeSlots :
                rec' = [rec EXCEPT ![s] = Settled(Discovered(c), calls[c])]
  <2>1. PICK s \in FreeSlots :
               rec' = [rec EXCEPT ![s] = Settled(Discovered(c), calls[c])]
    BY <1>5
  <2>2. s \in Slots /\ rec[s].call = None
    BY RecordFacts DEF FreeSlots, NoRecord
  <2>3. calls[c].line \in Lines \cup {None}
    BY DEF IInv, TypeOK, RowType
  <2>4. /\ Discovered(c) \in RecordType /\ Discovered(c).call = c
        /\ ~Discovered(c).ending
    BY <2>3, Constants DEF Discovered, RecordType, NoRecord
  <2>5. \A x \in Slots : rec[x].call # c
    BY <1>1, <1>5, RecordFacts
  <2> DEFINE q == Settled(Discovered(c), calls[c])
  <2>6. q.call = c /\ ~q.ending
    BY <1>2, <2>4
  <2>7. rec' = [rec EXCEPT ![s] = q]
    BY <2>1
  <2> HIDE DEF q
  <2>8. QED
    BY <1>1, <2>2, <2>5, <2>6, <2>7, TakeEffect
<1>6. QED
  BY <1>3, <1>4, <1>5 DEF BindCall

\* Every step but a commit, which touches no record.
LEMMA StepEffect ==
  ASSUME IInv, [Next]_vars
  PROVE  Effect \/ Commit
<1>1. CASE \E t \in Threads : Handle(t)
  <2>1. PICK t \in Threads : Handle(t)
    BY <1>1
  <2>2. CASE UNCHANGED <<rec, calls>>
    BY <2>2, SweepEffect
  <2>3. QED
    BY <2>1, <2>2, ClaimEffect, SweepEffect DEF Handle, ReadForPrepare, ReadCall
<1>2. CASE \E s \in Slots, h \in Holders : Outgoing(s, h)
  BY <1>2, OutgoingEffect
<1>3. CASE \E s \in Slots : MediaConnected(s) \/ MediaDisconnected(s)
  BY <1>3, OutgoingEffect
<1>4. CASE Reconcile
  BY <1>4, SweepEffect, BindEffect, VerifyEffect DEF Reconcile
<1>5. CASE Run \/ Tick \/ \E group \in Groups : Revoke(group)
  BY <1>5, SweepEffect
<1>6. CASE UNCHANGED vars
  BY <1>6, SweepEffect DEF vars
<1>7. QED
  BY <1>1, <1>2, <1>3, <1>4, <1>5, <1>6 DEF Next

-----------------------------------------------------------------------------
(* Ownership is final                                                      *)

\* An owner is dropped only with the record of a call that is over.
LEMMA OwnershipStep ==
  ASSUME IInv, [Next]_vars, NEW c \in Calls, Tracked(c)'
  PROVE  /\ Owner(c) # {} => Owner(c)' = Owner(c)
         /\ Ending(c) => Ending(c)'
<1>0. c # None
  BY LeaseAssumption
<1>1. \A h : h \in Owner(c) <=>
        \E s \in Slots : rec[s].call = c /\ rec[s].holder = h /\ h # None
  BY DEF Owner
<1>2. \A h : h \in Owner(c)' <=>
        \E s \in Slots : rec'[s].call = c /\ rec'[s].holder = h /\ h # None
  BY DEF Owner
<1> HIDE DEF Owner
<1>3. CASE Commit
  BY <1>3 DEF Commit, Owner, Ending
<1>4. ASSUME \A s \in Slots : rec[s].call = c \/ rec'[s].call = c => Quiet(s)
      PROVE  Owner(c)' = Owner(c) /\ (Ending(c) => Ending(c)')
  <2>1. \A s \in Slots : \A h :
          rec[s].call = c /\ rec[s].holder = h /\ h # None
            <=> rec'[s].call = c /\ rec'[s].holder = h /\ h # None
    BY <1>0, <1>4 DEF Quiet, Owned
  <2>2. \A h : h \in Owner(c)' <=> h \in Owner(c)
    BY <1>1, <1>2, <2>1
  <2>3. Owner(c)' = Owner(c)
    BY <2>2 DEF Owner
  <2>4. QED
    BY <1>4, <2>3 DEF Ending, Quiet
<1>5. CASE Effect /\ \E s \in Slots : Taken(s)
  <2>1. PICK s \in Slots : Taken(s)
    BY <1>5
  <2>2. CASE rec'[s].call = c
    <3>1. Owner(c) = {} /\ ~Ending(c)
      BY <1>1, <2>1, <2>2 DEF Taken, Ending
    <3>2. QED
      BY <3>1
  <2>3. CASE rec'[s].call # c
    <3>1. \A x \in Slots : rec[x].call = c \/ rec'[x].call = c => Quiet(x)
      BY <1>0, <2>1, <2>3 DEF Taken
    <3>2. QED
      BY <1>4, <3>1
  <2>4. QED
    BY <2>2, <2>3
<1>6. CASE Effect /\ \E s \in Slots : Removed(s)
  <2>1. PICK s \in Slots : Removed(s) /\ UNCHANGED calls
    BY <1>6 DEF Effect
  <2>2. rec[s].call # c
    BY <2>1 DEF Removed, Tracked
  <2>3. rec'[s] = NoRecord /\ \A x \in Slots \ {s} : rec'[x] = rec[x]
    BY <2>1, RecordFacts DEF Removed
  <2>4. \A x \in Slots : rec[x].call = c \/ rec'[x].call = c => Quiet(x)
    BY <1>0, <2>2, <2>3 DEF Quiet, Owned, NoRecord
  <2>5. QED
    BY <1>4, <2>4
<1>7. QED
  BY <1>3, <1>4, <1>5, <1>6, StepEffect DEF Effect

\* No expiry, revocation, reconciliation or handler transfers, drops or revives
\* the ownership of a call the projection still shows open.
THEOREM FinalOwnership == Spec => OwnershipIsFinal
<1>1. IInv /\ [Next]_vars =>
        [\A c \in Calls :
           Tracked(c)' => /\ Owner(c) # {} => Owner(c)' = Owner(c)
                          /\ Ending(c) => Ending(c)']_vars
  BY OwnershipStep
<1>2. QED
  BY <1>1, Invariant, PTL DEF Spec, OwnershipIsFinal

-----------------------------------------------------------------------------
(* The manager implements the contract of CallOwnership                    *)

LEMMA OwnerIsHeld ==
  ASSUME NEW c \in Calls, OwnerOf(c) # None
  PROVE  \E s \in Slots : rec[s].call = c /\ rec[s].holder = OwnerOf(c)
BY DEF OwnerOf

LEMMA NobodyOwns ==
  ASSUME NEW c \in Calls, \A s \in Slots : rec[s].call = c => rec[s].holder = None
  PROVE  OwnerOf(c) = None
BY DEF OwnerOf

LEMMA NobodyWillOwn ==
  ASSUME NEW c \in Calls, \A s \in Slots : rec'[s].call = c => rec'[s].holder = None
  PROVE  OwnerOf(c)' = None
BY DEF OwnerOf

\* The record of a call is its only one.
LEMMA OwnerAfter ==
  ASSUME NEW c \in Calls, NEW s \in Slots, rec'[s].call = c,
         rec'[s].holder # None,
         \A x \in Slots : rec'[x].call = c => x = s
  PROVE  OwnerOf(c)' = rec'[s].holder
<1> DEFINE own == {x \in Slots : rec'[x].call = c /\ rec'[x].holder # None}
<1>1. own = {s}
  OBVIOUS
<1>2. OwnerOf(c)' = IF own = {} THEN None ELSE rec'[CHOOSE x \in own : TRUE].holder
  BY DEF OwnerOf
<1>3. QED
  BY <1>1, <1>2

\* A call none of whose records changes hands keeps its owner.
LEMMA OwnerSame ==
  ASSUME NEW c \in Calls, c # None,
         \A s \in Slots : rec[s].call = c \/ rec'[s].call = c => Quiet(s)
  PROVE  OwnerOf(c)' = OwnerOf(c)
<1> DEFINE own == {x \in Slots : rec[x].call = c /\ rec[x].holder # None}
           post == {x \in Slots : rec'[x].call = c /\ rec'[x].holder # None}
<1>1. post = own /\ \A x \in own : rec'[x].holder = rec[x].holder
  BY DEF Quiet, Owned
<1>2. OwnerOf(c) = IF own = {} THEN None ELSE rec[CHOOSE x \in own : TRUE].holder
  BY DEF OwnerOf
<1>3. OwnerOf(c)' = IF post = {} THEN None ELSE rec'[CHOOSE x \in post : TRUE].holder
  BY DEF OwnerOf
<1> HIDE DEF own, post
<1>4. own # {} => (CHOOSE x \in own : TRUE) \in own
  OBVIOUS
<1>5. QED
  BY <1>1, <1>2, <1>3, <1>4

\* A commit closes calls and makes others known.
LEMMA CommitContract ==
  ASSUME IInv, IInv', Commit
  PROVE  Contract!Observe
<1>1. UNCHANGED rec /\ \A c \in Calls : calls'[c] \in Successors(c)
  BY DEF Commit
<1>2. \A c \in Calls :
        /\ calls[c].line # None => calls'[c].line = calls[c].line
        /\ calls[c].phase \in {"ended", "relisted"} =>
             calls'[c].phase \in {"ended", "relisted"}
        /\ calls'[c].line \in Lines \cup {None}
  BY <1>1, SuccessorFacts DEF IInv, RowType
<1>3. UNCHANGED <<[c \in Calls |-> OwnerOf(c)], {c \in Calls : Ending(c)}>>
  BY <1>1 DEF OwnerOf, Ending
<1>4. /\ Closed \subseteq Closed' /\ Closed' \subseteq Calls
      /\ [c \in Calls |-> calls'[c].line] \in [Calls -> Lines \cup {None}]
      /\ \A c \in Calls : [d \in Calls |-> calls[d].line][c] # None =>
           [d \in Calls |-> calls'[d].line][c] = [d \in Calls |-> calls[d].line][c]
  BY <1>2 DEF Closed
<1>5. QED
  BY <1>3, <1>4 DEF Contract!Observe

\* Two of the abstract variables only follow the projection.
LEMMA SameProjection ==
  ASSUME UNCHANGED calls
  PROVE  /\ Closed' = Closed
         /\ [c \in Calls |-> calls'[c].line] = [c \in Calls |-> calls[c].line]
BY DEF Closed

\* The record of a call that is over goes.
LEMMA RemoveContract ==
  ASSUME IInv, NEW s \in Slots, Removed(s), UNCHANGED calls
  PROVE  Contract!Forget(rec[s].call)
<1>0. PICK c : c = rec[s].call
  OBVIOUS
<1>1. c \in Calls /\ c # None /\ rec[s].line = calls[c].line /\ rec[s].line # None
  BY <1>0, RecordFacts, LeaseAssumption DEF Removed, RecordShape, NoRecord
<1>2. c \in Closed
  BY <1>0, <1>1 DEF IInv, TypeOK, RowShape, RowType, Removed, Tracked, Closed
<1>3. rec'[s] = NoRecord /\ \A x \in Slots \ {s} : rec'[x] = rec[x]
  BY RecordFacts DEF Removed
<1>4. \A x \in Slots : rec[x].call = c => x = s
  BY <1>0, <1>1, RecordFacts DEF IInv, OneRecordPerIdentity
<1>5. OwnerOf(c)' = None /\ ~Ending(c)'
  <2>1. \A x \in Slots : rec'[x].call # c
    BY <1>1, <1>3, <1>4 DEF NoRecord
  <2>2. QED
    BY <1>1, <2>1, NobodyWillOwn DEF Ending
<1>6. ASSUME NEW d \in Calls, d # c
      PROVE  OwnerOf(d)' = OwnerOf(d) /\ (Ending(d)' <=> Ending(d))
  <2>1. d # None
    BY LeaseAssumption
  <2>2. \A x \in Slots : rec[x].call = d \/ rec'[x].call = d => x # s
    BY <1>0, <1>3, <1>6, <2>1 DEF NoRecord
  <2>3. \A x \in Slots : rec[x].call = d \/ rec'[x].call = d => Quiet(x)
    BY <1>3, <2>2 DEF Quiet
  <2>4. Ending(d)' <=> Ending(d)
    BY <1>3, <2>2 DEF Ending
  <2>5. QED
    BY <2>1, <2>3, <2>4, OwnerSame
<1>7. [d \in Calls |-> OwnerOf(d)]' = [[d \in Calls |-> OwnerOf(d)] EXCEPT ![c] = None]
  BY <1>1, <1>5, <1>6
<1>8. {d \in Calls : Ending(d)}' = {d \in Calls : Ending(d)} \ {c}
  BY <1>1, <1>5, <1>6
<1>9. Contract!Forget(c)
  BY <1>1, <1>2, <1>7, <1>8, SameProjection DEF Contract!Forget
<1>10. QED
  BY <1>0, <1>9

\* A call nobody owned is taken by a session that owns no other, on a line
\* nobody owns, or is kept for nobody.
LEMMA TakeContract ==
  ASSUME IInv, IInv', NEW s \in Slots, Taken(s), UNCHANGED calls
  PROVE  LET c == rec'[s].call
         IN  Contract!Inherit(c) \/ \E h \in Holders : Contract!Take(c, h)
<1>0. PICK c, h : c = rec'[s].call /\ h = rec'[s].holder
  OBVIOUS
<1>1. /\ c \in Calls /\ c # None /\ h # None /\ h \in Holders \cup {RestartOrphan}
      /\ s \in Live' /\ rec'[s].line = calls[c].line
  <2>1. rec'[s] \in RecordType /\ RecordShape(rec[s])'
    BY DEF IInv, TypeOK
  <2>2. c \in Calls /\ c # None /\ h # None
    BY <1>0, LeaseAssumption DEF Taken
  <2>3. rec'[s].line = calls[c].line /\ rec'[s].line # None
    BY <1>0, <2>1, <2>2 DEF RecordShape, NoRecord
  <2>4. QED
    BY <1>0, <2>1, <2>2, <2>3 DEF RecordType, Live
<1>2. OwnerOf(c) = None /\ ~Ending(c)
  BY <1>0, <1>1, NobodyOwns DEF Taken, Ending
<1>3. \A x \in Slots : rec'[x].call = c => x = s
  <2>1. \A x \in Slots : rec'[x].call = c => x \in Live'
    BY <1>1 DEF IInv, RecordShape, Live, NoRecord
  <2>2. QED
    BY <1>0, <1>1, <2>1 DEF IInv, OneRecordPerIdentity
<1>4. OwnerOf(c)' = h /\ ~Ending(c)'
  BY <1>0, <1>1, <1>3, OwnerAfter DEF Taken, Ending
<1>5. ASSUME NEW d \in Calls, d # c
      PROVE  /\ OwnerOf(d)' = OwnerOf(d) /\ (Ending(d)' <=> Ending(d))
             /\ OwnerOf(d) \in Holders =>
                  OwnerOf(d) # h /\ (h \in Holders => calls[d].line # calls[c].line)
  <2>1. d # None
    BY LeaseAssumption
  <2>2. \A x \in Slots : rec[x].call = d \/ rec'[x].call = d => x # s
    BY <1>0, <1>5, <2>1 DEF Taken
  <2>3. \A x \in Slots : rec[x].call = d \/ rec'[x].call = d => Quiet(x)
    BY <2>2 DEF Taken
  <2>4. OwnerOf(d)' = OwnerOf(d)
    BY <2>1, <2>3, OwnerSame
  <2>5. Ending(d)' <=> Ending(d)
    BY <2>1, <2>2, <2>3 DEF Ending, Quiet, Taken
  <2>6. ASSUME OwnerOf(d) \in Holders
        PROVE  OwnerOf(d) # h /\ (h \in Holders => calls[d].line # calls[c].line)
    <3>1. PICK x \in Slots : rec[x].call = d /\ rec[x].holder = OwnerOf(d)
      BY <2>6, LeaseAssumption, OwnerIsHeld
    <3>2. rec'[x].call = d /\ rec'[x].holder = OwnerOf(d) /\ x # s
      BY <2>1, <2>2, <2>3, <2>6, <3>1, LeaseAssumption DEF Quiet, Owned
    <3>3. x \in Live' /\ rec'[x].line = calls[d].line
      BY <2>1, <3>2 DEF IInv, RecordShape, Live, NoRecord
    <3>4. QED
      BY <1>0, <1>1, <2>6, <3>2, <3>3 DEF IInv, OneRecordPerHolder, OneOwnerPerLine
  <2>7. QED
    BY <2>4, <2>5, <2>6
<1>6. [d \in Calls |-> OwnerOf(d)]' = [[d \in Calls |-> OwnerOf(d)] EXCEPT ![c] = h]
  BY <1>1, <1>4, <1>5
<1>7. {d \in Calls : Ending(d)}' = {d \in Calls : Ending(d)}
  BY <1>1, <1>2, <1>4, <1>5
<1>8. CASE h = RestartOrphan
  BY <1>0, <1>1, <1>2, <1>6, <1>7, <1>8, SameProjection DEF Contract!Inherit
<1>9. CASE h \in Holders
  <2>1. \A d \in Calls \ {c} :
          /\ [x \in Calls |-> OwnerOf(x)][d] # h
          /\ [x \in Calls |-> calls[x].line][d] = [x \in Calls |-> calls[x].line][c]
               => [x \in Calls |-> OwnerOf(x)][d] \notin Holders
    BY <1>1, <1>5, <1>9
  <2>2. Contract!Take(c, h)
    BY <1>1, <1>2, <1>6, <1>7, <2>1, SameProjection DEF Contract!Take
  <2>3. QED
    BY <1>0, <1>9, <2>2
<1>10. QED
  BY <1>1, <1>8, <1>9

LEMMA QuietContract ==
  ASSUME IInv, UNCHANGED calls, \A s \in Slots : Quiet(s)
  PROVE  Contract!End
<1>1. ASSUME NEW c \in Calls
      PROVE  OwnerOf(c)' = OwnerOf(c) /\ (Ending(c) => Ending(c)')
  <2>1. c # None
    BY LeaseAssumption
  <2>2. Ending(c) => Ending(c)'
    BY DEF Ending, Quiet
  <2>3. QED
    BY <2>1, <2>2, OwnerSame
<1>2. [c \in Calls |-> OwnerOf(c)]' = [c \in Calls |-> OwnerOf(c)]
  BY <1>1
<1>3. QED
  BY <1>1, <1>2, SameProjection DEF Contract!End

LEMMA ContractStep ==
  ASSUME IInv, IInv', [Next]_vars
  PROVE  Contract!Next
<1>1. CASE Commit
  BY <1>1, CommitContract DEF Contract!Next
<1>2. CASE Effect
  <2>1. CASE \A s \in Slots : Quiet(s)
    BY <1>2, <2>1, QuietContract DEF Effect, Contract!Next
  <2>2. CASE \E s \in Slots : Taken(s)
    <3>1. PICK s \in Slots : Taken(s)
      BY <2>2
    <3>2. rec'[s].call \in Calls
      BY <3>1 DEF Taken
    <3>3. QED
      BY <1>2, <3>1, <3>2, TakeContract DEF Effect, Contract!Next
  <2>3. CASE \E s \in Slots : Removed(s)
    <3>1. PICK s \in Slots : Removed(s)
      BY <2>3
    <3>2. rec[s].call \in Calls
      BY <3>1 DEF Removed
    <3>3. QED
      BY <1>2, <3>1, <3>2, RemoveContract DEF Effect, Contract!Next
  <2>4. QED
    BY <1>2, <2>1, <2>2, <2>3 DEF Effect
<1>3. QED
  BY <1>1, <1>2, StepEffect

LEMMA ContractInit == ASSUME Init PROVE Contract!Init
<1>1. \A s \in Slots : rec[s] = NoRecord
  BY DEF Init
<1>2. \A c \in Calls : c # None
  BY LeaseAssumption
<1>3. \A c \in Calls : OwnerOf(c) = None /\ ~Ending(c)
  BY <1>1, <1>2, NobodyOwns DEF NoRecord, Ending
<1>4. Closed = {}
  <2> SUFFICES ASSUME NEW c \in Calls PROVE calls[c].phase \notin {"ended", "relisted"}
    BY DEF Closed
  <2>1. calls[c] = NoRow \/ \E l \in Lines : calls[c] \in Rows(l, {None})
    BY DEF Init
  <2>2. QED
    BY <2>1, LeaseAssumption DEF NoRow, Rows
<1>5. \A c \in Calls : calls[c].line \in Lines \cup {None}
  BY InitInvariant DEF IInv, TypeOK, RowType
<1>6. QED
  BY <1>3, <1>4, <1>5 DEF Contract!Init

\* The records, deadlines, reservations and snapshots of the manager implement
\* the contract: one owner per call, until the projection says it is over.
THEOREM Implementation == Spec => ImplementsContract
<1>1. Init => Contract!Init
  BY ContractInit
<1>2. IInv /\ IInv' /\ [Next]_vars => [Contract!Next]_Contract!vars
  BY ContractStep
<1>3. QED
  BY <1>1, <1>2, Invariant, PTL DEF Spec, ImplementsContract, Contract!Spec

-----------------------------------------------------------------------------
(* What the sessions are shown                                             *)

\* An open call has a line, and its record is on it.
LEMMA OpenCallLine ==
  ASSUME IInv, NEW c \in Calls, Tracked(c)
  PROVE  /\ calls[c].line # None /\ c # None
         /\ \A s \in Live : rec[s].call = c => rec[s].line = calls[c].line
BY RecordFacts, LeaseAssumption DEF IInv, RowShape, RecordShape, Tracked, Live

\* Whoever is shown a call as its own excludes every other session from the
\* line, call waiting included.
LEMMA OwnedExcludes ==
  ASSUME IInv, NEW c \in Calls, NEW d \in Calls, NEW g \in Holders, NEW h \in Holders,
         Tracked(c), Tracked(d), calls[c].line = calls[d].line, g # h,
         ControlState(c, g) = "owned"
  PROVE  ControlState(d, h) = "occupied"
<1>1. initialized /\ \E s \in Live : rec[s].call = c /\ rec[s].holder = g
  BY DEF ControlState
<1>2. PICK s \in Live : rec[s].call = c /\ rec[s].holder = g
  BY <1>1
<1>3. rec[s].line = calls[d].line
  BY <1>2, OpenCallLine
<1> DEFINE Own == {x \in Live : rec[x].call = d}
<1>4. \A x \in Own : rec[x].holder # h
  <2> SUFFICES ASSUME NEW x \in Own, rec[x].holder = h PROVE FALSE
    OBVIOUS
  <2>1. rec[x].line = calls[d].line /\ x \in Live
    BY OpenCallLine
  <2>2. x = s
    BY <1>2, <1>3, <2>1 DEF IInv, OneOwnerPerLine
  <2>3. QED
    BY <1>2, <2>2
<1>5. CASE \E x \in Own : rec[x].ending \/ rec[x].holder # None
  BY <1>4, <1>5 DEF ControlState
<1>6. CASE \A x \in Own : ~rec[x].ending /\ rec[x].holder = None
  <2>1. c # d
    BY <1>2, <1>6, LeaseAssumption
  <2>2. BlocksLine(rec[s])
    BY <1>2, LeaseAssumption DEF BlocksLine
  <2>3. ClaimBlocked(d, h, calls[d].line)
    BY <1>2, <1>3, <2>1, <2>2 DEF ClaimBlocked
  <2>4. QED
    BY <1>6, <2>3 DEF ControlState
<1>7. QED
  BY <1>5, <1>6

\* While some session owns a call of a line, no other session is shown any call
\* of that line as its own or as available.
THEOREM ProjectionIsExclusive == Spec => []ProjectionExcludes
<1>1. IInv => ProjectionExcludes
  BY OwnedExcludes DEF ProjectionExcludes
<1>2. QED
  BY <1>1, Invariant, PTL

-----------------------------------------------------------------------------
(* Calls that were there before the process                                *)

\* Such a call has a record kept for nobody, or is still waiting for its first
\* snapshot, without a record or a request through which it could get one.
InheritedHeld ==
  \A c \in inherited :
    /\ calls[c].phase # "absent"
    /\ \/ ~Tracked(c)
       \/ \E s \in Slots : rec[s].call = c /\ rec[s].holder = RestartOrphan
       \/ /\ ~initialized /\ calls[c].req = None
          /\ \A s \in Slots : rec[s].call # c
          /\ coord = "binding" => c \in todo

\* A handler activates a call for the request the projection stores with it.
ActivatesItsRequest ==
  \A t \in Threads :
    handler[t].kind = "activate" =>
      /\ handler[t].req \in Requests
      /\ calls[handler[t].call].req = handler[t].req

InheritedInv == InheritedHeld /\ ActivatesItsRequest

\* A snapshot changes nothing but the phase of a known call.
LEMMA KnownRow ==
  ASSUME TypeOK, NEW c \in Calls, calls[c].phase # "absent", NEW row \in Successors(c)
  PROVE  /\ row.req = calls[c].req /\ row.phase # "absent"
         /\ calls[c].phase \in {"ended", "relisted"} =>
              row.phase \in {"ended", "relisted"}
<1>1. calls[c] \in RowType
  BY DEF TypeOK
<1>2. CASE calls[c].phase \in {"ended", "relisted"}
  <2>1. PICK p \in {"ended", "relisted"} : row = [calls[c] EXCEPT !.phase = p]
    BY <1>2 DEF Successors
  <2>2. QED
    BY <1>1, <1>2, <2>1 DEF RowType
<1>3. CASE calls[c].phase \notin {"ended", "relisted"}
  <2>1. PICK p \in {"ended", calls[c].phase} \cup OpenPhases :
          row = [calls[c] EXCEPT !.phase = p]
    BY <1>3 DEF Successors
  <2>2. QED
    BY <1>1, <1>3, <2>1, LeaseAssumption DEF RowType
<1>4. QED
  BY <1>2, <1>3

LEMMA ActivatesStep ==
  ASSUME IInv, ActivatesItsRequest, [Next]_vars
  PROVE  ActivatesItsRequest'
<1>0. TypeOK /\ \A t \in Threads : HandlerShape(handler[t])
  BY DEF IInv
<1>1. CASE UNCHANGED calls /\ \A t \in Threads : handler'[t] = handler[t] \/ handler'[t] = Idle
  BY <1>1 DEF ActivatesItsRequest, Idle
<1>2. CASE Commit
  <2>1. UNCHANGED handler /\ \A c \in Calls : calls'[c] \in Successors(c)
    BY <1>2 DEF Commit
  <2>2. ASSUME NEW t \in Threads, handler[t].kind = "activate"
        PROVE  calls'[handler[t].call].req = calls[handler[t].call].req
    <3>1. handler[t].call \in Calls /\ calls[handler[t].call].phase # "absent"
      BY <1>0, <2>2 DEF HandlerShape, IInv, RowShape
    <3>2. QED
      BY <1>0, <2>1, <3>1, KnownRow
  <2>3. QED
    BY <2>1, <2>2 DEF ActivatesItsRequest
<1>3. CASE \E t \in Threads : Handle(t)
  <2>1. PICK t \in Threads : Handle(t)
    BY <1>3
  <2>2. CASE Prepare(t) \/ Activate(t) \/ Refresh(t) \/ Claim(t)
    BY <1>1, <2>2, DoneFacts DEF Prepare, Activate, Refresh, Claim, IInv, TypeOK
  <2>3. CASE \E h \in Holders, r \in Requests, l \in Lines : ReadForPrepare(t, h, r, l)
    BY <1>0, <2>3 DEF ReadForPrepare, ActivatesItsRequest, Idle, TypeOK
  <2>4. CASE \E h \in Holders, c \in Calls, r \in Requests :
               ReadCall(t, "activate", h, r, c)
    BY <1>0, <2>4 DEF ReadCall, ActivatesItsRequest, Idle, TypeOK
  <2>5. CASE \E h \in Holders, c \in Calls, kind \in {"refresh", "claim"} :
               ReadCall(t, kind, h, None, c)
    BY <1>0, <2>5 DEF ReadCall, ActivatesItsRequest, Idle, TypeOK
  <2>6. QED
    BY <2>1, <2>2, <2>3, <2>4, <2>5 DEF Handle
<1>4. CASE UNCHANGED <<calls, handler>>
  BY <1>1, <1>4
<1>5. QED
  BY <1>2, <1>3, <1>4 DEF Next, Outgoing, RenewPreparation, BeginOutgoing,
     ReleaseOutgoing, AwaitOutgoingResolution, CancelOutgoing, Update,
     MediaConnected, MediaDisconnected, Revoke, Reconcile, BeginReconcile,
     FinishReconcile, BindCall, VerifyMissing, Run, ExpireCalls, EndExpired,
     Tick, vars

LEMMA InheritedInit == ASSUME Init PROVE InheritedInv
<1>1. \A s \in Slots, c \in Calls : rec[s].call # c
  BY LeaseAssumption DEF Init, NoRecord
<1>2. ASSUME NEW c \in inherited PROVE calls[c].phase # "absent" /\ calls[c].req = None
  <2>1. calls[c] = NoRow \/ \E l \in Lines : calls[c] \in Rows(l, {None})
    BY DEF Init
  <2>2. QED
    BY <2>1 DEF Init, Tracked, NoRow, Rows
<1>3. InheritedHeld
  BY <1>1, <1>2 DEF Init, InheritedHeld
<1>4. ActivatesItsRequest
  BY DEF Init, ActivatesItsRequest, Idle
<1>5. QED
  BY <1>3, <1>4 DEF InheritedInv

\* The record kept for nobody stays until the call is over.
LEMMA OrphanStays ==
  ASSUME IInv, [Next]_vars, NEW c \in Calls, Tracked(c)', NEW s \in Slots,
         rec[s].call = c, rec[s].holder = RestartOrphan
  PROVE  rec'[s].call = c /\ rec'[s].holder = RestartOrphan
<1>1. c # None /\ RestartOrphan # None
  BY LeaseAssumption
<1>2. CASE Commit
  BY <1>2 DEF Commit
<1>3. CASE Effect
  <2>1. CASE Quiet(s)
    BY <1>1, <2>1 DEF Quiet, Owned
  <2>2. CASE \E x \in Slots : Taken(x)
    BY <1>1, <2>1, <2>2 DEF Taken
  <2>3. CASE \E x \in Slots : Removed(x)
    <3>1. PICK x \in Slots : Removed(x)
      BY <2>3
    <3>2. x # s
      BY <1>3, <3>1 DEF Removed, Effect, Tracked
    <3>3. QED
      BY <3>1, <3>2, RecordFacts DEF Removed
  <2>4. QED
    BY <1>3, <2>1, <2>2, <2>3 DEF Effect
<1>4. QED
  BY <1>2, <1>3, StepEffect

\* A call that is first seen open by the first snapshot is kept for nobody.
LEMMA FirstSight ==
  ASSUME IInv, NEW c \in Calls, BindCall(c), ~initialized,
         \A s \in Live : rec[s].call # c, MatchPending(c, initialized) = {}
  PROVE  \E s \in Slots : rec'[s].call = c /\ rec'[s].holder = RestartOrphan
<1>1. PICK s \in FreeSlots :
        rec' = [rec EXCEPT ![s] = Settled(Discovered(c), calls[c])]
  BY DEF BindCall
<1>2. s \in Slots /\ rec \in [Slots -> RecordType]
  BY RecordFacts DEF FreeSlots
<1>3. Settled(Discovered(c), calls[c]).call = c
      /\ Settled(Discovered(c), calls[c]).holder = RestartOrphan
  BY DEF Settled, Discovered, NoRecord
<1>4. QED
  BY <1>1, <1>2, <1>3

\* Until then it has no record.
LEMMA StillWaiting ==
  ASSUME IInv, ActivatesItsRequest, [Next]_vars, NEW c \in Calls, ~BindCall(c),
         Tracked(c), Tracked(c)',
         ~initialized, calls[c].req = None, \A s \in Slots : rec[s].call # c,
         coord = "binding" => c \in todo
  PROVE  /\ ~initialized' /\ calls'[c].req = None
         /\ \A s \in Slots : rec'[s].call # c
         /\ coord' = "binding" => c \in todo'
<1>1. \A t \in Threads : handler[t].kind = "activate" => handler[t].call # c
  BY LeaseAssumption DEF ActivatesItsRequest
<1>2. calls'[c].req = None /\ \A s \in Slots : rec'[s].call # c
  <2>1. CASE Commit
    <3>1. calls'[c] \in Successors(c) /\ UNCHANGED rec
      BY <2>1 DEF Commit
    <3>2. QED
      BY <3>1, KnownRow DEF IInv, Tracked
  <2>2. CASE Effect
    BY <1>1, <2>2 DEF Effect, Nameable
  <2>3. QED
    BY <2>1, <2>2, StepEffect
<1>3. \/ UNCHANGED <<initialized, coord, todo>>
      \/ Commit \/ BeginReconcile \/ FinishReconcile
      \/ \E d \in Calls : BindCall(d)
  <2>1. CASE \E t \in Threads : Handle(t)
    <3>1. PICK t \in Threads : Handle(t)
      BY <2>1
    <3>2. CASE Prepare(t) \/ Activate(t) \/ Refresh(t) \/ Claim(t)
      BY <3>2 DEF Prepare, Activate, Refresh, Claim
    <3>3. CASE ~(Prepare(t) \/ Activate(t) \/ Refresh(t) \/ Claim(t))
      BY <3>1, <3>3 DEF Handle, ReadForPrepare, ReadCall
    <3>4. QED
      BY <3>2, <3>3
  <2>2. CASE \E s \in Slots, h \in Holders : Outgoing(s, h)
    BY <2>2 DEF Outgoing, RenewPreparation, BeginOutgoing, ReleaseOutgoing,
       AwaitOutgoingResolution, CancelOutgoing, Update
  <2>3. CASE \E s \in Slots : MediaConnected(s) \/ MediaDisconnected(s)
    BY <2>3 DEF MediaConnected, MediaDisconnected, Update
  <2>4. CASE Reconcile
    BY <2>4 DEF Reconcile, VerifyMissing
  <2>5. CASE Run \/ Tick \/ (\E group \in Groups : Revoke(group)) \/ UNCHANGED vars
    BY <2>5 DEF Run, ExpireCalls, EndExpired, Tick, Revoke, vars
  <2>6. QED
    BY <2>1, <2>2, <2>3, <2>4, <2>5 DEF Next
<1>4. ~initialized' /\ (coord' = "binding" => c \in todo')
  <2>1. CASE UNCHANGED <<initialized, coord, todo>>
    BY <2>1
  <2>2. CASE Commit \/ BeginReconcile \/ FinishReconcile
    BY <2>2 DEF Commit, BeginReconcile, FinishReconcile
  <2>3. CASE \E d \in Calls : BindCall(d)
    <3>1. PICK d \in Calls : BindCall(d)
      BY <2>3
    <3>2. d # c
      BY <3>1
    <3>3. ~initialized' /\ todo' = todo \ {d} /\ coord = "binding"
      BY <3>1 DEF BindCall
    <3>4. QED
      BY <3>2, <3>3
  <2>4. QED
    BY <1>3, <2>1, <2>2, <2>3
<1>5. QED
  BY <1>2, <1>4

LEMMA InheritedStep ==
  ASSUME IInv, InheritedInv, [Next]_vars
  PROVE  InheritedInv'
<1>1. ActivatesItsRequest'
  BY ActivatesStep DEF InheritedInv
<1>2. ASSUME NEW c \in inherited'
      PROVE  /\ calls'[c].phase # "absent"
             /\ \/ ~Tracked(c)'
                \/ \E s \in Slots : rec'[s].call = c /\ rec'[s].holder = RestartOrphan
                \/ /\ ~initialized' /\ calls'[c].req = None
                   /\ \A s \in Slots : rec'[s].call # c
                   /\ coord' = "binding" => c \in todo'
  <2>1. /\ c \in inherited \/ (/\ c \in Calls /\ BindCall(c) /\ ~initialized
                               /\ \A s \in Live : rec[s].call # c
                               /\ MatchPending(c, initialized) = {})
    BY DEF Next, Handle, ReadForPrepare, ReadCall, Prepare, Activate, Refresh,
       Claim, Outgoing, RenewPreparation, BeginOutgoing, ReleaseOutgoing,
       AwaitOutgoingResolution, CancelOutgoing, Update, MediaConnected,
       MediaDisconnected, Revoke, Reconcile, Commit, BeginReconcile, BindCall,
       FinishReconcile, VerifyMissing, Run, ExpireCalls, EndExpired, Tick, vars
  <2>2. c \in Calls
    BY <2>1 DEF IInv, TypeOK
  <2>3. calls[c].phase # "absent"
    <3>1. CASE c \in inherited
      BY <3>1 DEF InheritedInv, InheritedHeld
    <3>2. CASE BindCall(c)
      BY <3>2 DEF BindCall, IInv
    <3>3. QED
      BY <2>1, <3>1, <3>2
  <2>4. /\ calls'[c].phase # "absent"
        /\ calls[c].phase \in {"ended", "relisted"} =>
             calls'[c].phase \in {"ended", "relisted"}
    <3>1. CASE Commit
      BY <2>2, <2>3, <3>1, KnownRow DEF Commit, IInv
    <3>2. CASE Effect
      BY <2>3, <3>2 DEF Effect
    <3>3. QED
      BY <3>1, <3>2, StepEffect
  <2>5. Tracked(c)' => Tracked(c)
    BY <2>2, <2>3, <2>4 DEF IInv, TypeOK, RowType, Tracked
  <2>6. CASE /\ BindCall(c) /\ ~initialized /\ MatchPending(c, initialized) = {}
             /\ \A s \in Live : rec[s].call # c
    BY <2>2, <2>4, <2>6, FirstSight
  <2>7. CASE \E s \in Slots : rec[s].call = c /\ rec[s].holder = RestartOrphan
    BY <2>2, <2>4, <2>7, OrphanStays
  <2>8. CASE /\ c \in inherited /\ Tracked(c) /\ Tracked(c)'
             /\ ~initialized /\ calls[c].req = None
             /\ \A s \in Slots : rec[s].call # c
             /\ coord = "binding" => c \in todo
    <3>1. CASE ~BindCall(c)
      BY <2>2, <2>4, <2>8, <3>1, StillWaiting DEF InheritedInv
    <3>2. CASE BindCall(c)
      <4>1. MatchPending(c, initialized) = {}
        BY <2>8 DEF MatchPending, ByRequest
      <4>2. \A s \in Live : rec[s].call # c
        BY <2>8 DEF Live
      <4>3. QED
        BY <2>6, <2>8, <3>2, <4>1, <4>2
    <3>3. QED
      BY <3>1, <3>2
  <2>9. QED
    BY <2>1, <2>4, <2>5, <2>6, <2>7, <2>8 DEF InheritedInv, InheritedHeld
<1>3. QED
  BY <1>1, <1>2 DEF InheritedInv, InheritedHeld

\* A call that was open when the process started, or that the first snapshot
\* brought without a reservation, is occupied for every session until it ends.
THEOREM InheritedCallsStayOccupied == Spec => []InheritedStayOccupied
<1>1. Init => InheritedInv
  BY InheritedInit
<1>2. IInv /\ InheritedInv /\ [Next]_vars => InheritedInv'
  BY InheritedStep
<1>3. IInv /\ InheritedInv => InheritedStayOccupied
  <2> SUFFICES ASSUME IInv, InheritedInv, NEW c \in inherited, NEW h \in Holders,
                      Tracked(c)
               PROVE  ControlState(c, h) = "occupied"
    BY DEF InheritedStayOccupied
  <2>1. CASE ~initialized
    BY <2>1 DEF ControlState
  <2>2. CASE initialized
    <3>1. PICK s \in Slots : rec[s].call = c /\ rec[s].holder = RestartOrphan
      BY <2>2 DEF InheritedInv, InheritedHeld
    <3>2. c \in Calls /\ c # None /\ RestartOrphan \notin Holders \cup {None}
      BY LeaseAssumption DEF IInv, TypeOK
    <3>3. s \in Live
      BY <3>1, <3>2, RecordFacts
    <3>4. \A x \in Live : rec[x].call = c => x = s
      BY <3>1, <3>2, <3>3 DEF IInv, OneRecordPerIdentity
    <3>5. QED
      BY <3>1, <3>2, <3>3, <3>4 DEF ControlState
  <2>3. QED
    BY <2>1, <2>2
<1>4. QED
  BY <1>1, <1>2, <1>3, Invariant, PTL DEF Spec
=============================================================================
