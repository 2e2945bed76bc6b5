------------------------- MODULE ControlLeaseProofs -------------------------
(***************************************************************************)
(* Theorems about the agent's control lease, for any number of             *)
(* applications, calls, lines and handlers, and any lease duration.        *)
(***************************************************************************)
EXTENDS ControlLease, TLAPS

-----------------------------------------------------------------------------
(* The gate                                                                *)

PcType == {"idle", "blocked", "shared", "running", "leaving", "pending",
           "inspecting", "sweeping"}

GateOK == pc \in [Goroutines -> PcType] /\ GateExcludes

\* A step that only moves one goroutine between places of the same side, or
\* to the outside, keeps the gate exclusive.
LEMMA GateMove ==
  ASSUME GateOK, NEW g \in Goroutines, NEW p \in PcType,
         pc' = [pc EXCEPT ![g] = p],
         \/ p = "idle"
         \/ p \in {"running", "leaving"} /\ Reading(g)
         \/ p = "blocked" /\ g \in Handlers
         \/ p \in {"inspecting", "sweeping"} /\ Writing(g)
              /\ \A h \in Handlers : ~Reading(h)
  PROVE  GateOK'
<1>1. pc' \in [Goroutines -> PcType]
  BY DEF GateOK
<1>2. \A x \in Goroutines : Writing(x)' => Writing(x)
  BY DEF GateOK, Writing, Reading
<1>3. \A x \in Handlers : Reading(x)' => Reading(x)
  BY DEF GateOK, Reading, Goroutines
<1>4. \A x \in Goroutines : pc'[x] \in {"inspecting", "sweeping"} =>
        \A h \in Handlers : ~Reading(h)
  BY DEF GateOK, GateExcludes
<1>5. \A x \in {Ticker, Main} : ~Reading(x)' /\ pc'[x] # "blocked"
  BY ControlAssumption DEF GateOK, GateExcludes, Reading, Goroutines
<1>6. QED
  BY <1>1, <1>2, <1>3, <1>4, <1>5 DEF GateOK, GateExcludes

\* The exclusive side is given back, and the readers it blocked enter.
LEMMA GateUnlock ==
  ASSUME GateOK, NEW g \in Goroutines, Writing(g), pc' = Unlocked(g)
  PROVE  /\ GateOK'
         /\ \A x \in Goroutines : ~Writing(x)'
         /\ \A h \in Handlers : pc'[h] = "running" => pc[h] = "running"
<1>1. pc' \in [Goroutines -> PcType]
  BY DEF GateOK, Unlocked, PcType
<1>2. \A x \in Goroutines : ~Writing(x)'
  BY DEF GateOK, GateExcludes, Unlocked, Writing
<1>3. \A x \in {Ticker, Main} : ~Reading(x)' /\ pc'[x] # "blocked"
  BY DEF GateOK, GateExcludes, Unlocked, Reading, Goroutines
<1>4. \A h \in Handlers : pc'[h] = "running" => pc[h] = "running"
  BY DEF Unlocked, Goroutines
<1>5. QED
  BY <1>1, <1>2, <1>3, <1>4 DEF GateOK, GateExcludes, Writing

-----------------------------------------------------------------------------
(* Calls that end                                                          *)

\* Ending calls, or forgetting them, connects none and moves none.
CallsEnd ==
  /\ call' \in [Calls -> CallType]
  /\ \A c \in Calls : Alive(c)' => Alive(c) /\ call'[c].by = call[c].by

LEMMA EndedCalls ==
  ASSUME TypeOK, NEW S \in SUBSET Calls, call' = Ended(S)
  PROVE  /\ CallsEnd
         /\ \A c \in S : ~Alive(c)'
<1>1. \A c \in Calls : /\ call'[c] \in CallType
                       /\ Alive(c)' => c \notin S
                       /\ c \notin S => call'[c] = call[c]
  BY DEF TypeOK, CallType, Ended, Alive
<1>2. QED
  BY <1>1 DEF CallsEnd, Ended, Alive

LEMMA HangUpEnds ==
  ASSUME TypeOK, NEW c \in Calls, HangUp(c)
  PROVE  CallsEnd /\ ~Alive(c)'
BY EndedCalls DEF HangUp

LEMMA ResetEnds ==
  ASSUME TypeOK, NEW c \in Calls, Reset(c)
  PROVE  /\ CallsEnd
         /\ \A d \in Calls : call[d].line = call[c].line => ~Alive(d)'
<1>1. OnLine(call[c].line) \in SUBSET Calls
  BY DEF OnLine
<1>2. CallsEnd /\ \A d \in OnLine(call[c].line) : ~Alive(d)'
  BY <1>1, EndedCalls DEF Reset
<1>3. QED
  BY <1>2 DEF CallsEnd, OnLine, Ongoing, Alive

LEMMA ArriveEnds ==
  ASSUME TypeOK, NEW c \in Calls, NEW l \in Lines, Arrive(c, l)
  PROVE  CallsEnd
BY DEF TypeOK, CallType, Arrive, Alive, CallsEnd

LEMMA ForgetEnds ==
  ASSUME TypeOK, NEW c \in Calls, Forget(c)
  PROVE  CallsEnd
BY DEF TypeOK, CallType, Forget, Alive, CallsEnd

-----------------------------------------------------------------------------
(* The steps                                                               *)

THEOREM InitInvariant == Init => IInv
<1> SUFFICES ASSUME Init PROVE IInv
  OBVIOUS
<1>1. TypeOK
  <2>1. call \in [Calls -> CallType]
    <3> SUFFICES ASSUME NEW c \in Calls PROVE call[c] \in CallType
      BY DEF Init
    <3>1. \/ call[c] \in [phase : {"none"}, line : {None}, by : {None}]
          \/ call[c] \in [phase : {"ringing"}, line : Lines, by : {None}]
          \/ call[c] \in [phase : {"live"}, line : Lines, by : Controllers]
      BY DEF Init
    <3>2. QED
      BY <3>1 DEF CallType
  <2>2. left \in 0..Duration
    BY ControlAssumption DEF Init
  <2>3. pc \in [Goroutines -> PcType] /\ who \in [Handlers -> Controllers \cup {None}]
    BY DEF Init, PcType
  <2>4. QED
    BY <2>1, <2>2, <2>3 DEF Init, TypeOK, PcType
<1>2. \A g \in Goroutines : pc[g] = "idle"
  BY DEF Init
<1>3. Connected
  <2> SUFFICES ASSUME NEW c \in Calls, Alive(c) PROVE call[c].by # None
    BY DEF Connected
  <2>1. call[c] \in [phase : {"live"}, line : Lines, by : Controllers]
    BY DEF Init, Alive
  <2>2. QED
    BY <2>1, ControlAssumption
<1>4. QED
  BY <1>1, <1>2, <1>3 DEF Init, IInv, GateExcludes, CommandsOwnLease, LeaseShape,
    ProcessShape, SweepMissesNothing, CallsUnderLease, Writing, Reading, Up, Goroutines

\* What happens to calls outside the lease only ends connected calls.
LEMMA OutsideStep == ASSUME IInv, Outside PROVE IInv'
<1>1. CallsEnd
  BY HangUpEnds, ResetEnds, ArriveEnds, ForgetEnds DEF Outside, IInv
<1>2. TypeOK'
  BY <1>1 DEF Outside, IInv, TypeOK, lease, sweep, CallsEnd
<1>3. QED
  BY <1>1, <1>2 DEF Outside, lease, sweep, IInv, GateExcludes, CommandsOwnLease,
    LeaseShape, ProcessShape, SweepMissesNothing, Connected, CallsUnderLease,
    CallsEnd, Writing, Reading, Up

\* A renewal finds no connected call of another application.
LEMMA RenewStep ==
  ASSUME IInv, NEW a \in Controllers, Renew(a)
  PROVE  IInv'
<1>1. TypeOK'
  BY ControlAssumption DEF Renew, sweep, IInv, TypeOK
<1>2. controller \in {None, a}
  BY DEF Renew, Renewable
<1>3. CommandsOwnLease'
  BY <1>2 DEF Renew, IInv, CommandsOwnLease
<1>4. LeaseShape' /\ ProcessShape'
  BY ControlAssumption DEF Renew, Renewable, IInv, LeaseShape, ProcessShape, Up
<1>5. CallsUnderLease'
  BY <1>2 DEF Renew, Renewable, IInv, Connected, CallsUnderLease, Alive, Up
<1>6. QED
  BY <1>1, <1>3, <1>4, <1>5 DEF Renew, sweep, IInv, GateExcludes,
    SweepMissesNothing, Connected, Writing, Reading, Alive

LEMMA TickStep == ASSUME IInv, Tick PROVE IInv'
<1>1. TypeOK'
  BY ControlAssumption DEF Tick, Elapse, sweep, IInv, TypeOK
<1>2. LeaseShape'
  BY DEF Tick, Elapse, IInv, LeaseShape, Up, TypeOK
<1>3. QED
  BY <1>1, <1>2 DEF Tick, sweep, IInv, GateExcludes, CommandsOwnLease, ProcessShape,
    SweepMissesNothing, Connected, CallsUnderLease, Writing, Reading, Alive, Up

\* Steps that leave the lease and the calls alone and move one goroutine.
LEMMA MoveStep ==
  ASSUME IInv, GateOK', UNCHANGED <<agent, lease, sweep, call>>, Up,
         who' \in [Handlers -> Controllers \cup {None}],
         NEW g \in Goroutines, NEW p \in PcType, pc' = [pc EXCEPT ![g] = p],
         p \notin {"inspecting", "sweeping"},
         p = "running" => controller # None /\ who[g] = controller,
         \A h \in Handlers : who'[h] = who[h] \/ (h = g /\ p # "running")
  PROVE  IInv'
<1>1. TypeOK'
  BY DEF IInv, TypeOK, GateOK, lease, sweep, PcType
<1>2. pc'[g] = p /\ \A x \in Goroutines : pc'[x] = pc[x] \/ x = g
  BY DEF IInv, TypeOK
<1>3. CommandsOwnLease'
  <2> SUFFICES ASSUME NEW h \in Handlers, pc'[h] = "running"
               PROVE  controller' # None /\ who'[h] = controller'
    BY DEF CommandsOwnLease
  <2>1. UNCHANGED controller /\ h \in Goroutines
    BY DEF lease, Goroutines
  <2>2. CASE h = g
    BY <1>2, <2>1, <2>2
  <2>3. CASE h # g
    BY <1>2, <2>1, <2>3 DEF IInv, CommandsOwnLease
  <2>4. QED
    BY <2>2, <2>3
<1>4. LeaseShape'
  BY <1>2 DEF IInv, LeaseShape, lease, Up
<1>5. SweepMissesNothing'
  BY <1>2 DEF IInv, SweepMissesNothing, sweep, Alive
<1>6. QED
  BY <1>1, <1>3, <1>4, <1>5 DEF IInv, GateOK, lease, ProcessShape, Connected,
    CallsUnderLease, Alive, Up

LEMMA EnterStep ==
  ASSUME IInv, NEW h \in Handlers, NEW a \in Controllers, Enter(h, a)
  PROVE  IInv'
<1>0. /\ UNCHANGED <<agent, lease, sweep, call>> /\ Up /\ h \in Goroutines
      /\ who' \in [Handlers -> Controllers \cup {None}]
      /\ \A x \in Handlers : who'[x] = who[x] \/ x = h
  BY DEF Enter, IInv, TypeOK, Goroutines
<1>1. CASE Announced
  <2>1. pc' = [pc EXCEPT ![h] = "blocked"]
    BY <1>1 DEF Enter
  <2>2. GateOK'
    BY <2>1, GateMove DEF IInv, TypeOK, GateOK, PcType, Goroutines
  <2>3. QED
    BY <1>0, <2>1, <2>2, MoveStep DEF PcType
<1>2. CASE ~Announced
  <2>1. pc' = [pc EXCEPT ![h] = "shared"]
    BY <1>2 DEF Enter
  <2>2. \A x \in Goroutines : ~Writing(x)'
    BY <1>2, <2>1 DEF Announced, Writing, IInv, TypeOK
  <2>3. pc' \in [Goroutines -> PcType]
    BY <2>1 DEF IInv, TypeOK, PcType
  <2>4. \A g \in {Ticker, Main} : pc'[g] = pc[g]
    BY <2>1, ControlAssumption DEF IInv, TypeOK, Goroutines
  <2>5. GateOK'
    BY <2>2, <2>3, <2>4 DEF GateOK, IInv, GateExcludes, Writing, Reading
  <2>6. QED
    BY <1>0, <2>1, <2>5, MoveStep DEF PcType
<1>3. QED
  BY <1>1, <1>2

LEMMA CheckStep ==
  ASSUME IInv, NEW h \in Handlers, Check(h)
  PROVE  IInv'
<1> DEFINE p == IF Valid(who[h]) THEN "running" ELSE "idle"
<1>1. p \in PcType /\ p \in {"running", "idle"}
  BY DEF PcType
<1>2. pc' = [pc EXCEPT ![h] = p] /\ h \in Goroutines /\ pc[h] = "shared"
  BY DEF Check, Goroutines
<1>3. p = "running" => controller # None /\ who[h] = controller
  BY DEF Valid, IInv, LeaseShape
<1>4. Up
  BY <1>2 DEF IInv, ProcessShape
<1> HIDE DEF p
<1>5. GateOK'
  BY <1>1, <1>2, GateMove DEF IInv, TypeOK, GateOK, PcType, Reading
<1>6. QED
  BY <1>1, <1>2, <1>3, <1>4, <1>5, MoveStep DEF Check, IInv, TypeOK

LEMMA LeaveStep ==
  ASSUME IInv, NEW h \in Handlers, Leave(h)
  PROVE  IInv'
<1>1. pc' = [pc EXCEPT ![h] = "idle"] /\ h \in Goroutines /\ pc[h] # "idle"
  BY DEF Leave, Goroutines
<1>2. Up
  BY <1>1, ControlAssumption DEF Leave, IInv, ProcessShape
<1>3. GateOK'
  BY <1>1, GateMove DEF IInv, TypeOK, GateOK, PcType
<1>4. QED
  BY <1>1, <1>2, <1>3, MoveStep DEF Leave, IInv, TypeOK, PcType

\* A command connects a call while nobody sweeps, under the lease of its own
\* application.
LEMMA ConnectStep ==
  ASSUME IInv, NEW h \in Handlers, NEW c \in Calls,
         pc[h] = "running", pc' = [pc EXCEPT ![h] = "leaving"],
         UNCHANGED <<agent, lease, who, sweep>>,
         NEW x \in CallType, x.by = who[h], call' = [call EXCEPT ![c] = x]
  PROVE  IInv'
<1>1. /\ h \in Goroutines /\ Up /\ Reading(h)
      /\ controller # None /\ who[h] = controller
  BY ControlAssumption DEF IInv, ProcessShape, CommandsOwnLease, Goroutines, Reading
<1>2. GateOK'
  BY <1>1, GateMove DEF IInv, TypeOK, GateOK, PcType
<1>3. \A g \in Goroutines : pc'[g] = pc[g] \/ (g = h /\ pc'[g] = "leaving")
  BY DEF IInv, TypeOK
<1>4. \A g \in Goroutines : pc[g] \notin {"inspecting", "sweeping"}
  BY <1>1 DEF IInv, GateExcludes
<1>5. \A d \in Calls : call'[d] = call[d] \/ (d = c /\ call'[d] = x)
  BY DEF IInv, TypeOK
<1>6. TypeOK'
  BY <1>2, <1>5 DEF IInv, TypeOK, GateOK, PcType, lease, sweep
<1>7. CommandsOwnLease'
  BY <1>3 DEF IInv, CommandsOwnLease, lease, Goroutines
<1>8. LeaseShape' /\ SweepMissesNothing' /\ ProcessShape'
  BY <1>1, <1>3, <1>4 DEF IInv, LeaseShape, SweepMissesNothing, ProcessShape, lease, Up
<1>9. Connected' /\ CallsUnderLease'
  BY <1>1, <1>5 DEF IInv, Connected, CallsUnderLease, Alive, lease, Up
<1>10. QED
  BY <1>2, <1>6, <1>7, <1>8, <1>9 DEF IInv, GateOK

LEMMA DialStep ==
  ASSUME IInv, NEW h \in Handlers, NEW c \in Calls, NEW l \in Lines, Dial(h, c, l)
  PROVE  IInv'
<1>1. [phase |-> "live", line |-> l, by |-> who[h]] \in CallType
  BY DEF IInv, TypeOK, CallType
<1>2. QED
  BY <1>1, ConnectStep DEF Dial

LEMMA AnswerStep ==
  ASSUME IInv, NEW h \in Handlers, NEW c \in Calls, Answer(h, c)
  PROVE  IInv'
<1> DEFINE x == [call[c] EXCEPT !.phase = "live", !.by = who[h]]
<1>1. x \in CallType /\ x.by = who[h]
  BY DEF IInv, TypeOK, CallType
<1>2. call' = [call EXCEPT ![c] = x]
  BY DEF Answer
<1> HIDE DEF x
<1>3. QED
  BY <1>1, <1>2, ConnectStep DEF Answer

\* A writer announces itself: the only one.
LEMMA AnnounceStep ==
  ASSUME IInv, NEW g \in Goroutines, Announce(g), agent \in {"serving", "stopping"},
         UNCHANGED <<lease, sweep, call>>,
         agent' \in {"serving", "stopping"},
         who' \in [Handlers -> Controllers \cup {None}],
         \A h \in Handlers : who'[h] = who[h] \/ h = g
  PROVE  IInv'
<1>1. /\ pc' = [pc EXCEPT ![g] = "pending"]
      /\ \A x \in Goroutines : ~Writing(x)
      /\ pc[g] = "idle"
  BY DEF Announce, Announced
<1>2. /\ pc' \in [Goroutines -> PcType]
      /\ pc'[g] = "pending"
      /\ \A x \in Goroutines : x # g => pc'[x] = pc[x]
  BY <1>1 DEF IInv, TypeOK, PcType
<1>3. GateOK'
  <2>1. \A x \in Goroutines : Writing(x)' => x = g
    BY <1>1, <1>2 DEF Writing
  <2>2. \A x \in Goroutines : pc'[x] \notin {"inspecting", "sweeping"}
    BY <1>1, <1>2 DEF Writing
  <2>3. \A x \in {Ticker, Main} : ~Reading(x)' /\ pc'[x] # "blocked"
    BY <1>2 DEF IInv, GateExcludes, Reading, Goroutines
  <2>4. QED
    BY <1>2, <2>1, <2>2, <2>3 DEF GateOK, GateExcludes
<1>4. TypeOK'
  BY <1>2 DEF IInv, TypeOK, PcType, lease, sweep
<1>5. CommandsOwnLease'
  <2>1. \A h \in Handlers : pc'[h] = "running" => pc[h] = "running" /\ who'[h] = who[h]
    BY <1>2 DEF Goroutines
  <2>2. QED
    BY <2>1 DEF IInv, CommandsOwnLease, lease
<1>6. LeaseShape' /\ ProcessShape' /\ SweepMissesNothing'
  BY <1>1, <1>2 DEF IInv, LeaseShape, ProcessShape, SweepMissesNothing, lease, sweep,
    Writing, Alive, Up
<1>7. QED
  BY <1>3, <1>4, <1>5, <1>6 DEF IInv, GateOK, Connected, CallsUnderLease, lease, Alive, Up

\* The exclusive side is given back with nothing done, or the lease is taken
\* while no command runs.
LEMMA LockedStep ==
  ASSUME IInv, NEW g \in Goroutines, Locked(g)
  PROVE  IInv'
<1>1. /\ Up /\ Writing(g) /\ pc[g] = "pending"
      /\ \A h \in Handlers : ~Reading(h)
      /\ UNCHANGED <<agent, who, sweep, call>>
  BY DEF Locked, IInv, ProcessShape, Writing
<1>2. CASE pc' = Unlocked(g) /\ UNCHANGED lease
  <2>1. GateOK' /\ \A x \in Goroutines : ~Writing(x)'
    BY <1>1, <1>2, GateUnlock DEF IInv, TypeOK, GateOK, PcType
  <2>2. \A h \in Handlers : pc'[h] = "running" => pc[h] = "running"
    BY <1>1, <1>2, GateUnlock DEF IInv, TypeOK, GateOK, PcType
  <2>3. TypeOK'
    BY <1>1, <1>2, <2>1 DEF IInv, TypeOK, GateOK, PcType, lease, sweep
  <2>4. LeaseShape' /\ ProcessShape' /\ SweepMissesNothing'
    BY <1>1, <1>2, <2>1 DEF IInv, LeaseShape, ProcessShape, SweepMissesNothing,
      lease, Writing, Up
  <2>5. QED
    BY <1>1, <1>2, <2>1, <2>2, <2>3, <2>4 DEF IInv, GateOK, CommandsOwnLease,
      Connected, CallsUnderLease, lease, Alive, Up
<1>3. CASE /\ pc' = [pc EXCEPT ![g] = "inspecting"]
           /\ controller' = None /\ left' = 0 /\ expiring' = TRUE
           /\ closed' = (closed \/ g = Main)
  <2>1. GateOK'
    BY <1>1, <1>3, GateMove DEF IInv, TypeOK, GateOK, PcType
  <2>2. pc'[g] = "inspecting" /\ \A x \in Goroutines : x # g => pc'[x] = pc[x]
    BY <1>3 DEF IInv, TypeOK
  <2>3. TypeOK'
    BY <1>1, <1>3, <2>1, ControlAssumption DEF IInv, TypeOK, GateOK, PcType, sweep
  <2>4. CommandsOwnLease'
    BY <1>1, <2>2 DEF CommandsOwnLease, Reading, Goroutines
  <2>5. LeaseShape' /\ ProcessShape' /\ CallsUnderLease'
    BY <1>1, <1>3 DEF IInv, LeaseShape, ProcessShape, CallsUnderLease, Up
  <2>6. SweepMissesNothing' /\ Connected'
    BY <1>1, <2>2 DEF IInv, SweepMissesNothing, Connected, sweep, Alive
  <2>7. QED
    BY <2>1, <2>3, <2>4, <2>5, <2>6 DEF IInv, GateOK
<1>4. QED
  BY <1>2, <1>3 DEF Locked

\* The owner of the exclusive side takes its snapshot, or fails to.
LEMMA InspectStep ==
  ASSUME IInv, NEW g \in Goroutines, Inspect(g) \/ InspectFails(g)
  PROVE  IInv'
<1>1. /\ pc' = [pc EXCEPT ![g] = "sweeping"] /\ pc[g] = "inspecting"
      /\ UNCHANGED <<agent, lease, who, call>>
      /\ todo' \subseteq Calls /\ err' \in BOOLEAN /\ fault' \in BOOLEAN
      /\ err' \/ \A c \in Calls : Alive(c) => c \in todo'
  BY DEF Inspect, InspectFails, Ongoing, Alive
<1>2. Writing(g) /\ \A h \in Handlers : ~Reading(h)
  BY <1>1 DEF IInv, GateExcludes, Writing
<1>3. GateOK'
  BY <1>1, <1>2, GateMove DEF IInv, TypeOK, GateOK, PcType
<1>4. pc'[g] = "sweeping" /\ \A x \in Goroutines : x # g => pc'[x] = pc[x]
  BY <1>1 DEF IInv, TypeOK
<1>5. TypeOK'
  BY <1>1, <1>3 DEF IInv, TypeOK, GateOK, PcType, lease
<1>6. CommandsOwnLease'
  BY <1>1, <1>2, <1>4 DEF CommandsOwnLease, Reading, Goroutines
<1>7. LeaseShape' /\ ProcessShape'
  BY <1>1, <1>4 DEF IInv, LeaseShape, ProcessShape, lease, Up
<1>8. SweepMissesNothing'
  BY <1>1, <1>2, <1>4 DEF IInv, GateExcludes, SweepMissesNothing, Writing, Alive
<1>9. QED
  BY <1>1, <1>3, <1>5, <1>6, <1>7, <1>8 DEF IInv, GateOK, Connected,
    CallsUnderLease, lease, Alive, Up

\* One call of the sweep: whatever is crossed off is over, or the sweep has an
\* error.
LEMMA HangStep ==
  ASSUME IInv, NEW g \in Goroutines, pc[g] = "sweeping",
         UNCHANGED <<agent, lease, pc, who>>,
         CallsEnd, todo' \subseteq todo, err' \in BOOLEAN, fault' \in BOOLEAN,
         err => err', err' \/ \A c \in todo \ todo' : ~Alive(c)'
  PROVE  IInv'
<1>1. TypeOK'
  BY DEF IInv, TypeOK, CallsEnd, lease
<1>2. SweepMissesNothing'
  BY DEF IInv, TypeOK, SweepMissesNothing, CallsEnd
<1>3. QED
  BY <1>1, <1>2 DEF IInv, GateExcludes, CommandsOwnLease, LeaseShape, ProcessShape,
    Connected, CallsUnderLease, CallsEnd, lease, Writing, Reading, Up

LEMMA SweepCallStep ==
  ASSUME IInv, NEW g \in Goroutines, NEW c \in Calls,
         \/ HangsUp(g, c) \/ NotFound(g, c) \/ Forced(g, c)
         \/ Terminated(g, c) \/ HangupFails(g, c)
  PROVE  IInv'
<1>1. TypeOK /\ (UNCHANGED call => CallsEnd)
  BY DEF IInv, TypeOK, CallsEnd, Alive
<1>2. CASE HangsUp(g, c)
  BY <1>1, <1>2, HangUpEnds, HangStep DEF HangsUp, TypeOK
<1>3. CASE NotFound(g, c)
  <2>1. ~Alive(c)'
    BY <1>3 DEF NotFound, Alive
  <2>2. QED
    BY <1>1, <1>3, <2>1, HangStep DEF NotFound, TypeOK
<1>4. CASE Forced(g, c)
  BY <1>1, <1>4, ResetEnds, HangStep DEF Forced, SkipLine, TypeOK
<1>5. CASE Terminated(g, c)
  BY <1>1, <1>5, HangStep DEF Terminated, SkipLine, TypeOK
<1>6. CASE HangupFails(g, c)
  BY <1>1, <1>6, HangStep DEF HangupFails, SkipLine, TypeOK
<1>7. QED
  BY <1>2, <1>3, <1>4, <1>5, <1>6

\* The end of a sweep: without an error no connected call is left.
LEMMA FinishStep ==
  ASSUME IInv, NEW g \in Goroutines, Finish(g)
  PROVE  IInv'
<1>1. /\ pc[g] = "sweeping" /\ Writing(g) /\ todo = {}
      /\ UNCHANGED <<controller, left, closed, who, sweep, call>>
  BY DEF Finish, Writing
<1>2. GateOK' /\ \A x \in Goroutines : ~Writing(x)'
  BY <1>1, GateUnlock DEF Finish, IInv, TypeOK, GateOK, PcType
<1>3. \A h \in Handlers : pc[h] # "running" /\ pc'[h] # "running"
  BY <1>1, GateUnlock DEF Finish, IInv, TypeOK, GateOK, PcType, GateExcludes, Reading
<1>4. ~err => \A c \in Calls : ~Alive(c)
  BY <1>1 DEF IInv, SweepMissesNothing
<1>5. TypeOK'
  BY <1>1, <1>2 DEF Finish, IInv, TypeOK, GateOK, PcType, sweep
<1>6. LeaseShape' /\ SweepMissesNothing'
  BY <1>1, <1>2 DEF Finish, IInv, TypeOK, LeaseShape, SweepMissesNothing, Writing
<1>7. ProcessShape'
  <2>1. CASE agent = "recovering"
    <3>1. g = Main /\ \A x \in Goroutines : x # g => pc[x] = "idle"
      BY <1>1, <2>1 DEF IInv, ProcessShape, Up
    <3>2. \A x \in Goroutines : pc'[x] = "idle"
      BY <3>1 DEF Finish, Unlocked
    <3>3. QED
      BY <1>1, <2>1, <3>2 DEF Finish, IInv, ProcessShape, Up
  <2>2. CASE agent # "recovering"
    BY <1>1, <2>2 DEF Finish, IInv, ProcessShape, Up
  <2>3. QED
    BY <2>1, <2>2
<1>8. CallsUnderLease' /\ Connected'
  <2>1. CASE err
    <3>1. Up' => Up /\ expiring
      BY <1>1, <2>1 DEF Finish, Clean, IInv, LeaseShape, Up
    <3>2. QED
      BY <1>1, <2>1, <3>1 DEF Finish, Clean, IInv, CallsUnderLease, Connected, Alive
  <2>2. CASE ~err
    BY <1>1, <1>4, <2>2 DEF CallsUnderLease, Connected, Alive
  <2>3. QED
    BY <2>1, <2>2
<1>9. QED
  BY <1>2, <1>3, <1>5, <1>6, <1>7, <1>8 DEF IInv, GateOK, CommandsOwnLease

\* A process starts with recovery and nothing else, and stops with nothing.
LEMMA ProcessStep ==
  ASSUME IInv, Launch \/ Exit
  PROVE  IInv'
<1>1. /\ agent' \in {"down", "recovering"}
      /\ controller' = None /\ left' = 0 /\ expiring' = FALSE /\ closed' = FALSE
      /\ who' = [h \in Handlers |-> None]
      /\ todo' = {} /\ err' = FALSE /\ fault' = FALSE
      /\ UNCHANGED call
  BY DEF Launch, Exit, Fresh
<1>2. /\ pc' \in [Goroutines -> {"idle", "inspecting"}]
      /\ \A g \in Goroutines : pc'[g] = "idle" \/ (g = Main /\ agent' = "recovering")
  BY DEF Launch, Exit, Fresh
<1>3. TypeOK'
  <2>1. left' \in 0..Duration
    BY <1>1, ControlAssumption
  <2>2. QED
    BY <1>1, <1>2, <2>1 DEF IInv, TypeOK
<1>4. GateExcludes'
  BY <1>2, ControlAssumption DEF GateExcludes, Writing, Reading, Goroutines
<1>5. CommandsOwnLease' /\ LeaseShape' /\ ProcessShape' /\ SweepMissesNothing'
  BY <1>1, <1>2 DEF CommandsOwnLease, LeaseShape, ProcessShape, SweepMissesNothing,
    Up, Goroutines
<1>6. Connected' /\ CallsUnderLease'
  BY <1>1 DEF IInv, Connected, CallsUnderLease, Alive, Up
<1>7. QED
  BY <1>3, <1>4, <1>5, <1>6 DEF IInv

LEMMA SweepStep ==
  ASSUME IInv, NEW g \in Goroutines, Sweep(g)
  PROVE  IInv'
BY LockedStep, InspectStep, SweepCallStep, FinishStep DEF Sweep

LEMMA CommandStep ==
  ASSUME IInv, NEW h \in Handlers, Command(h)
  PROVE  IInv'
<1>1. CASE \E a \in Controllers : Enter(h, a)
  BY <1>1, EnterStep
<1>2. CASE \E a \in Controllers : Release(h, a)
  <2>1. /\ Announce(h) /\ h \in Goroutines /\ agent \in {"serving", "stopping"}
        /\ UNCHANGED <<agent, lease, sweep, call>>
        /\ who' \in [Handlers -> Controllers \cup {None}]
        /\ \A x \in Handlers : who'[x] = who[x] \/ x = h
    BY <1>2 DEF Release, Up, IInv, TypeOK, Goroutines
  <2>2. QED
    BY <2>1, AnnounceStep
<1>3. CASE Check(h) \/ Leave(h)
  BY <1>3, CheckStep, LeaveStep
<1>4. CASE \E c \in Calls : Answer(h, c) \/ \E l \in Lines : Dial(h, c, l)
  BY <1>4, AnswerStep, DialStep
<1>5. QED
  BY <1>1, <1>2, <1>3, <1>4 DEF Command

\* Every step of the agent, its modem and its clients keeps the invariant.
THEOREM NextInvariant == IInv /\ [Next]_vars => IInv'
<1> SUFFICES ASSUME IInv, [Next]_vars PROVE IInv'
  OBVIOUS
<1>1. CASE \E a \in Controllers : Renew(a)
  BY <1>1, RenewStep
<1>2. CASE \E h \in Handlers : Command(h)
  BY <1>2, CommandStep
<1>3. CASE \E g \in Goroutines : Sweep(g)
  BY <1>3, SweepStep
<1>4. CASE Expire
  <2>1. Ticker \in Goroutines
    BY DEF Goroutines
  <2>2. QED
    BY <1>4, <2>1, AnnounceStep DEF Expire, Up, IInv, TypeOK
<1>5. CASE Stop
  <2>1. Main \in Goroutines
    BY DEF Goroutines
  <2>2. QED
    BY <1>5, <2>1, AnnounceStep DEF Stop, IInv, TypeOK
<1>6. CASE Tick
  BY <1>6, TickStep
<1>7. CASE Launch \/ Exit
  BY <1>7, ProcessStep
<1>8. CASE Outside
  BY <1>8, OutsideStep
<1>9. CASE UNCHANGED vars
  BY <1>9 DEF vars, IInv, TypeOK, GateExcludes, CommandsOwnLease, LeaseShape,
    ProcessShape, SweepMissesNothing, Connected, CallsUnderLease, Writing,
    Reading, Alive, Up
<1>10. QED
  BY <1>1, <1>2, <1>3, <1>4, <1>5, <1>6, <1>7, <1>8, <1>9 DEF Next

-----------------------------------------------------------------------------
(* The theorems                                                            *)

\* The inductive invariant holds in every reachable state.
THEOREM Invariant == Spec => []IInv
BY InitInvariant, NextInvariant, PTL DEF Spec

\* Every variable keeps its type.
THEOREM TypeCorrect == Spec => []TypeOK
<1>1. IInv => TypeOK
  BY DEF IInv
<1>2. QED
  BY <1>1, Invariant, PTL

\* A connected call belongs to the holder of the lease or is about to be hung
\* up, whatever expires, fails, is released or restarts.
THEOREM OrphansAreCleaned == Spec => []CallsUnderLease
<1>1. IInv => CallsUnderLease
  BY DEF IInv
<1>2. QED
  BY <1>1, Invariant, PTL

-----------------------------------------------------------------------------
(* The manager implements the abstract lease                               *)

User(c) == IF Alive(c) THEN call[c].by ELSE None

\* Steps that only end calls are disconnections.
LEMMA EndsDisconnect ==
  ASSUME IInv, CallsEnd, UNCHANGED controller
  PROVE  Leased!Next
<1>1. PICK S \in SUBSET Calls : \A c \in Calls : c \in S <=> call'[c].phase # "live"
  <2>1. {c \in Calls : call'[c].phase # "live"} \in SUBSET Calls
    OBVIOUS
  <2>2. QED
    BY <2>1
<1>2. \A c \in Calls : User(c)' = IF c \in S THEN None ELSE User(c)
  BY <1>1 DEF CallsEnd, User, Alive
<1>3. Leased!Disconnect(S)
  BY <1>2 DEF Leased!Disconnect, User
<1>4. QED
  BY <1>3 DEF Leased!Next

\* A call is connected by the holder, and was connected to nobody before.
LEMMA ConnectsForHolder ==
  ASSUME IInv, NEW h \in Handlers, NEW c \in Calls,
         pc[h] = "running", ~Alive(c), UNCHANGED controller,
         Alive(c)', call'[c].by = who[h],
         \A d \in Calls \ {c} : call'[d] = call[d]
  PROVE  Leased!Next
<1>1. controller # None /\ who[h] = controller
  BY DEF IInv, CommandsOwnLease
<1>2. \A d \in Calls : User(d)' = IF d = c THEN controller ELSE User(d)
  BY <1>1 DEF User, Alive
<1>3. User(c) = None
  BY DEF User
<1>4. Leased!Connect(c)
  BY <1>1, <1>2, <1>3 DEF Leased!Connect, User
<1>5. QED
  BY <1>4 DEF Leased!Next

\* Every step is a step of the abstract lease, or invisible to it.
LEMMA StepImplements ==
  ASSUME IInv, [Next]_vars
  PROVE  [Leased!Next]_Leased!vars
<1>1. CASE UNCHANGED <<controller, call>>
  BY <1>1 DEF Leased!vars, Alive
<1>2. CASE UNCHANGED call /\ controller' = None
  BY <1>2 DEF Leased!Next, Leased!Revoke, Alive
<1>3. CASE \E a \in Controllers : Renew(a)
  <2>1. PICK a \in Controllers : Renew(a)
    BY <1>3
  <2>2. CASE controller = a
    BY <1>1, <2>1, <2>2 DEF Renew
  <2>3. CASE controller # a
    <3>1. controller = None /\ ~expiring /\ Up
      BY <2>1, <2>3 DEF Renew, Renewable
    <3>2. \A c \in Calls : ~Alive(c)
      BY <3>1 DEF IInv, CallsUnderLease, Connected
    <3>3. Leased!Grant(a)
      BY <2>1, <3>1, <3>2 DEF Renew, Leased!Grant, Alive
    <3>4. QED
      BY <3>3 DEF Leased!Next
  <2>4. QED
    BY <2>2, <2>3
<1>4. CASE Outside
  <2>1. CallsEnd
    BY <1>4, HangUpEnds, ResetEnds, ArriveEnds, ForgetEnds DEF Outside, IInv
  <2>2. QED
    BY <1>4, <2>1, EndsDisconnect DEF Outside, lease
<1>5. CASE \E h \in Handlers : Command(h)
  <2>1. PICK h \in Handlers : Command(h)
    BY <1>5
  <2>2. CASE \E a \in Controllers : Enter(h, a) \/ Release(h, a)
    BY <1>1, <2>2 DEF Enter, Release, lease
  <2>3. CASE Check(h) \/ Leave(h)
    BY <1>1, <2>3 DEF Check, Leave, lease
  <2>4. ASSUME NEW c \in Calls, NEW l \in Lines, Dial(h, c, l)
        PROVE  Leased!Next
    BY <2>4, ConnectsForHolder DEF Dial, Alive, lease, IInv, TypeOK
  <2>5. ASSUME NEW c \in Calls, Answer(h, c)
        PROVE  Leased!Next
    <3>1. call'[c].phase = "live" /\ call'[c].by = who[h]
      BY <2>5 DEF Answer, IInv, TypeOK, CallType
    <3>2. QED
      BY <2>5, <3>1, ConnectsForHolder DEF Answer, Alive, lease, IInv, TypeOK
  <2>6. QED
    BY <2>1, <2>2, <2>3, <2>4, <2>5 DEF Command
<1>6. CASE \E g \in Goroutines : Sweep(g)
  <2>1. PICK g \in Goroutines : Sweep(g)
    BY <1>6
  <2>2. CASE Locked(g)
    BY <1>1, <1>2, <2>2 DEF Locked, lease
  <2>3. CASE Inspect(g) \/ InspectFails(g) \/ Finish(g)
    BY <1>1, <2>3 DEF Inspect, InspectFails, Finish, lease
  <2>4. ASSUME NEW c \in Calls,
               \/ HangsUp(g, c) \/ NotFound(g, c) \/ Forced(g, c)
               \/ Terminated(g, c) \/ HangupFails(g, c)
        PROVE  [Leased!Next]_Leased!vars
    <3>1. UNCHANGED controller /\ (UNCHANGED call \/ HangUp(c) \/ Reset(c))
      BY <2>4 DEF HangsUp, NotFound, Forced, Terminated, HangupFails, lease
    <3>2. UNCHANGED call \/ CallsEnd
      BY <3>1, HangUpEnds, ResetEnds DEF IInv
    <3>3. QED
      BY <1>1, <3>1, <3>2, EndsDisconnect
  <2>5. QED
    BY <2>1, <2>2, <2>3, <2>4 DEF Sweep
<1>7. CASE Expire \/ Stop \/ Tick
  BY <1>1, <1>7 DEF Expire, Stop, Tick, lease
<1>8. CASE Launch \/ Exit
  BY <1>2, <1>8 DEF Launch, Exit, Fresh
<1>9. CASE UNCHANGED vars
  BY <1>1, <1>9 DEF vars
<1>10. QED
  BY <1>3, <1>4, <1>5, <1>6, <1>7, <1>8, <1>9 DEF Next

\* The agent implements the abstract lease: only the holder connects calls and
\* nobody takes over while a call of somebody else is connected.
THEOREM Implementation == Spec => ImplementsLease
<1>1. Init => Leased!Init
  <2> SUFFICES ASSUME Init PROVE Leased!Init
    OBVIOUS
  <2>1. TypeOK
    BY InitInvariant DEF IInv
  <2>2. QED
    BY <2>1 DEF Init, Leased!Init, TypeOK, CallType
<1>2. IInv /\ [Next]_vars => [Leased!Next]_Leased!vars
  BY StepImplements
<1>3. QED
  BY <1>1, <1>2, Invariant, PTL DEF Spec, ImplementsLease, Leased!Spec

=============================================================================
