------------------------------ MODULE CallLease ------------------------------
(***************************************************************************)
(* The call ownership manager of internal/calllease/manager.go, from the   *)
(* preparation of an outgoing call or the first sight of an incoming one   *)
(* to the removal of its ownership record.                                 *)
(*                                                                         *)
(* The manager keeps one slice of records behind one mutex.  Four kinds of *)
(* goroutine reach it: HTTP handlers (reserve, begin, activate, claim,     *)
(* renew, require, cancel, release, revoke), the media core (connected,    *)
(* disconnected), the call coordinator (one complete snapshot at a time)   *)
(* and the expiry ticker of Run.  Several handlers read the database       *)
(* projection BEFORE they take the mutex, so each of those is two actions: *)
(* the read, and the locked part that works with what was read.            *)
(*                                                                         *)
(* A record pointer of the code is a slot here: a slot is not reused while *)
(* some goroutine still holds the old pointer.  Deadlines are the number   *)
(* of ticks left, so "now is not before d" is "d = 0".                     *)
(***************************************************************************)
EXTENDS Integers, FiniteSets

CONSTANTS
  Holders,        \* authenticated session scopes (Owner.HolderID)
  Groups,         \* sets of holders one revocation reaches: a holder, a user
  Requests,       \* outgoing preparations, by the id of their reservation
  Named,          \* preparations whose client sent a request_id of its own
  Calls,          \* application call identifiers
  Lines,          \* line identifiers
  Slots,          \* record pointers
  Threads,        \* HTTP handler goroutines
  None,           \* the empty string
  RestartOrphan,  \* restartOrphanHolderID
  OpenPhases,     \* the open phases a call may show (all three in the code)
  Grace,          \* the orphan window (Options.Duration), in ticks
  PrepareWindow,  \* the longest pre-dial window (RenewOutgoing), in ticks
  MaxRelisted     \* bound: relisted rows at a time

ASSUME LeaseAssumption ==
  /\ None \notin Holders \cup Requests \cup Calls \cup Lines
  /\ RestartOrphan \notin Holders \cup {None}
  /\ Groups \subseteq SUBSET Holders
  /\ Named \subseteq Requests
  /\ OpenPhases \subseteq {"ringing", "live", "unknown"}
  /\ Grace \in Nat \ {0}
  /\ PrepareWindow \in Nat /\ PrepareWindow >= Grace
  /\ MaxRelisted \in Nat

VARIABLES
  rec,           \* the records slice, by pointer
  initialized,   \* a complete snapshot has been reconciled
  calls,         \* the committed call projection (call_history)
  handler,       \* what each handler read before it takes the mutex
  coord,         \* where the coordinator is in ReconcileAuthoritativeCalls
  todo,          \* snapshot calls the locked loop has not visited
  missing,       \* <<record, call>> pairs to verify against the database
  expired,       \* <<record, call>> pairs Run has still to end
  endRequested,  \* calls handed to EndCall
  inherited      \* history: calls that were open when the process started

vars == <<rec, initialized, calls, handler, coord, todo, missing, expired,
          endRequested, inherited>>

-----------------------------------------------------------------------------
(* Records and rows                                                        *)

NoDeadline == -1

NoRecord ==
  [req |-> None, call |-> None, line |-> None, holder |-> None,
   orphanAt |-> NoDeadline, prepareUntil |-> 0, mediaAlive |-> FALSE,
   preparing |-> FALSE, dispatching |-> FALSE, revoked |-> FALSE,
   ending |-> FALSE]

NoRow == [direction |-> None, line |-> None, req |-> None, phase |-> "absent"]

\* Phases are kept only as far as the manager tells them apart: "live" stands
\* for dialing, ringing-out, connecting and active.  A "relisted" row was
\* closed while the modem had the call (a quarantine took it out of the
\* snapshot) and has an open phase again: CallByID shows that phase, but its
\* ended_at stays, and ActiveCalls leaves it out.
Tracked(c) == calls[c].phase \in {"ringing", "live", "unknown"}
Closed == {c \in Calls : calls[c].phase \in {"ended", "relisted"}}
Leaseable(c) == calls[c].phase \in {"ringing", "live", "relisted"}
Unclaimed(row) == row.direction = "incoming" /\ row.phase = "ringing"

\* What a handler may read of that; a relisted call may be ringing.
UnclaimedRead(row) ==
  IF row.phase = "relisted" THEN {FALSE, row.direction = "incoming"}
  ELSE {Unclaimed(row)}

Live == {s \in Slots : rec[s].line # None}

\* Pointers somebody still holds keep their slot.
FreeSlots ==
  {s \in Slots \ Live : \A c \in Calls : <<s, c>> \notin missing \cup expired}

BlocksLine(r) ==
  r.holder # None \/ r.req # None \/ r.orphanAt # NoDeadline \/ r.ending

Unlocked == coord # "binding"

Idle == [kind |-> "idle", holder |-> None, req |-> None, call |-> None,
         line |-> None, clear |-> FALSE]

Done(t) == handler' = [handler EXCEPT ![t] = Idle]

-----------------------------------------------------------------------------
(* Handlers that read the database first                                   *)

\* ActiveCalls, read before the manager is locked: is the line free in it?
ReadForPrepare(t, h, r, l) ==
  /\ handler[t] = Idle
  /\ handler' = [handler EXCEPT ![t] =
       [Idle EXCEPT !.kind = "prepare", !.holder = h, !.req = r, !.line = l,
                    !.clear = ~\E c \in Calls : Tracked(c) /\ calls[c].line = l]]
  /\ UNCHANGED <<rec, initialized, calls, coord, todo, missing, expired,
                 endRequested, inherited>>

\* leaseableCall, read before the manager is locked.  A call is activated only
\* for the preparation whose start has just dialled it.
ReadCall(t, kind, h, r, c) ==
  /\ handler[t] = Idle
  /\ Leaseable(c)
  /\ kind = "activate" => calls[c].req = r
  /\ \E clear \in UnclaimedRead(calls[c]) :
       handler' = [handler EXCEPT ![t] =
         [Idle EXCEPT !.kind = kind, !.holder = h, !.req = r, !.call = c,
                      !.line = calls[c].line, !.clear = clear]]
  /\ UNCHANGED <<rec, initialized, calls, coord, todo, missing, expired,
                 endRequested, inherited>>

\* Mutant: a reservation is refused for its request and its session only.
PrepareAnyLine(o) ==
  ~o.clear \/ \E s \in Live : rec[s].req = o.req \/ rec[s].holder = o.holder

PrepareRefused(o) ==
  \/ ~o.clear
  \/ \E s \in Live : \/ rec[s].req = o.req
                     \/ rec[s].line = o.line
                     \/ rec[s].holder = o.holder

\* PrepareOutgoingFor -> reserveOutgoingFor(prepared = true), locked part.  A
\* repeated request changes nothing, whether it is answered or refused.
Prepare(t) ==
  LET o == handler[t] IN
  /\ Unlocked
  /\ o.kind = "prepare"
  /\ Done(t)
  /\ \/ PrepareRefused(o) /\ UNCHANGED rec
     \/ /\ ~PrepareRefused(o)
        /\ \E s \in FreeSlots :
             rec' = [rec EXCEPT ![s] =
               [NoRecord EXCEPT !.req = o.req, !.line = o.line,
                                !.holder = o.holder, !.preparing = TRUE,
                                !.prepareUntil = Grace]]
  /\ UNCHANGED <<initialized, calls, coord, todo, missing, expired,
                 endRequested, inherited>>

\* The checks of ActivateOutgoing on the reservation itself.
Activatable(s, o) ==
  /\ rec[s].req = o.req /\ rec[s].holder = o.holder /\ rec[s].line = o.line
  /\ rec[s].call \in {None, o.call}
  /\ ~rec[s].ending /\ ~rec[s].revoked
  /\ rec[s].preparing => rec[s].prepareUntil > 0

\* Mutant: activation does not look for another record of the call.
NoShadows(s, o) == {}

\* Another record already stands for the call.
Shadows(s, o) == {x \in Live \ {s} : rec[x].call = o.call}

\* ActivateOutgoing, locked part: an ownerless record for the same call gives
\* way before the remaining records are checked.
Activate(t) ==
  LET o == handler[t]
      Able == {s \in Live : Activatable(s, o) /\
                 \A x \in Shadows(s, o) : rec[x].holder = None /\ ~rec[x].ending}
  IN
  /\ Unlocked
  /\ o.kind = "activate"
  /\ Done(t)
  /\ \/ Able = {} /\ UNCHANGED rec
     \/ \E s \in Able :
          LET cleared == [x \in Slots |->
                IF x \in Shadows(s, o) THEN NoRecord ELSE rec[x]]
              blocked == \E x \in Live \ ({s} \cup Shadows(s, o)) :
                \/ rec[x].line = o.line /\ BlocksLine(rec[x])
                \/ rec[x].holder = o.holder
          IN rec' = IF blocked THEN cleared ELSE
               [cleared EXCEPT ![s] =
                  [rec[s] EXCEPT !.preparing = FALSE, !.dispatching = FALSE,
                                 !.call = o.call, !.orphanAt = Grace]]
  /\ UNCHANGED <<initialized, calls, coord, todo, missing, expired,
                 endRequested, inherited>>

\* Renew and Require, locked part: every owner command is a sign of life.
Refresh(t) ==
  LET o == handler[t]
      Own == {s \in Live : /\ rec[s].call = o.call
                           /\ rec[s].holder = o.holder
                           /\ ~rec[s].ending}
  IN
  /\ Unlocked
  /\ o.kind = "refresh"
  /\ Done(t)
  /\ rec' = [s \in Slots |->
               IF s \in Own THEN [rec[s] EXCEPT !.orphanAt = Grace] ELSE rec[s]]
  /\ UNCHANGED <<initialized, calls, coord, todo, missing, expired,
                 endRequested, inherited>>

\* Mutants: the loop forgets the line; it asks only for other sessions.
ClaimBlockedByHolder(c, h, l) ==
  \E x \in Live : rec[x].call # c /\ rec[x].holder = h
ClaimBlockedByOthers(c, h, l) ==
  \E x \in Live : /\ rec[x].call # c /\ rec[x].line = l
                 /\ BlocksLine(rec[x]) /\ rec[x].holder # h

\* The exclusion loop of ClaimFor over every record but the call's own.
ClaimBlocked(c, h, l) ==
  \E x \in Live :
    /\ rec[x].call # c
    /\ \/ rec[x].line = l /\ BlocksLine(rec[x])
       \/ rec[x].holder = h

\* ClaimFor, locked part.  The record is created before anything is checked,
\* so a refused claim may leave an ownerless record behind.
Claim(t) ==
  LET o == handler[t]
      admitted == o.clear /\ ~ClaimBlocked(o.call, o.holder, o.line)
  IN
  /\ Unlocked
  /\ o.kind = "claim"
  /\ Done(t)
  /\ \/ ~initialized /\ UNCHANGED rec
     \/ /\ initialized
        /\ \A s \in Live : rec[s].call # o.call
        /\ \E s \in FreeSlots :
             rec' = [rec EXCEPT ![s] =
               [NoRecord EXCEPT
                  !.call = o.call, !.line = o.line,
                  !.holder = IF admitted THEN o.holder ELSE None,
                  !.orphanAt = IF admitted THEN Grace ELSE NoDeadline]]
     \/ /\ initialized
        /\ \E s \in Live :
             /\ rec[s].call = o.call
             /\ IF rec[s].ending THEN UNCHANGED rec
                ELSE IF \/ rec[s].holder = o.holder
                        \/ rec[s].holder = None /\ admitted
                THEN rec' = [rec EXCEPT ![s].holder = o.holder,
                                        ![s].orphanAt = Grace]
                ELSE UNCHANGED rec
  /\ UNCHANGED <<initialized, calls, coord, todo, missing, expired,
                 endRequested, inherited>>

-----------------------------------------------------------------------------
(* Operations that only take the mutex                                     *)

\* One locked update of the record a caller named.
Update(s, r) ==
  /\ Unlocked
  /\ rec' = [rec EXCEPT ![s] = r]
  /\ UNCHANGED <<initialized, calls, handler, coord, todo, missing, expired>>

MediaReaches(s) == rec[s].call # None /\ rec[s].holder # None /\ ~rec[s].ending

MediaConnected(s) ==
  /\ MediaReaches(s)
  /\ Update(s, [rec[s] EXCEPT !.mediaAlive = TRUE])
  /\ UNCHANGED <<endRequested, inherited>>

MediaDisconnected(s) ==
  /\ MediaReaches(s)
  /\ Update(s, [rec[s] EXCEPT !.mediaAlive = FALSE, !.orphanAt = Grace])
  /\ UNCHANGED <<endRequested, inherited>>

\* An outgoing reservation that still answers to its holder.
Reservation(s, h) == s \in Live /\ rec[s].req # None /\ rec[s].holder = h

\* RequireOutgoing, RenewOutgoing and BeginOutgoing refuse what has been revoked.
Usable(s) == ~rec[s].revoked /\ ~rec[s].ending

RenewPreparation(s, h) ==
  /\ Reservation(s, h) /\ Usable(s)
  /\ rec[s].preparing /\ rec[s].prepareUntil > 0
  /\ Update(s, [rec[s] EXCEPT !.prepareUntil = PrepareWindow])
  /\ UNCHANGED <<endRequested, inherited>>

BeginOutgoing(s, h) ==
  /\ Reservation(s, h) /\ Usable(s)
  /\ rec[s].preparing /\ rec[s].prepareUntil > 0
  /\ Update(s, [rec[s] EXCEPT !.preparing = FALSE, !.dispatching = TRUE])
  /\ UNCHANGED <<endRequested, inherited>>

ReleaseOutgoing(s, h) ==
  /\ Reservation(s, h)
  /\ rec[s].call = None
  /\ Update(s, NoRecord)
  /\ UNCHANGED <<endRequested, inherited>>

AwaitOutgoingResolution(s, h) ==
  /\ Reservation(s, h)
  /\ rec[s].call = None
  /\ Update(s, [rec[s] EXCEPT !.orphanAt = Grace])
  /\ UNCHANGED <<endRequested, inherited>>

\* A deadline that is only set when there is none.
OrGrace(d) == IF d = NoDeadline THEN Grace ELSE d

\* CancelOutgoing; the call it returns is ended by its caller.
CancelOutgoing(s, h) ==
  LET r == [rec[s] EXCEPT !.revoked = TRUE, !.mediaAlive = FALSE] IN
  /\ Reservation(s, h)
  /\ UNCHANGED inherited
  /\ \/ rec[s].preparing
        /\ Update(s, NoRecord) /\ UNCHANGED endRequested
     \/ ~rec[s].preparing /\ rec[s].call # None
        /\ Update(s, [r EXCEPT !.ending = TRUE])
        /\ endRequested' = endRequested \cup {rec[s].call}
     \/ ~rec[s].preparing /\ rec[s].call = None
        /\ Update(s, [r EXCEPT !.orphanAt = OrGrace(@)])
        /\ UNCHANGED endRequested

\* RevokeHolder and RevokeSubject: every record of the group at once.  The
\* bound calls are returned and ended by the caller.
Revoke(group) ==
  LET Hit == {s \in Live : rec[s].holder \in group /\ ~rec[s].ending}
      revoked(r) ==
        IF r.call = None
        THEN [r EXCEPT !.mediaAlive = FALSE, !.revoked = TRUE,
                       !.orphanAt = OrGrace(@)]
        ELSE [r EXCEPT !.mediaAlive = FALSE, !.revoked = TRUE, !.ending = TRUE]
  IN
  /\ Unlocked
  /\ Hit # {}
  /\ rec' = [s \in Slots |-> IF s \in Hit THEN revoked(rec[s]) ELSE rec[s]]
  /\ endRequested' = endRequested \cup ({rec[s].call : s \in Hit} \ {None})
  /\ UNCHANGED <<initialized, calls, handler, coord, todo, missing, expired,
                 inherited>>

-----------------------------------------------------------------------------
(* The coordinator: commit one complete snapshot, then reconcile it        *)

Rows(l, rs) ==
  [direction : {"incoming"}, line : {l}, req : {None},
   phase : OpenPhases]
  \cup
  [direction : {"outgoing"}, line : {l}, req : rs,
   phase : OpenPhases \ {"ringing"}]

\* StartCall annotates the row of its call with its request; a call first seen
\* by another refresh has none.  A preparation dials one call.
DialedOn(l) ==
  {None} \cup {r \in Requests :
     /\ \E s \in Live : rec[s].req = r /\ rec[s].line = l /\ ~rec[s].preparing
     /\ \A c \in Calls : calls[c].req # r}

\* What one committed snapshot may make of a row.
Successors(c) ==
  CASE calls[c].phase = "absent" ->
         {NoRow} \cup UNION {Rows(l, DialedOn(l)) : l \in Lines}
    [] calls[c].phase \in {"ended", "relisted"} ->
         {[calls[c] EXCEPT !.phase = p] : p \in {"ended", "relisted"}}
    [] OTHER -> {[calls[c] EXCEPT !.phase = p] :
                   p \in {"ended", calls[c].phase} \cup
                         {q \in OpenPhases : q = "ringing" =>
                            calls[c].phase = "unknown" /\
                            calls[c].direction = "incoming"}}

\* commitSnapshotLocked: ApplyHardwareSnapshotWithResult, then ActiveCalls.
Commit ==
  /\ coord = "idle" /\ missing = {}
  /\ coord' = "captured"
  /\ \E next \in [Calls -> UNION {Successors(c) : c \in Calls}] :
       /\ \A c \in Calls : next[c] \in Successors(c)
       /\ \A c, d \in Calls :
            next[c].req = next[d].req /\ next[c].req # None => c = d
       /\ Cardinality({c \in Calls : next[c].phase = "relisted"}) <= MaxRelisted
       /\ calls' = next
  /\ UNCHANGED <<rec, initialized, handler, todo, missing, expired,
                 endRequested, inherited>>

\* ReconcileAuthoritativeCalls takes the mutex.
BeginReconcile ==
  /\ coord = "captured"
  /\ coord' = "binding"
  /\ todo' = {c \in Calls : Tracked(c)}
  /\ UNCHANGED <<rec, initialized, calls, handler, missing, expired,
                 endRequested, inherited>>

\* matchPendingCallLocked: by request, else the only pending record of the line.
\* A reservation is filed under the preparation's id, the row under the request
\* identifier of the start: the two are equal unless the client sent its own.
\* (In the model req is the preparation in both.)
ByRequest(c) ==
  {s \in Live : /\ rec[s].req = calls[c].req
                /\ calls[c].req \notin Named \cup {None}
                /\ ~rec[s].preparing /\ rec[s].call = None
                /\ rec[s].line = calls[c].line}
ByLine(c) ==
  {s \in Live : /\ calls[c].direction = "outgoing"
                /\ ~rec[s].preparing /\ rec[s].call = None
                /\ rec[s].line = calls[c].line}
MatchPending(c, allowLineMatch) ==
  IF ByRequest(c) # {} THEN ByRequest(c)
  ELSE IF allowLineMatch /\ \E s \in Slots : ByLine(c) = {s} THEN ByLine(c)
  ELSE {}

\* The deadline every visited record ends up with.
Settled(r, row) ==
  [r EXCEPT !.orphanAt =
     IF r.holder = None /\ Unclaimed(row) THEN NoDeadline ELSE OrGrace(@)]

Bound(r, c) ==
  [r EXCEPT !.call = c, !.orphanAt = IF r.revoked THEN 0 ELSE @]

\* Mutant: the first snapshot is treated like any other.
DiscoveredUnowned(c) == [NoRecord EXCEPT !.call = c, !.line = calls[c].line]

\* A call without a record: on the first snapshot it belongs to nobody who is
\* still there.
Discovered(c) ==
  [NoRecord EXCEPT
     !.call = c, !.line = calls[c].line,
     !.holder = IF initialized THEN None ELSE RestartOrphan,
     !.orphanAt = IF initialized THEN NoDeadline ELSE Grace]

\* One iteration of the locked loop over the snapshot.
BindCall(c) ==
  LET Found == {s \in Live : rec[s].call = c}
      Matched == MatchPending(c, initialized)
  IN
  /\ coord = "binding" /\ c \in todo
  /\ todo' = todo \ {c}
  /\ \/ \E s \in Found :
          rec' = [rec EXCEPT ![s] = Settled(rec[s], calls[c])]
     \/ /\ Found = {}
        /\ \E s \in Matched :
             rec' = [rec EXCEPT ![s] = Settled(Bound(rec[s], c), calls[c])]
     \/ /\ Found = {} /\ Matched = {}
        /\ \E s \in FreeSlots :
             rec' = [rec EXCEPT ![s] = Settled(Discovered(c), calls[c])]
  /\ inherited' = IF Found = {} /\ Matched = {} /\ ~initialized
                  THEN inherited \cup {c} ELSE inherited
  /\ UNCHANGED <<initialized, calls, handler, coord, missing, expired,
                 endRequested>>

\* Mutant: bound records with a deadline are dropped too.
ResolvedByDeadline(r) ==
  r.line # None /\ ~r.preparing /\ ~r.revoked /\ ~r.ending
    /\ r.orphanAt # NoDeadline

\* The snapshot proves an indeterminate reservation has no call.
ResolvedByAbsence(r) ==
  /\ r.call = None /\ r.line # None
  /\ ~r.preparing /\ ~r.revoked /\ ~r.ending /\ r.orphanAt # NoDeadline

\* The rest of the locked part: drop, collect what is missing, unlock.
FinishReconcile ==
  /\ coord = "binding" /\ todo = {}
  /\ coord' = "idle"
  /\ initialized' = TRUE
  /\ rec' = [s \in Slots |->
               IF ResolvedByAbsence(rec[s]) THEN NoRecord ELSE rec[s]]
  /\ missing' = {m \in Slots \X Calls : rec[m[1]].call = m[2] /\ ~Tracked(m[2])}
  /\ UNCHANGED <<calls, handler, todo, expired, endRequested, inherited>>

\* The unlocked read of a missing record's call, and the removal if the record
\* is still that record.  A failed read leaves it for the next snapshot.
VerifyMissing(s, c) ==
  /\ Unlocked
  /\ <<s, c>> \in missing
  /\ missing' = missing \ {<<s, c>>}
  /\ \/ UNCHANGED rec
     \/ ~Tracked(c) /\ calls[c].phase # "relisted"
        /\ rec[s].call = c /\ rec' = [rec EXCEPT ![s] = NoRecord]
  /\ UNCHANGED <<initialized, calls, handler, coord, todo, expired,
                 endRequested, inherited>>

-----------------------------------------------------------------------------
(* The ticker of Run, and time                                             *)

\* Mutants: a bound reservation lapses; a preparation does not; a record that
\* was revoked before it was bound is no orphan.
LapsedBound(r) ==
  /\ r.req # None
  /\ (r.preparing /\ r.prepareUntil = 0) \/ r.orphanAt = 0
LapsedOrphan(r) == r.call = None /\ r.req # None /\ r.orphanAt = 0
OrphanedUnrevoked(r) ==
  r.call # None /\ ~r.ending /\ ~r.mediaAlive /\ r.orphanAt = 0 /\ ~r.revoked

Lapsed(r) ==
  /\ r.call = None /\ r.req # None
  /\ (r.preparing /\ r.prepareUntil = 0) \/ r.orphanAt = 0
Orphaned(r) ==
  r.call # None /\ ~r.ending /\ ~r.mediaAlive /\ r.orphanAt = 0

\* expiredCalls: one locked pass over every record.
ExpireCalls ==
  /\ Unlocked /\ expired = {}
  /\ \E s \in Slots : Lapsed(rec[s]) \/ Orphaned(rec[s])
  /\ rec' = [s \in Slots |->
       CASE Lapsed(rec[s]) -> NoRecord
         [] Orphaned(rec[s]) -> [rec[s] EXCEPT !.ending = TRUE]
         [] OTHER -> rec[s]]
  /\ expired' = {e \in Slots \X Calls :
                   Orphaned(rec[e[1]]) /\ rec[e[1]].call = e[2]}
  /\ UNCHANGED <<initialized, calls, handler, coord, todo, missing,
                 endRequested, inherited>>

\* Mutant: the second look skips the records it is there for.
EndExpiredUnmarked(s, c) ==
  /\ Unlocked
  /\ <<s, c>> \in expired
  /\ expired' = expired \ {<<s, c>>}
  /\ endRequested' = IF rec[s].call = c /\ ~rec[s].ending
                     THEN endRequested \cup {c} ELSE endRequested
  /\ UNCHANGED <<rec, initialized, calls, handler, coord, todo, missing,
                 inherited>>

\* endExpiredCall: the pointer is checked again, and EndCall runs at most once.
EndExpired(s, c) ==
  /\ Unlocked
  /\ <<s, c>> \in expired
  /\ expired' = expired \ {<<s, c>>}
  /\ endRequested' = IF rec[s].call = c /\ rec[s].ending
                     THEN endRequested \cup {c} ELSE endRequested
  /\ UNCHANGED <<rec, initialized, calls, handler, coord, todo, missing,
                 inherited>>

Elapse(d) == IF d > 0 THEN d - 1 ELSE d

Tick ==
  /\ \E s \in Slots : rec[s].orphanAt > 0 \/ rec[s].prepareUntil > 0
  /\ rec' = [s \in Slots |->
       [rec[s] EXCEPT !.orphanAt = Elapse(@), !.prepareUntil = Elapse(@)]]
  /\ Unlocked
  /\ UNCHANGED <<initialized, calls, handler, coord, todo, missing, expired,
                 endRequested, inherited>>

-----------------------------------------------------------------------------
\* The process starts with no records over whatever the database projects.
Init ==
  /\ rec = [s \in Slots |-> NoRecord]
  /\ initialized = FALSE
  /\ calls \in [Calls -> {NoRow} \cup UNION {Rows(l, {None}) : l \in Lines}]
  /\ handler = [t \in Threads |-> Idle]
  /\ coord = "idle"
  /\ todo = {} /\ missing = {} /\ expired = {} /\ endRequested = {}
  /\ inherited = {c \in Calls : Tracked(c)}

Handle(t) ==
  \/ \E h \in Holders, r \in Requests, l \in Lines : ReadForPrepare(t, h, r, l)
  \/ \E h \in Holders, c \in Calls :
       \/ \E r \in Requests : ReadCall(t, "activate", h, r, c)
       \/ \E kind \in {"refresh", "claim"} : ReadCall(t, kind, h, None, c)
  \/ Prepare(t) \/ Activate(t) \/ Refresh(t) \/ Claim(t)

Outgoing(s, h) ==
  \/ RenewPreparation(s, h) \/ BeginOutgoing(s, h) \/ ReleaseOutgoing(s, h)
  \/ AwaitOutgoingResolution(s, h) \/ CancelOutgoing(s, h)

Reconcile ==
  \/ Commit \/ BeginReconcile \/ FinishReconcile
  \/ \E c \in Calls : BindCall(c)
  \/ \E s \in Slots, c \in Calls : VerifyMissing(s, c)

Run == ExpireCalls \/ \E s \in Slots, c \in Calls : EndExpired(s, c)

Next ==
  \/ \E t \in Threads : Handle(t)
  \/ \E s \in Slots, h \in Holders : Outgoing(s, h)
  \/ \E s \in Slots : MediaConnected(s) \/ MediaDisconnected(s)
  \/ \E group \in Groups : Revoke(group)
  \/ Reconcile \/ Run \/ Tick

Spec == Init /\ [][Next]_vars

-----------------------------------------------------------------------------
(* Properties                                                              *)

RecordType ==
  [req : Requests \cup {None}, call : Calls \cup {None},
   line : Lines \cup {None}, holder : Holders \cup {None, RestartOrphan},
   orphanAt : NoDeadline..Grace, prepareUntil : 0..PrepareWindow,
   mediaAlive : BOOLEAN, preparing : BOOLEAN, dispatching : BOOLEAN,
   revoked : BOOLEAN, ending : BOOLEAN]

RowType ==
  [direction : {"incoming", "outgoing", None}, line : Lines \cup {None},
   req : Requests \cup {None},
   phase : {"absent", "ringing", "live", "unknown", "ended", "relisted"}]

OpType ==
  [kind : {"idle", "prepare", "activate", "refresh", "claim"},
   holder : Holders \cup {None}, req : Requests \cup {None},
   call : Calls \cup {None}, line : Lines \cup {None}, clear : BOOLEAN]

TypeOK ==
  /\ rec \in [Slots -> RecordType]
  /\ initialized \in BOOLEAN
  /\ calls \in [Calls -> RowType]
  /\ handler \in [Threads -> OpType]
  /\ coord \in {"idle", "captured", "binding"}
  /\ todo \subseteq Calls
  /\ missing \subseteq Slots \X Calls
  /\ expired \subseteq Slots \X Calls
  /\ endRequested \subseteq Calls
  /\ inherited \subseteq Calls

\* One line has at most one session in control or preparing to dial, although
\* prepare and claim decide on database reads that may be stale.
OneOwnerPerLine ==
  \A s, x \in Live :
    rec[s].holder \in Holders /\ rec[x].holder \in Holders
      /\ rec[s].line = rec[x].line => s = x

\* One session owns at most one call or reservation, on any line.
OneRecordPerHolder ==
  \A s, x \in Live :
    rec[s].holder \in Holders /\ rec[s].holder = rec[x].holder => s = x

\* findCallLocked and findRequestLocked return the first match: there is never
\* a second one, so a call or a request has one ownership record.
OneRecordPerIdentity ==
  \A s, x \in Live :
    \/ rec[s].call # None /\ rec[s].call = rec[x].call
    \/ rec[s].req # None /\ rec[s].req = rec[x].req
    => s = x

\* ControlState as one session sees it (controlStateLocked).
ControlState(c, h) ==
  LET Own == {s \in Live : rec[s].call = c} IN
  IF ~initialized \/ \E s \in Own : rec[s].ending THEN "occupied"
  ELSE IF \E s \in Own : rec[s].holder # None
       THEN IF \E s \in Own : rec[s].holder = h THEN "owned" ELSE "occupied"
  ELSE IF ClaimBlocked(c, h, calls[c].line) THEN "occupied"
  ELSE IF Unclaimed(calls[c]) THEN "available" ELSE "occupied"

\* While some session owns a call of a line, no other session is shown any
\* call of that line as its own or as available (call waiting included).
ProjectionExcludes ==
  \A c, d \in Calls, g, h \in Holders :
    /\ Tracked(c) /\ Tracked(d) /\ calls[c].line = calls[d].line /\ g # h
    /\ ControlState(c, g) = "owned"
    => ControlState(d, h) = "occupied"

\* A call that was open when the process started, or that its first snapshot
\* brought, is occupied for every session until it ends.
InheritedStayOccupied ==
  \A c \in inherited, h \in Holders :
    Tracked(c) => ControlState(c, h) = "occupied"

Owner(c) == {rec[s].holder : s \in {x \in Slots : rec[x].call = c}} \ {None}
Ending(c) == \E s \in Slots : rec[s].call = c /\ rec[s].ending

\* Ownership is never transferred, dropped or revived before the committed
\* projection is terminal, whatever expires, is revoked or reconciles.
OwnershipIsFinal ==
  [][\A c \in Calls :
       Tracked(c)' => /\ Owner(c) # {} => Owner(c)' = Owner(c)
                      /\ Ending(c) => Ending(c)']_vars

\* The manager implements the contract of CallOwnership.
OwnerOf(c) ==
  LET own == {s \in Slots : rec[s].call = c /\ rec[s].holder # None} IN
  IF own = {} THEN None ELSE rec[CHOOSE s \in own : TRUE].holder

Contract ==
  INSTANCE CallOwnership WITH
    owner  <- [c \in Calls |-> OwnerOf(c)],
    ending <- {c \in Calls : Ending(c)},
    closed <- Closed,
    line   <- [c \in Calls |-> calls[c].line]

ImplementsContract == Contract!Spec

-----------------------------------------------------------------------------
(* The inductive invariant                                                 *)

\* Only a reservation has no call; nothing but a call is ending; a preparation
\* cannot be bound; a record stays on the line of its call.
RecordShape(r) ==
  /\ r.line = None => r = NoRecord
  /\ r.line # None /\ r.call = None => r.req # None /\ r.holder \in Holders
  /\ r.ending => r.call # None
  /\ r.preparing => r.call = None
  /\ r.call # None => r.line = calls[r.call].line

\* A handler remembers the line of the call it read; a line never changes.
HandlerShape(o) ==
  /\ o.kind # "idle" => o.holder \in Holders
  /\ o.kind = "prepare" => o.req \in Requests /\ o.line \in Lines
  /\ o.kind \in {"activate", "claim"} =>
       /\ o.call \in Calls
       /\ o.line = calls[o.call].line
       /\ o.line # None

RowShape(c) == calls[c].phase = "absent" <=> calls[c].line = None

IInv ==
  /\ TypeOK
  /\ \A c \in Calls : RowShape(c)
  /\ \A s \in Slots : RecordShape(rec[s])
  /\ \A t \in Threads : HandlerShape(handler[t])
  /\ \A c \in todo : calls[c].phase # "absent"
  /\ OneRecordPerIdentity
  /\ OneRecordPerHolder
  /\ OneOwnerPerLine

-----------------------------------------------------------------------------
(* A rule the documentation states and the code does not keep              *)

\* docs/call-ownership-and-convergence.md:158: without a request to go by, the
\* sole pending reservation may bind to the sole observed outgoing call.
LineMatchIsUnambiguous ==
  [][\A s \in Live, c \in todo :
       rec[s].call = None /\ rec'[s].call = c /\ calls[c].req # rec[s].req =>
         \A d \in Calls :
           /\ Tracked(d) /\ calls[d].direction = "outgoing"
           /\ calls[d].line = calls[c].line
           => d = c]_vars

-----------------------------------------------------------------------------
(* Liveness                                                                *)

\* The ticker, the clock, and every goroutine waiting for the mutex get their
\* turn (Go's mutex does not starve a waiter); snapshots need not arrive.
Fairness ==
  /\ SF_vars(Tick) /\ SF_vars(ExpireCalls)
  /\ \A s \in Slots, c \in Calls : SF_vars(EndExpired(s, c))
  /\ WF_vars(BeginReconcile) /\ WF_vars(FinishReconcile)
  /\ \A c \in Calls : WF_vars(BindCall(c))

FairSpec == Spec /\ Fairness

\* A sign of life for the record of a call: a heartbeat or command of its
\* holder, or media that connects or finishes.
SignOfLife(c) ==
  \E s \in Live : /\ rec[s].call = c
                  /\ \/ rec'[s].orphanAt > rec[s].orphanAt
                     \/ rec'[s].mediaAlive # rec[s].mediaAlive

\* Once the signs of life stop and no media session is left, a call with an
\* owner or an orphan deadline is ended (or found to be over): the grace is
\* bounded.  A ringing call nobody owns has no deadline.
OrphansEnd ==
  \A c \in Calls :
    <>[][~SignOfLife(c)]_vars =>
      ((\E s \in Live : /\ rec[s].call = c /\ ~rec[s].mediaAlive
                        /\ rec[s].orphanAt # NoDeadline)
        ~> \/ Ending(c) \/ \A s \in Live : rec[s].call # c
           \/ \E s \in Live : /\ rec[s].call = c
                             /\ \/ rec[s].mediaAlive
                                \/ rec[s].holder = None /\ Unclaimed(calls[c]))

\* No record is left ending without its call having been handed to EndCall.
EndingIsHandedOver ==
  \A c \in Calls : Ending(c) ~> (c \in endRequested \/ ~Ending(c))

\* An unrenewed preparation, and a reservation with an orphan deadline, do not
\* hold their line for ever even if no snapshot ever comes.
ReservationsLapse ==
  \A r \in Requests :
    <>[][\A s \in Live : rec[s].req = r /\ rec'[s].req = r =>
           /\ rec'[s].orphanAt <= rec[s].orphanAt \/ rec[s].orphanAt = NoDeadline
           /\ rec'[s].prepareUntil <= rec[s].prepareUntil]_vars =>
      ((\E s \in Live : /\ rec[s].req = r /\ rec[s].call = None
                        /\ rec[s].preparing \/ rec[s].orphanAt # NoDeadline)
        ~> \A s \in Live : rec[s].req = r =>
             \/ rec[s].call # None
             \/ ~rec[s].preparing /\ rec[s].orphanAt = NoDeadline)

=============================================================================
