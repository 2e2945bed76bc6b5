------------------------ MODULE OutgoingPreparation ------------------------
(* Outgoing call preparations (internal/httpapi/outgoing_preparation.go and *)
(* commitPreparedCall): a client reserves its line, proves running audio    *)
(* over a socket, and commits; only then is a number dialled.               *)
(*                                                                          *)
(* All preparations here belong to one credential and one line.  Of the     *)
(* parts a preparation talks to, the reservation (calllease), the command   *)
(* journal (communication) and the media session (callmedia) are kept to    *)
(* what they answer; modules CallLease, CallCommand and CallMedia hold      *)
(* them in full.  A handler that found its preparation in the table keeps   *)
(* the pointer, so no operation but Prepare looks at the table.             *)
EXTENDS Absence, Naturals, FiniteSets

CONSTANTS
  Preps,      \* preparations
  Requests,   \* request ids of start_call
  Window      \* outgoingPrepareDuration, in ticks

VARIABLES
  state,      \* preparation.state; "none" before it is created
  req,        \* preparation.input.RequestID
  listed,     \* the preparations in api.preparations
  left,       \* ticks to preparation.expires, which is record.prepareUntil
  timer,      \* ticks to the next expirePreparation; None when none is armed
  commit,     \* where the commit that holds preparation.mu is
  delete,     \* where the DELETE handler is
  cancelRequested,
  dispatch,   \* the context dispatchCancel cancels
  session,    \* preparation.session
  binder,     \* attachPreparedHardware
  lease,      \* the reservation: its record's phase
  revoked,    \* record.revoked
  status,     \* the journal entry of a request
  call,       \* the modem's call of a preparation
  tried,      \* calls an EndCall has failed for (history)
  dials       \* how often a request has been dialled, up to 2 (history)

handlers == <<commit, delete, cancelRequested, dispatch, binder>>
outside == <<status, call, tried, dials>>
prepVars == <<state, req, listed, left, timer, handlers, session, lease,
              revoked, outside>>

PrepTypeOK ==
  /\ state \in [Preps -> {"none", "prepared", "committed", "failed", "cancelled"}]
  /\ req \in [Preps -> Requests \cup {None}]
  /\ listed \subseteq Preps
  /\ left \in [Preps -> 0..Window]
  /\ timer \in [Preps -> 0..Window \cup {None}]
  /\ commit \in [Preps -> {"idle", "begun", "published", "replay", "journal",
                           "ready", "dial", "placed", "bind"}]
  /\ delete \in [Preps -> {"none", "requested", "waiting", "hangup"}]
  /\ cancelRequested \subseteq Preps
  /\ dispatch \in [Preps -> {"none", "live", "cancelled"}]
  /\ session \in [Preps -> {"none", "open", "ready", "stopped"}]
  /\ binder \in [Preps -> {"none", "binding", "failed"}]
  /\ lease \in [Preps -> {"none", "preparing", "dispatching", "awaiting", "bound"}]
  /\ revoked \subseteq Preps
  /\ status \in [Requests -> {"absent", "pending", "completed", "failed",
                              "indeterminate"}]
  /\ call \in [Preps -> {"none", "live", "ended"}]
  /\ tried \subseteq Preps
  /\ dials \in [Requests -> 0..2]

PrepInit ==
  /\ state = [p \in Preps |-> "none"]
  /\ req = [p \in Preps |-> None]
  /\ listed = {}
  /\ left = [p \in Preps |-> 0]
  /\ timer = [p \in Preps |-> None]
  /\ commit = [p \in Preps |-> "idle"]
  /\ delete = [p \in Preps |-> "none"]
  /\ cancelRequested = {}
  /\ dispatch = [p \in Preps |-> "none"]
  /\ session = [p \in Preps |-> "none"]
  /\ binder = [p \in Preps |-> "none"]
  /\ lease = [p \in Preps |-> "none"]
  /\ revoked = {}
  /\ status = [r \in Requests |-> "absent"]
  /\ call = [p \in Preps |-> "none"]
  /\ tried = {}
  /\ dials = [r \in Requests |-> 0]

\* Nobody holds preparation.mu.
Free(p) == commit[p] = "idle" /\ delete[p] # "hangup"

\* The session and the reservation, as RequireOutgoing sees it.
TransportReady(p) == session[p] = "ready"
Unspent(p) == lease[p] \in {"preparing", "dispatching"} => left[p] > 0
RequireOutgoing(p) == lease[p] # "none" /\ p \notin revoked /\ Unspent(p)

SetLease(p, l) ==
  /\ lease' = [lease EXCEPT ![p] = l]
  /\ revoked' = IF l = "none" THEN revoked \ {p} ELSE revoked
\* ReleaseOutgoing leaves a reservation that has become a call alone.
ReleaseOutgoing(p) == SetLease(p, IF lease[p] = "bound" THEN "bound" ELSE "none")
KeepLease == UNCHANGED <<lease, revoked>>
StopSession(p) ==
  session' = [session EXCEPT ![p] = IF @ = "none" THEN @ ELSE "stopped"]
\* EndCall: the call is over, or the command fails.
EndCall(p) ==
  \/ call' = [call EXCEPT ![p] = IF @ = "live" THEN "ended" ELSE @] /\ UNCHANGED tried
  \/ call[p] = "live" /\ UNCHANGED call /\ tried' = tried \cup {p}
-----------------------------------------------------------------------------
(* Creating, renewing and expiring a preparation.                           *)

\* A repeated request id is answered from the table; a line or a holder that
\* is in use is refused by PrepareOutgoingFor.
Prepare(p, r) ==
  /\ state[p] = "none"
  /\ \A q \in listed : req[q] # r
  /\ \A q \in Preps : lease[q] = "none" /\ call[q] # "live"
  /\ state' = [state EXCEPT ![p] = "prepared"]
  /\ req' = [req EXCEPT ![p] = r]
  /\ listed' = listed \cup {p}
  /\ left' = [left EXCEPT ![p] = Window]
  /\ timer' = [timer EXCEPT ![p] = Window]
  /\ SetLease(p, "preparing")
  /\ UNCHANGED <<handlers, session, outside>>

\* Ten minutes later the table forgets the preparation, whatever its state.
Forget(p) ==
  /\ p \in listed
  /\ listed' = listed \ {p}
  /\ UNCHANGED <<state, req, left, timer, handlers, session, lease, revoked, outside>>

\* What every operation but DELETE refuses.
Usable(p) ==
  /\ p \notin cancelRequested
  /\ state[p] \in {"prepared", "committed"}
  /\ state[p] = "prepared" => left[p] > 0

Renew(p) ==
  /\ Free(p) /\ Usable(p)
  /\ lease[p] = "preparing" /\ p \notin revoked /\ left[p] > 0
  /\ left' = [left EXCEPT ![p] = Window]
  /\ UNCHANGED <<state, req, listed, timer, handlers, session, lease, revoked, outside>>

\* Mutant: a timer that finds a later deadline is not armed again.
NextTimerOnce(p) == None
\* What expirePreparation arms when the deadline has moved.
NextTimer(p) == left[p]

\* The timer of a preparation that was renewed is armed for the rest; in any
\* other state than prepared there is nothing left to expire.
Expire(p) ==
  /\ timer[p] = 0 /\ Free(p)
  /\ IF state[p] = "prepared" /\ left[p] = 0
       THEN /\ state' = [state EXCEPT ![p] = "cancelled"]
            /\ timer' = [timer EXCEPT ![p] = None]
            /\ ReleaseOutgoing(p)
            /\ StopSession(p)
       ELSE /\ timer' = [timer EXCEPT
                 ![p] = IF state[p] = "prepared" THEN NextTimer(p) ELSE None]
            /\ UNCHANGED <<state, session>> /\ KeepLease
  /\ UNCHANGED <<req, listed, left, handlers, outside>>
-----------------------------------------------------------------------------
(* The media socket of a preparation.                                       *)

\* The socket handler, under the mutex: one session for a preparation.
OpenSocket(p) ==
  /\ Free(p)
  /\ state[p] = "prepared" /\ session[p] = "none"
  /\ RequireOutgoing(p)
  /\ session' = [session EXCEPT ![p] = "open"]
  /\ UNCHANGED <<state, req, listed, left, timer, handlers, lease, revoked, outside>>

\* The first valid packet.
Uplink(p) ==
  /\ session[p] = "open"
  /\ session' = [session EXCEPT ![p] = "ready"]
  /\ UNCHANGED <<state, req, listed, left, timer, handlers, lease, revoked, outside>>

\* A context that is cancelled once it lives.
CancelDispatchContext(p) ==
  dispatch' = [dispatch EXCEPT ![p] = IF @ = "live" THEN "cancelled" ELSE @]

\* The socket closes, fails, or fails its periodic validation; the dispatch's
\* context is derived from the session's.
SessionStops(p) ==
  /\ session[p] \in {"open", "ready"}
  /\ StopSession(p)
  /\ CancelDispatchContext(p)
  /\ UNCHANGED <<state, req, listed, left, timer, commit, delete,
                 cancelRequested, binder, lease, revoked, outside>>
-----------------------------------------------------------------------------
(* The commit, step by step; it holds the preparation's mutex throughout.   *)

CommitAt(p, at) ==
  commit' = [commit EXCEPT ![p] = at]
CommitOnly(p, at) ==
  /\ CommitAt(p, at)
  /\ UNCHANGED <<state, req, listed, left, timer, delete, cancelRequested,
                 dispatch, binder, session, lease, revoked, outside>>

\* The preparation has failed; the handler's deferred calls end the dispatch's
\* context.
FailPreparation(p) ==
  /\ CommitAt(p, "idle")
  /\ state' = [state EXCEPT ![p] = "failed"]
  /\ dispatch' = [dispatch EXCEPT ![p] = "none"]
  /\ UNCHANGED <<req, listed, left, timer, delete, cancelRequested, binder>>

\* commitPreparedCall returned without a call.
FailCommit(p) == FailPreparation(p) /\ StopSession(p)

\* A committed preparation answers with its call, and needs running media.
Committable(p) == state[p] = "prepared" /\ TransportReady(p)

\* BeginOutgoing consumes the reservation.
BeginCommit(p) ==
  /\ Free(p) /\ Usable(p) /\ Committable(p)
  /\ lease[p] = "preparing" /\ p \notin revoked /\ left[p] > 0
  /\ SetLease(p, "dispatching")
  /\ CommitAt(p, "begun")
  /\ UNCHANGED <<state, req, listed, left, timer, delete, cancelRequested,
                 dispatch, binder, session, outside>>

\* dispatchMu: the dispatch's context is published, unless it is cancelled.
NewDispatch(p) ==
  IF p \in cancelRequested \/ ~TransportReady(p) THEN "cancelled" ELSE "live"

PublishDispatch(p) ==
  /\ commit[p] = "begun"
  /\ dispatch' = [dispatch EXCEPT ![p] = NewDispatch(p)]
  /\ CommitAt(p, "published")
  /\ UNCHANGED <<state, req, listed, left, timer, delete, cancelRequested,
                 binder, session, lease, revoked, outside>>

\* A dispatch that is cancelled before it starts leaves the socket to its next
\* validation.
CheckDispatch(p) ==
  /\ commit[p] = "published"
  /\ IF dispatch[p] = "live" /\ TransportReady(p)
       THEN CommitOnly(p, "replay")
       ELSE FailPreparation(p) /\ ReleaseOutgoing(p) /\ UNCHANGED <<session, outside>>

\* The recording choice could not be stored, or the journal not be read: the
\* handler returns before it has the means to release the reservation.
CannotReplay(p) ==
  /\ commit[p] = "replay"
  /\ FailCommit(p) /\ KeepLease /\ UNCHANGED outside

\* ReplayStartCall: a completed request is refused and the reservation released;
\* one that is pending or has another outcome is an error, like CannotReplay.
Replay(p) ==
  /\ commit[p] = "replay"
  /\ CASE status[req[p]] = "absent" -> CommitOnly(p, "journal")
       [] status[req[p]] = "completed" ->
            FailCommit(p) /\ ReleaseOutgoing(p) /\ UNCHANGED outside
       [] OTHER -> FailCommit(p) /\ KeepLease /\ UNCHANGED outside

Settle(p, s) == status' = [status EXCEPT ![req[p]] = s]

\* beginCommand inserts the entry.  Another preparation of the same request may
\* have inserted it since: its call is returned, or an error.
BeginCommand(p) ==
  /\ commit[p] = "journal"
  /\ IF status[req[p]] = "absent"
       THEN /\ Settle(p, "pending")
            /\ CommitAt(p, "ready")
            /\ UNCHANGED <<state, req, listed, left, timer, delete,
                 cancelRequested, dispatch, binder, session, lease, revoked,
                 call, tried, dials>>
       ELSE FailCommit(p) /\ ReleaseOutgoing(p) /\ UNCHANGED outside

\* Mutant: the callback looks at the media only.
ReadyToDialMedia(p) == TransportReady(p)
\* StartCall's last look before it sends the command: its context, and the
\* callback ReadyToDial.
ReadyToDial(p) ==
  /\ dispatch[p] = "live" /\ TransportReady(p)
  /\ p \notin cancelRequested /\ RequireOutgoing(p)

DecideDial(p) ==
  /\ commit[p] = "ready"
  /\ IF ReadyToDial(p)
       THEN CommitOnly(p, "dial")
       ELSE /\ FailCommit(p) /\ ReleaseOutgoing(p)
            /\ Settle(p, "failed") /\ UNCHANGED <<call, tried, dials>>

Dialled(p) == dials' = [dials EXCEPT ![req[p]] = IF @ < 2 THEN @ + 1 ELSE @]

\* The agent accepted the call, and the snapshot that shows it is committed.
DialAccepted(p) ==
  /\ commit[p] = "dial"
  /\ Dialled(p) /\ Settle(p, "completed")
  /\ call' = [call EXCEPT ![p] = "live"]
  /\ CommitAt(p, "placed")
  /\ UNCHANGED <<state, req, listed, left, timer, delete, cancelRequested,
                 dispatch, binder, session, lease, revoked, tried>>

\* The agent refused, with an error code.
DialRejected(p) ==
  /\ commit[p] = "dial"
  /\ FailCommit(p) /\ ReleaseOutgoing(p)
  /\ Dialled(p) /\ Settle(p, "failed") /\ UNCHANGED <<call, tried>>

\* The answer is lost, or the accepted call cannot be observed and its hang-up
\* may fail too: there may be a call.  A complete snapshot binds it to the
\* reservation or shows that there is none; without one the reservation waits.
DialIndeterminate(p) ==
  /\ commit[p] = "dial"
  /\ FailCommit(p)
  /\ Dialled(p) /\ Settle(p, "indeterminate")
  /\ \E c \in {"none", "live", "ended"}, seen \in BOOLEAN :
       /\ call' = [call EXCEPT ![p] = c]
       /\ IF ~seen /\ lease[p] # "none" THEN SetLease(p, "awaiting")
          ELSE IF c = "live" /\ lease[p] # "none" THEN SetLease(p, "bound")
          ELSE ReleaseOutgoing(p)
  /\ UNCHANGED tried

\* The agent accepted the call and the database did not take it: StartCall hangs
\* up, which may fail, and the journal entry stays pending.
DialUnsaved(p) ==
  /\ commit[p] = "dial"
  /\ FailCommit(p) /\ ReleaseOutgoing(p)
  /\ Dialled(p)
  /\ \E c \in {"live", "ended"} : call' = [call EXCEPT ![p] = c]
  /\ UNCHANGED <<status, tried>>

\* ActivateOutgoing turns the reservation into the owner of the call.  If the
\* reservation or the call is gone the created call is ended again.
Activate(p) ==
  /\ commit[p] = "placed"
  /\ IF lease[p] # "none" /\ p \notin revoked /\ call[p] = "live"
       THEN /\ SetLease(p, "bound") /\ CommitAt(p, "bind")
            /\ UNCHANGED <<state, req, listed, left, timer, delete,
                 cancelRequested, dispatch, binder, session, outside>>
       ELSE /\ FailCommit(p) /\ ReleaseOutgoing(p)
            /\ EndCall(p) /\ UNCHANGED <<status, dials>>

\* bindOutgoingMedia activates the socket for the call, or the call is ended.
Bind(p) ==
  /\ commit[p] = "bind"
  /\ \/ /\ TransportReady(p) /\ call[p] = "live"
        /\ state' = [state EXCEPT ![p] = "committed"]
        /\ binder' = [binder EXCEPT ![p] = "binding"]
        /\ CommitAt(p, "idle")
        /\ dispatch' = [dispatch EXCEPT ![p] = "none"]
        /\ UNCHANGED <<req, listed, left, timer, delete, cancelRequested,
                       session, lease, revoked, outside>>
     \/ /\ FailCommit(p) /\ EndCall(p)
        /\ KeepLease /\ UNCHANGED <<status, dials>>

\* attachPreparedHardware, without the mutex: the PCM endpoint is attached, or
\* the session is closed and the call ended ...
HardwareBound(p) ==
  /\ binder[p] = "binding" /\ TransportReady(p)
  /\ binder' = [binder EXCEPT ![p] = "none"]
  /\ UNCHANGED <<state, req, listed, left, timer, commit, delete,
                 cancelRequested, dispatch, session, lease, revoked, outside>>

HardwareFails(p) ==
  /\ binder[p] = "binding"
  /\ binder' = [binder EXCEPT ![p] = "failed"]
  /\ StopSession(p) /\ EndCall(p)
  /\ UNCHANGED <<state, req, listed, left, timer, commit, delete,
                 cancelRequested, dispatch, lease, revoked, status, dials>>

\* ... and, under the mutex, the preparation has failed unless it was cancelled.
HardwareFailed(p) ==
  /\ binder[p] = "failed" /\ Free(p)
  /\ binder' = [binder EXCEPT ![p] = "none"]
  /\ state' = [state EXCEPT ![p] = IF @ = "cancelled" THEN @ ELSE "failed"]
  /\ UNCHANGED <<req, listed, left, timer, commit, delete, cancelRequested,
                 dispatch, session, lease, revoked, outside>>
-----------------------------------------------------------------------------
(* DELETE, and cancelRevokedPreparations when the credential is revoked.     *)

\* Before the mutex: the flag, then the context of a dispatch in flight.
RequestCancel(p) ==
  /\ state[p] # "none" /\ delete[p] = "none"
  /\ cancelRequested' = cancelRequested \cup {p}
  /\ delete' = [delete EXCEPT ![p] = "requested"]
  /\ UNCHANGED <<state, req, listed, left, timer, commit, dispatch, binder,
                 session, lease, revoked, outside>>

CancelDispatch(p) ==
  /\ delete[p] = "requested"
  /\ delete' = [delete EXCEPT ![p] = "waiting"]
  /\ CancelDispatchContext(p)
  /\ UNCHANGED <<state, req, listed, left, timer, commit, cancelRequested,
                 binder, session, lease, revoked, outside>>

\* CancelOutgoing removes an unconsumed reservation and revokes any other.
AfterCancel(p) == IF lease[p] = "preparing" THEN "none" ELSE lease[p]

\* A DELETE ends the call if either the preparation or the reservation knows it;
\* a revocation ends only what RevokeHolder found bound, before it came here.
AfterCancelled(p) ==
  IF lease[p] = "bound" \/ state[p] = "committed"
    THEN {"hangup"} \cup (IF p \in revoked THEN {"none"} ELSE {})
    ELSE {"none"}

\* Under the mutex: the preparation, its session and its reservation end.
Cancel(p) ==
  /\ delete[p] = "waiting" /\ Free(p)
  /\ state' = [state EXCEPT ![p] = "cancelled"]
  /\ StopSession(p)
  /\ lease' = [lease EXCEPT ![p] = AfterCancel(p)]
  /\ revoked' = IF AfterCancel(p) = "none" THEN revoked \ {p} ELSE revoked \cup {p}
  /\ \E d \in AfterCancelled(p) : delete' = [delete EXCEPT ![p] = d]
  /\ UNCHANGED <<req, listed, left, timer, commit, cancelRequested, dispatch,
                 binder, outside>>

CancelledCall(p) ==
  /\ delete[p] = "hangup"
  /\ delete' = [delete EXCEPT ![p] = "none"]
  /\ EndCall(p)
  /\ UNCHANGED <<state, req, listed, left, timer, commit, cancelRequested,
                 dispatch, binder, session, lease, revoked, status, dials>>
-----------------------------------------------------------------------------
(* What the reservation lives through besides (calllease).                  *)

LeaseOnly(p, l) ==
  /\ SetLease(p, l)
  /\ UNCHANGED <<state, req, listed, left, timer, handlers, session, outside>>

\* RevokeHolder, RevokeSubject: the credential is gone.  What revokeCallHolder
\* does next is RequestCancel and its steps; EndOrphan ends a call it found.
Revoke(p) ==
  /\ lease[p] # "none" /\ p \notin revoked
  /\ revoked' = revoked \cup {p}
  /\ UNCHANGED <<state, req, listed, left, timer, handlers, session, lease, outside>>

\* The ticker removes a preparation past its deadline, and a reservation that
\* waits for a call, revoked or unresolved, after its grace.
Lapse(p) ==
  /\ \/ lease[p] = "preparing" /\ left[p] = 0
     \/ lease[p] = "awaiting"
     \/ lease[p] \in {"preparing", "dispatching"} /\ p \in revoked
  /\ LeaseOnly(p, "none")

\* A complete snapshot: the pending reservation's call, or that it has none.
Resolve(p) ==
  \/ lease[p] \in {"dispatching", "awaiting"} /\ call[p] = "live"
     /\ LeaseOnly(p, "bound")
  \/ lease[p] = "awaiting" /\ p \notin revoked /\ call[p] # "live"
     /\ LeaseOnly(p, "none")
  \/ lease[p] = "bound" /\ call[p] # "live"
     /\ LeaseOnly(p, "none")

\* A record that is revoked or has lost its media, and a call without a record.
Orphan(p) ==
  \/ lease[p] = "bound" /\ (p \in revoked \/ ~TransportReady(p))
  \/ lease[p] = "none" /\ commit[p] \notin {"placed", "bind"}

\* The ticker ends an orphan's call, once.
EndOrphan(p) ==
  /\ call[p] = "live" /\ p \notin tried
  /\ Orphan(p)
  /\ EndCall(p)
  /\ UNCHANGED <<state, req, listed, left, timer, handlers, session, lease,
                 revoked, status, dials>>

\* The other side hangs up.
RemoteEnds(p) ==
  /\ call[p] = "live"
  /\ call' = [call EXCEPT ![p] = "ended"]
  /\ UNCHANGED <<state, req, listed, left, timer, handlers, session, lease,
                 revoked, status, tried, dials>>

Elapsed(d) == IF d \in Nat /\ d > 0 THEN d - 1 ELSE d

Elapse ==
  /\ \E p \in Preps : left[p] > 0 \/ timer[p] \in 1..Window
  /\ left' = [p \in Preps |-> Elapsed(left[p])]
  /\ timer' = [p \in Preps |-> IF timer[p] = None THEN None ELSE Elapsed(timer[p])]
  /\ UNCHANGED <<state, req, listed, handlers, session, lease, revoked, outside>>

\* Mutant: a restart empties the journal with the rest.
StatusAfterRestartLost(r) == "absent"
\* The journal survives a restart; what was pending is indeterminate.
StatusAfterRestart(r) == IF status[r] = "pending" THEN "indeterminate" ELSE status[r]

\* The application restarts: everything it kept in memory is gone, and calls
\* that are still there are ended as orphans of nobody.
Restart ==
  /\ \E p \in Preps : state[p] # "none"
  /\ status' = [r \in Requests |-> StatusAfterRestart(r)]
  /\ state' = [p \in Preps |-> "none"] /\ req' = [p \in Preps |-> None]
  /\ listed' = {} /\ cancelRequested' = {} /\ revoked' = {} /\ tried' = {}
  /\ left' = [p \in Preps |-> 0] /\ timer' = [p \in Preps |-> None]
  /\ commit' = [p \in Preps |-> "idle"] /\ delete' = [p \in Preps |-> "none"]
  /\ dispatch' = [p \in Preps |-> "none"] /\ session' = [p \in Preps |-> "none"]
  /\ binder' = [p \in Preps |-> "none"] /\ lease' = [p \in Preps |-> "none"]
  /\ call' = [p \in Preps |-> "none"]
  /\ UNCHANGED dials
-----------------------------------------------------------------------------
CommitStep(p) ==
  \/ PublishDispatch(p) \/ CheckDispatch(p) \/ CannotReplay(p) \/ Replay(p)
  \/ BeginCommand(p) \/ DecideDial(p) \/ DialAccepted(p) \/ DialRejected(p)
  \/ DialIndeterminate(p) \/ DialUnsaved(p) \/ Activate(p) \/ Bind(p)
HardwareStep(p) == HardwareBound(p) \/ HardwareFails(p) \/ HardwareFailed(p)
DeleteStep(p) == CancelDispatch(p) \/ Cancel(p) \/ CancelledCall(p)
LeaseStep(p) == Lapse(p) \/ Resolve(p) \/ EndOrphan(p)

PrepNext ==
  \/ \E p \in Preps, r \in Requests : Prepare(p, r)
  \/ \E p \in Preps :
       \/ Forget(p) \/ Renew(p) \/ Expire(p)
       \/ OpenSocket(p) \/ Uplink(p) \/ SessionStops(p)
       \/ BeginCommit(p) \/ CommitStep(p) \/ HardwareStep(p)
       \/ RequestCancel(p) \/ DeleteStep(p)
       \/ Revoke(p) \/ LeaseStep(p) \/ RemoteEnds(p)
  \/ Elapse \/ Restart

PrepSpec == PrepInit /\ [][PrepNext]_prepVars
-----------------------------------------------------------------------------
(* Properties                                                               *)

\* A request is dialled at most once: over repeated commits, over a second
\* preparation of the same request once the table has forgotten the first, and
\* over a restart (outgoing_preparation.go:276, communications.go:558).
RequestDialledOnce == \A r \in Requests : dials[r] <= 1

\* Once a DELETE has passed the flag and the dispatch's context, no step decides
\* to dial, wherever the commit in flight has got to.
UndisturbedDial ==
  \A p \in Preps :
    commit[p] = "ready" /\ commit'[p] = "dial" =>
      delete[p] \notin {"waiting", "hangup"} /\ state[p] = "prepared"
NoDialAfterCancel == [][UndisturbedDial]_prepVars

\* A prepared call whose deadline has passed is cancelled, although renewals
\* moved the deadline after the timer had been armed.
ExpiredIsCancelled ==
  \A p \in Preps :
    (state[p] = "prepared" /\ left[p] = 0) ~> (state[p] # "prepared")

\* The call of a cancelled preparation is ended, or ending it was tried: also
\* when the cancel overtook the commit and the dial's outcome was unknown.
CancelledCallEnds ==
  \A p \in Preps :
    (state[p] = "cancelled" /\ call[p] = "live") ~> (call[p] # "live" \/ p \in tried)

\* A preparation that is given up, by its owner or by the clock, really ends.
AbandonedPreparationEnds == ExpiredIsCancelled /\ CancelledCallEnds
=============================================================================
