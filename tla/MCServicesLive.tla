--------------------------- MODULE MCServicesLive ---------------------------
(***************************************************************************)
(* What the components owe in the end. As in MCServices a behaviour is one *)
(* component's; here each keeps its own variables, which stay as they were *)
(* while another component runs. Each property is stated under the         *)
(* fairness of the component it is about.                                  *)
(***************************************************************************)
CONSTANTS
  Preps, Requests, Window,              \* OutgoingPreparation
  Calls, Owners, Hubs,                  \* CallMedia
  RecCalls, Segments,                   \* Recording
  Streams, Sessions, Sections, CallSection, Reassigned, \* RuntimeEvents
  MaxSignals, PerSession, Global,
  MaxCalls, MaxRadio, MaxEpoch,         \* Synchronizer
  None

VARIABLES
  service,  \* the component this behaviour is about
  state, req, listed, left, timer, commit, delete, cancelRequested, dispatch,
  session, binder, lease, revoked, status, call, tried, dials,
  core, authority, life, sweep, stage, key, held, linked, ended, packets,
  connected, binding, hubRef, hub, hubCall, table, alive,
  app, phase, media, known, rec, seg, of, file, worker, work, cancelled, job,
  target, fresh, todo, refused,
  revision, cache, stream, page, valid, rights, limiter,
  calls, radio, agent, buffer, watcher, changed, coalescing, run, sample,
  refresh, db, view, digest, shown, control

preparation == <<state, req, listed, left, timer, commit, delete,
                 cancelRequested, dispatch, session, binder, lease, revoked,
                 status, call, tried, dials>>
callMedia == <<core, authority, life, sweep, stage, key, held, linked, ended,
               packets, connected, binding, hubRef, hub, hubCall, table,
               alive>>
recording == <<app, phase, media, known, rec, seg, of, file, worker, work,
               cancelled, job, target, fresh, todo, refused>>
events == <<revision, cache, stream, page, valid, rights, limiter>>
synchronizer == <<calls, radio, agent, buffer, watcher, changed, coalescing,
                  run, sample, refresh, db, view, digest, shown, control>>
vars == <<service, preparation, callMedia, recording, events, synchronizer>>

P == INSTANCE OutgoingPreparation
M == INSTANCE CallMedia
R == INSTANCE Recording
E == INSTANCE RuntimeEvents
Y == INSTANCE Synchronizer WITH status <- view

Init ==
  /\ service \in {"preparation", "media", "recording", "events",
                  "synchronizer"}
  /\ P!PrepInit /\ M!MediaInit /\ R!RecInit /\ E!EventsInit /\ Y!SyncInit
  /\ service # "synchronizer" => agent.up

Next ==
  /\ UNCHANGED service
  /\ \/ /\ service = "preparation" /\ P!PrepNext
        /\ UNCHANGED <<callMedia, recording, events, synchronizer>>
     \/ /\ service = "media" /\ M!MediaNext
        /\ UNCHANGED <<preparation, recording, events, synchronizer>>
     \/ /\ service = "recording" /\ R!RecNext
        /\ UNCHANGED <<preparation, callMedia, events, synchronizer>>
     \/ /\ service = "events" /\ E!EventsNext
        /\ UNCHANGED <<preparation, callMedia, recording, synchronizer>>
     \/ /\ service = "synchronizer" /\ Y!SyncNext
        /\ UNCHANGED <<preparation, callMedia, recording, events>>

\* Handlers run on, timers fire, the manager's ticker and the snapshots come;
\* nobody has to renew, to delete or to send audio.
On(name) == service = name
PrepFairness ==
  /\ \A p \in Preps :
       /\ WF_preparation(On("preparation") /\ P!Expire(p))
       /\ WF_preparation(On("preparation") /\ P!CommitStep(p))
       /\ WF_preparation(On("preparation") /\ P!HardwareFailed(p))
       /\ WF_preparation(On("preparation") /\ P!DeleteStep(p))
       /\ WF_preparation(On("preparation") /\ P!Lapse(p))
       /\ WF_preparation(On("preparation") /\ P!Resolve(p))
       /\ WF_preparation(On("preparation") /\ P!EndOrphan(p))
  /\ WF_preparation(On("preparation") /\ P!Elapse)

\* Goroutines run on, an open returns, cancelled contexts are noticed.
MediaFairness ==
  /\ \A o \in Owners :
       /\ WF_callMedia(On("media") /\ M!FailOpen(o) /\ M!Interrupted(o))
       /\ WF_callMedia(On("media") /\ M!MustStop(o))
       /\ WF_callMedia(On("media") /\ M!SessionEnds(o))
       /\ WF_callMedia(On("media") /\ M!BindStep(o))
  /\ \A h \in Hubs :
       /\ WF_callMedia(On("media") /\ M!HubStep(h))
       /\ WF_callMedia(On("media") /\ M!HubStops(h) /\ h \notin linked)
  /\ \A x \in Calls : WF_callMedia(On("media") /\ M!SweepStep(x))

\* Workers and the lock's holder run on, snapshots come and are reconciled, and
\* the database does not refuse every start of a recording.
RecFairness ==
  /\ \A s \in Segments :
       /\ WF_recording(On("recording") /\ R!WorkerStep(s))
       /\ WF_recording(On("recording") /\ R!Publish(s) /\ s \in cancelled)
  /\ WF_recording(On("recording") /\ R!JobStep)
  /\ \A c \in RecCalls :
       /\ WF_recording(On("recording") /\ R!Snapshot(c, phase[c]))
       /\ SF_recording(On("recording") /\ \E asked \in BOOLEAN : R!Reconcile(c, asked))
       /\ SF_recording(On("recording") /\ \E asked \in BOOLEAN :
                     R!Reconcile(c, asked) /\ job' = "subscribe")
       /\ SF_recording(On("recording") /\ R!Create /\ seg' # seg)

\* A write returns (the client reads or the connection breaks), and the select
\* of a waiting stream takes a ready case sooner or later, the ticker's too.
EventsFairness ==
  \A s \in Streams :
    /\ WF_events(On("events") /\ (E!WriteState(s) \/ E!WriteCall(s)))
    /\ SF_events(On("events") /\ E!AuthTick(s))

\* The watcher and Run go on, the select takes each ready case sooner or later,
\* callers give the coordinator back, and from some time on the agent, which is
\* up, and the database answer.
SyncFairness ==
  /\ WF_synchronizer(On("synchronizer") /\ Y!WatcherStep)
  /\ SF_synchronizer(On("synchronizer") /\ Y!HearsWatcher)
  /\ SF_synchronizer(On("synchronizer") /\ Y!HearsChanges)
  /\ SF_synchronizer(On("synchronizer") /\ Y!Maintain)
  /\ WF_synchronizer(On("synchronizer") /\ Y!LoopStep)
  /\ SF_synchronizer(On("synchronizer") /\ Y!BeginRefresh("run"))
  /\ WF_synchronizer(On("synchronizer") /\ Y!RefreshStep)
  /\ <>[][~(On("synchronizer") /\ Y!Failure)]_synchronizer

Spec == Init /\ [][Next]_vars

-----------------------------------------------------------------------------
\* A preparation its owner or the clock gives up ends, and so does its call.
AbandonedPreparationEnds == PrepFairness => P!AbandonedPreparationEnds

\* A call that has left the snapshot keeps no owner and no endpoint.
GoneCallIsReleased == MediaFairness => M!GoneCallIsReleased

\* A recording that is wanted of a call with media comes about.
WantedIsRecorded == RecFairness => R!WantedIsRecorded

\* A stream whose session no longer authenticates ends.
RevokedStreamEnds == EventsFairness => E!RevokedStreamEnds

\* Pages come to have the last change of the hardware.
ChangesAreShown == SyncFairness => Y!ChangesAreShown
=============================================================================
