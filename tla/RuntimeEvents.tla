--------------------------- MODULE RuntimeEvents ---------------------------
(***************************************************************************)
(* The live state streams: the hub that publishes one coalesced signal per *)
(* subscriber (runtimeevents.Hub), the shared lazily built state the       *)
(* streams write from (httpapi currentRuntimeState), the page streams and  *)
(* the call streams with their authentication ticks, the limiter that      *)
(* bounds them, and the page that accepts what it is sent                  *)
(* (web/src/state/runtimeEvents.ts).                                       *)
(*                                                                         *)
(* A section's content is only known as fresh or stale: whether it was     *)
(* read since the last signal that named the section was published.        *)
(* Heartbeats and the monitoring of an update are left out.                *)
(***************************************************************************)
EXTENDS Absence, Naturals, FiniteSets

CONSTANTS Streams,      \* connections
          Sessions,     \* browser sessions and paired devices
          Sections,     \* the sections of the live state
          CallSection,  \* the section of the calls
          Reassigned,   \* the sessions whose lines may be reassigned, once
          MaxSignals,   \* bound: signals published
          PerSession,   \* eventStreamMaximumConnectionsPerSession
          Global        \* eventStreamMaximumConnectionsGlobal

VARIABLES
  revision,   \* revision of the hub's current signal
  cache,      \* [revision, built, state]: runtimeStateCache
  stream,     \* the connections, see StreamRecord
  page,       \* [revision, stale, failed]: what each connection's page shows
  valid,      \* sessions that still authenticate
  rights,     \* what the principal of a session may see: 0, or 1 once reassigned
  limiter     \* [total, sessions]: eventStreamLimiter

eventVars == <<revision, cache, stream, page, valid, rights, limiter>>

Signal == [revision : 0..MaxSignals, sections : SUBSET Sections]

StreamRecord ==
  [step : {"closed", "wait", "write"},
   kind : {"page", "call"},
   session : Sessions \cup {None},
   inbox : Signal \cup {None},     \* the one buffered signal
   current : 0..MaxSignals,       \* revision of the last signal taken
   due : SUBSET Sections,          \* sections of the write in progress
   rights : 0..1]

Closed == [step |-> "closed", kind |-> "page", session |-> None, inbox |-> None,
           current |-> 0, due |-> {}, rights |-> 0]

Blank == [revision |-> 0, stale |-> Sections, failed |-> {}]

EventsTypeOK ==
  /\ revision \in 0..MaxSignals
  /\ cache \in [revision : 0..MaxSignals, built : SUBSET Sections,
                state : [Sections -> {"fresh", "stale", None}]]
  /\ stream \in [Streams -> StreamRecord]
  /\ page \in [Streams -> [revision : 0..MaxSignals,
                           stale : SUBSET Sections,
                           failed : SUBSET Sections]]
  /\ valid \subseteq Sessions
  /\ rights \in [Sessions -> 0..1]
  /\ limiter \in [total : 0..Cardinality(Streams),
                  sessions : [Sessions -> 0..Cardinality(Streams)]]

EventsInit ==
  /\ revision = 0
  /\ cache = [revision |-> 0, built |-> {}, state |-> [x \in Sections |-> None]]
  /\ stream = [s \in Streams |-> Closed]
  /\ page = [s \in Streams |-> Blank]
  /\ valid = Sessions
  /\ rights = [a \in Sessions |-> 0]
  /\ limiter = [total |-> 0, sessions |-> [a \in Sessions |-> 0]]

Open(s) == stream[s].step # "closed"

\* The sections a connection shows: a call stream has only its call.
Shown(s) == IF stream[s].kind = "call" THEN {CallSection} ELSE Sections

-----------------------------------------------------------------------------
(* Hub.                                                                    *)

\* Mutant: a slow subscriber keeps the newest signal only.
CoalescedNewest(pending, signal) == signal

\* A full channel is emptied, and the new signal takes its sections along.
Coalesced(pending, signal) ==
  IF pending = None THEN signal
  ELSE [signal EXCEPT !.sections = @ \cup pending.sections]

\* Publish: sections that have changed, or stored data only (no section). What
\* was read of those sections before is stale now.
Publish(changed) ==
  /\ revision < MaxSignals
  /\ revision' = revision + 1
  /\ cache' = [cache EXCEPT !.state = [x \in Sections |->
                 IF x \in changed /\ @[x] # None THEN "stale" ELSE @[x]]]
  /\ page' = [s \in Streams |-> IF Open(s)
                                  THEN [page[s] EXCEPT !.stale = @ \cup changed]
                                  ELSE page[s]]
  /\ LET signal == [revision |-> revision + 1, sections |-> changed] IN
       stream' = [s \in Streams |->
                    IF Open(s)
                      THEN [stream[s] EXCEPT !.inbox = Coalesced(@, signal)]
                      ELSE stream[s]]
  /\ UNCHANGED <<valid, rights, limiter>>

-----------------------------------------------------------------------------
(* Connections.                                                            *)

\* authorizeEventStream, acquireEventStream, Subscribe; the first write holds
\* everything the connection shows.
Connect(s, a, kind) ==
  /\ ~Open(s) /\ a \in valid
  /\ limiter.total < Global /\ limiter.sessions[a] < PerSession
  /\ limiter' = [total |-> limiter.total + 1,
                 sessions |-> [limiter.sessions EXCEPT ![a] = @ + 1]]
  /\ stream' = [stream EXCEPT ![s] =
                  [step |-> "write", kind |-> kind, session |-> a, inbox |-> None,
                   current |-> revision, rights |-> rights[a],
                   due |-> IF kind = "call" THEN {CallSection} ELSE Sections]]
  /\ page' = [page EXCEPT ![s] = Blank]
  /\ UNCHANGED <<revision, cache, valid, rights>>

\* The deferred release and cancel of the handler.
Close(s) ==
  /\ stream' = [stream EXCEPT ![s] = Closed]
  /\ limiter' = [total |-> limiter.total - 1,
                 sessions |-> [limiter.sessions EXCEPT ![stream[s].session] = @ - 1]]
  /\ page' = [page EXCEPT ![s] = Blank]

\* The client goes away, a write fails, or the call of a call stream ended.
Leave(s) ==
  /\ Open(s) /\ Close(s)
  /\ UNCHANGED <<revision, cache, valid, rights>>

\* The select takes the buffered signal. A call stream passes over a signal
\* that does not name the calls.
Take(s) ==
  /\ stream[s].step = "wait" /\ stream[s].inbox # None
  /\ LET signal == stream[s].inbox
         due    == signal.sections \cap Shown(s)
     IN stream' = [stream EXCEPT
          ![s].inbox = None, ![s].current = signal.revision,
          ![s].step = IF stream[s].kind = "page" \/ due # {} THEN "write" ELSE "wait",
          ![s].due = due]
  /\ UNCHANGED <<revision, cache, page, valid, rights, limiter>>

\* The cache as the signal of a connection finds it: a newer signal empties it.
CacheAt(r) ==
  IF r > cache.revision
    THEN [revision |-> r, built |-> {}, state |-> [x \in Sections |-> None]]
    ELSE cache

\* What a page has accepted: an older revision of the same process is dropped.
Accepted(s, r, content, lost) ==
  IF r < page[s].revision THEN page[s]
  ELSE [revision |-> r,
        stale |-> {x \in Sections : IF x \in DOMAIN content
                                      THEN content[x] = "stale"
                                      ELSE x \in page[s].stale},
        failed |-> (page[s].failed \ DOMAIN content) \cup lost]

\* writeRuntimeState: the missing sections are built under the cache's mutex,
\* and one whose build failed counts as built. The projection of the calls for
\* the principal may fail too.
WriteState(s) ==
  /\ stream[s].step = "write" /\ stream[s].kind = "page"
  /\ LET due     == stream[s].due
         base    == CacheAt(stream[s].current)
         missing == due \ base.built
     IN \E unbuilt \in SUBSET missing, unshown \in SUBSET (due \cap {CallSection}) :
          LET state == [x \in Sections |-> IF x \in missing \ unbuilt THEN "fresh"
                                           ELSE base.state[x]]
              sent  == {x \in due : state[x] # None} \ unshown
          IN /\ cache' = [revision |-> base.revision,
                          built |-> base.built \cup missing, state |-> state]
             /\ page' = [page EXCEPT ![s] =
                           Accepted(s, base.revision, [x \in sent |-> state[x]],
                                    due \ sent)]
  /\ stream' = [stream EXCEPT ![s].step = "wait", ![s].due = {}]
  /\ UNCHANGED <<revision, valid, rights, limiter>>

\* A call stream reads its call directly; an error is skipped until the next
\* signal or authentication tick.
WriteCall(s) ==
  /\ stream[s].step = "write" /\ stream[s].kind = "call"
  /\ \/ page' = [page EXCEPT ![s].stale = @ \ {CallSection}, ![s].failed = {}]
     \/ page' = [page EXCEPT ![s].failed = {CallSection}]
  /\ stream' = [stream EXCEPT ![s].step = "wait", ![s].due = {}]
  /\ UNCHANGED <<revision, cache, valid, rights, limiter>>

\* Mutant: the tick compares the principal only.
EndsAtTickNever(s) == FALSE

EndsAtTick(s) == stream[s].session \notin valid

\* The authentication tick: a session that no longer authenticates ends the
\* stream, other rights are shown at once, and a call stream reads its call
\* again in any case.
AuthTick(s) ==
  /\ stream[s].step = "wait"
  /\ IF EndsAtTick(s) THEN Close(s)
     ELSE LET now == rights[stream[s].session] IN
            /\ stream[s].kind = "call" \/ stream[s].rights # now
            /\ stream' = [stream EXCEPT ![s].rights = now, ![s].step = "write",
                                        ![s].due = Shown(s)]
            /\ UNCHANGED <<page, limiter>>
  /\ UNCHANGED <<revision, cache, valid, rights>>

\* Logout, a revoked pairing, a disabled account; a changed line assignment.
Revoke(a) ==
  /\ a \in valid /\ valid' = valid \ {a}
  /\ UNCHANGED <<revision, cache, stream, page, rights, limiter>>

Reassign(a) ==
  /\ rights' = [rights EXCEPT ![a] = 1]
  /\ UNCHANGED <<revision, cache, stream, page, valid, limiter>>

EventsNext ==
  \/ \E changed \in SUBSET Sections : Publish(changed)
  \/ \E s \in Streams :
       \/ \E a \in Sessions, kind \in {"page", "call"} : Connect(s, a, kind)
       \/ Leave(s) \/ Take(s) \/ WriteState(s) \/ WriteCall(s) \/ AuthTick(s)
  \/ \E a \in Sessions : Revoke(a)
  \/ \E a \in Reassigned : Reassign(a)

EventsSpec == EventsInit /\ [][EventsNext]_eventVars

-----------------------------------------------------------------------------
\* Coalescing, the shared cache and late signals lose nothing: a section
\* whose content on a page is older than the last signal for it is waiting in its
\* channel or in the write it is about to make, or its build failed for the
\* page's last signal; and the page never drops what a stream sends it.
StreamsMissNothing ==
  \A s \in Streams : \A x \in Shown(s) :
    Open(s) /\ x \in page[s].stale =>
      \/ stream[s].inbox # None /\ x \in stream[s].inbox.sections
      \/ stream[s].step = "write" /\ x \in stream[s].due
      \/ x \in page[s].failed

\* The limiter counts the open streams, all and of each session.
StreamsAreCounted ==
  /\ limiter.total = Cardinality({s \in Streams : Open(s)})
  /\ \A a \in Sessions :
       limiter.sessions[a] = Cardinality({s \in Streams : stream[s].session = a})

\* A page is told of every change, by a number of streams that is known.
StreamsAreServed == StreamsMissNothing /\ StreamsAreCounted

\* A stream whose session stops authenticating ends.
RevokedStreamEnds ==
  \A s \in Streams, a \in Sessions :
    (stream[s].session = a /\ a \notin valid) ~> (stream[s].session # a)
=============================================================================
