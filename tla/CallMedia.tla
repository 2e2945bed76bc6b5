----------------------------- MODULE CallMedia -----------------------------
(* The application's call media core (internal/callmedia): who owns the     *)
(* audio of a call, the hub that holds the call's one PCM endpoint, and the *)
(* connected and disconnected callbacks into the ownership manager.         *)
(*                                                                          *)
(* An owner is one run of OpenSocket or PrepareSocket with the session it   *)
(* commits; a hub is one entry of Core.hubs with the goroutines behind it.  *)
(* Slots are used again when nothing refers to them.  A lifetime is the     *)
(* call's: whoever took it before it was cancelled is no longer linked.     *)
(* Snapshots are reconciled one at a time, under the coordinator's mutex.   *)
EXTENDS Absence, Naturals, FiniteSets

CONSTANTS Calls, Owners, Hubs

VARIABLES
  core,       \* open, closing (Core.closed) or closed (Close has returned)
  authority,  \* the calls of the last snapshot
  life,       \* Core.lifetimes by call
  sweep,      \* calls ReconcileActiveCalls has found stale
  stage,      \* where an owner is
  key,        \* the call it is for; None while its session is only prepared
  held,       \* owners in Core.owners
  linked,     \* owners and hubs whose lifetime is not cancelled
  ended,      \* owners whose context is cancelled
  packets,    \* owners that got a first valid packet (events.connected)
  connected,  \* owner.connected
  binding,    \* the hub of a prepared session: none yet, waited for, or bound
  hubRef,     \* the hub an owner waits for or subscribes to
  hub,        \* where a hub is
  hubCall,    \* its call
  table,      \* hubs in Core.hubs
  alive       \* what the last callback for a call said

owner == <<stage, key, held, ended, packets, connected, binding, hubRef>>
hubs == <<hub, hubCall, table>>
mediaVars == <<core, authority, life, sweep, owner, linked, hubs, alive>>

Stages == {"free", "check", "acquire", "wait", "commit", "live", "stopped", "done"}
HubStages == {"free", "opening", "opened", "refused", "running", "closed", "failed", "done"}

MediaTypeOK ==
  /\ core \in {"open", "closing", "closed"}
  /\ authority \subseteq Calls /\ sweep \in [Calls -> {"no", "stale", "closed"}]
  /\ life \in [Calls -> {"none", "live", "cancelled"}]
  /\ stage \in [Owners -> Stages]
  /\ key \in [Owners -> Calls \cup {None}]
  /\ held \subseteq Owners /\ linked \subseteq Owners \cup Hubs
  /\ ended \subseteq Owners /\ packets \subseteq Owners /\ connected \subseteq Owners
  /\ binding \in [Owners -> {"none", "wait", "bound"}]
  /\ hubRef \in [Owners -> Hubs \cup {None}]
  /\ hub \in [Hubs -> HubStages]
  /\ hubCall \in [Hubs -> Calls \cup {None}]
  /\ table \subseteq Hubs
  /\ alive \in [Calls -> BOOLEAN]

MediaInit ==
  /\ core = "open" /\ authority = {}
  /\ life = [c \in Calls |-> "none"] /\ sweep = [c \in Calls |-> "no"]
  /\ stage = [o \in Owners |-> "free"] /\ key = [o \in Owners |-> None]
  /\ held = {} /\ linked = {} /\ ended = {} /\ packets = {} /\ connected = {}
  /\ binding = [o \in Owners |-> "none"] /\ hubRef = [o \in Owners |-> None]
  /\ hub = [h \in Hubs |-> "free"] /\ hubCall = [h \in Hubs |-> None]
  /\ table = {}
  /\ alive = [c \in Calls |-> FALSE]

OwnersOf(c) == {o \in held : key[o] = c}
EntryOf(c) == {h \in table : hubCall[h] = c}
Prepared(o) == key[o] = None
TransportReady(o) == stage[o] = "live" /\ o \in packets /\ o \notin ended

Move(o, s) == stage' = [stage EXCEPT ![o] = s]

\* An owner slot is given up: the call of OpenSocket has returned, or the
\* session has been removed.
FreeOwner(o) ==
  /\ Move(o, "free")
  /\ key' = [key EXCEPT ![o] = None]
  /\ held' = held \ {o} /\ ended' = ended \ {o}
  /\ packets' = packets \ {o} /\ connected' = connected \ {o}
  /\ binding' = [binding EXCEPT ![o] = "none"]
  /\ hubRef' = [hubRef EXCEPT ![o] = None]
  /\ linked' = linked \ {o}
-----------------------------------------------------------------------------
(* OpenSocket                                                               *)

\* activeLifetimeLocked: a lifetime is made for an active call, never for one
\* whose lifetime was cancelled.
Active(c) == core = "open" /\ c \in authority /\ life[c] # "cancelled"

Reserve(o, c) ==
  /\ stage[o] = "free" /\ Active(c) /\ OwnersOf(c) = {}
  /\ life' = [life EXCEPT ![c] = "live"]
  /\ Move(o, "check")
  /\ key' = [key EXCEPT ![o] = c]
  /\ held' = held \cup {o} /\ linked' = linked \cup {o}
  /\ UNCHANGED <<core, authority, sweep, ended, packets, connected, binding,
                 hubRef, hubs, alive>>

\* releaseReservation: OpenSocket returns an error.
FailOpen(o) ==
  /\ stage[o] \in {"check", "acquire", "wait", "commit"}
  /\ FreeOwner(o)
  /\ UNCHANGED <<core, authority, life, sweep, hubs, alive>>

Interrupted(o) == o \in ended \/ o \notin linked \/ core # "open"

\* acquireHub looks at the contexts before it takes the mutex.
CheckHub(o) ==
  /\ stage[o] = "check" /\ ~Interrupted(o)
  /\ Move(o, "acquire")
  /\ UNCHANGED <<core, authority, life, sweep, key, held, ended, packets,
                 connected, binding, hubRef, linked, hubs, alive>>

\* Under the mutex: the call's entry, or a new one that openHub fills.
JoinHub(c, h) ==
  \/ EntryOf(c) = {h} /\ UNCHANGED <<hub, hubCall, table>>
  \/ /\ EntryOf(c) = {} /\ hub[h] = "free"
     /\ hub' = [hub EXCEPT ![h] = "opening"]
     /\ hubCall' = [hubCall EXCEPT ![h] = c]
     /\ table' = table \cup {h}

AcquireHub(o, h) ==
  /\ stage[o] = "acquire" /\ core = "open"
  /\ JoinHub(key[o], h)
  /\ linked' = IF h \notin table /\ o \in linked THEN linked \cup {h} ELSE linked
  /\ hubRef' = [hubRef EXCEPT ![o] = h]
  /\ Move(o, "wait")
  /\ UNCHANGED <<core, authority, life, sweep, key, held, ended, packets,
                 connected, binding, alive>>

\* The entry is ready with a hub, and the hub takes a subscription.
HubReady(o) ==
  /\ stage[o] = "wait" /\ hub[hubRef[o]] = "running"
  /\ Move(o, "commit")
  /\ UNCHANGED <<core, authority, life, sweep, key, held, ended, packets,
                 connected, binding, hubRef, linked, hubs, alive>>

\* commit: the owner is still the call's, in the lifetime it started with.
Committable(o) == core = "open" /\ o \in linked /\ o \in held

Commit(o) ==
  /\ stage[o] = "commit" /\ Committable(o)
  /\ Move(o, "live")
  /\ binding' = [binding EXCEPT ![o] = "bound"]
  /\ UNCHANGED <<core, authority, life, sweep, key, held, ended, packets,
                 connected, hubRef, linked, hubs, alive>>
-----------------------------------------------------------------------------
(* Prepared sockets                                                         *)

\* PrepareSocket: an owner under its own id, with a session and no hardware.
PrepareSocket(o) ==
  /\ stage[o] = "free" /\ core = "open"
  /\ Move(o, "live")
  /\ held' = held \cup {o}
  /\ UNCHANGED <<core, authority, life, sweep, key, ended, packets, connected,
                 binding, hubRef, linked, hubs, alive>>

\* ActivatePreparedSocket: the owner becomes the call's, in the call's lifetime
\* if it has one, and a connection seen before is reported now.
Activate(o, c) ==
  /\ core = "open" /\ o \in held /\ Prepared(o) /\ TransportReady(o)
  /\ Active(c) /\ OwnersOf(c) = {}
  /\ key' = [key EXCEPT ![o] = c]
  /\ life' = [life EXCEPT ![c] = "live"]
  /\ linked' = linked \cup {o}
  /\ alive' = [alive EXCEPT ![c] = @ \/ o \in connected]
  /\ UNCHANGED <<core, authority, sweep, stage, held, ended, packets,
                 connected, binding, hubRef, hubs>>

\* BindPreparedSocket, with the session's bindingMu: wait for the call's hub ...
BindHub(o, h) ==
  /\ binding[o] = "none" /\ ~Prepared(o) /\ o \in held /\ TransportReady(o)
  /\ core = "open"
  /\ JoinHub(key[o], h)
  /\ linked' = IF h \notin table /\ o \in linked THEN linked \cup {h} ELSE linked
  /\ binding' = [binding EXCEPT ![o] = "wait"]
  /\ hubRef' = [hubRef EXCEPT ![o] = h]
  /\ UNCHANGED <<core, authority, life, sweep, stage, key, held, ended,
                 packets, connected, alive>>

\* ... subscribe to it, or give up: the session is stopped.
Bound(o) ==
  /\ binding[o] = "wait" /\ hub[hubRef[o]] = "running"
  /\ TransportReady(o) /\ o \in held
  /\ binding' = [binding EXCEPT ![o] = "bound"]
  /\ UNCHANGED <<core, authority, life, sweep, stage, key, held, ended,
                 packets, connected, hubRef, linked, hubs, alive>>

BindFails(o) ==
  /\ binding[o] = "wait"
  /\ \/ hub[hubRef[o]] \notin {"opening", "opened"}
     \/ Interrupted(o) \/ stage[o] # "live"
  /\ binding' = [binding EXCEPT ![o] = "none"]
  /\ hubRef' = [hubRef EXCEPT ![o] = None]
  /\ Move(o, IF stage[o] = "live" THEN "stopped" ELSE stage[o])
  /\ UNCHANGED <<core, authority, life, sweep, key, held, ended, packets,
                 connected, linked, hubs, alive>>
-----------------------------------------------------------------------------
(* A session's life, and releaseWhenDone                                    *)

SessionOnly == UNCHANGED <<core, authority, life, sweep, key, held, ended,
                           binding, hubRef, linked, hubs>>

FirstPacket(o) ==
  /\ stage[o] = "live" /\ o \notin packets
  /\ packets' = packets \cup {o}
  /\ UNCHANGED <<stage, connected, alive>> /\ SessionOnly

\* A connection is reported for a call that has a lifetime: not while the
\* session is only prepared, nor after the sweep dropped the lifetime.
Reportable(o) == ~Prepared(o) /\ life[key[o]] # "none"

\* The goroutine sees the connection: under the mutex, for an owner that is
\* still in the table.
NoticeConnected(o) ==
  /\ stage[o] \in {"live", "stopped", "done"} /\ o \in packets \ connected
  /\ o \in held
  /\ connected' = connected \cup {o}
  /\ alive' = IF Reportable(o) THEN [alive EXCEPT ![key[o]] = TRUE] ELSE alive
  /\ UNCHANGED <<stage, packets>> /\ SessionOnly

\* The socket fails or closes, or the owner is released.
SessionStops(o) ==
  /\ stage[o] = "live"
  /\ Move(o, "stopped")
  /\ UNCHANGED <<packets, connected, alive>> /\ SessionOnly

\* What stops a session in any case: its owner's context, or its hub.
MustStop(o) ==
  /\ stage[o] = "live"
  /\ (o \in ended \/ (binding[o] = "bound" /\ hub[hubRef[o]] # "running"))
  /\ SessionStops(o)

\* The workers have ended; a binding in progress is waited for.
SessionDone(o) ==
  /\ stage[o] = "stopped" /\ binding[o] # "wait"
  /\ Move(o, "done")
  /\ UNCHANGED <<packets, connected, alive>> /\ SessionOnly

\* Mutant: an owner that was released does not report its end.
AliveAfterOwnEnd(o) ==
  IF o \in connected \ ended /\ ~Prepared(o)
    THEN [alive EXCEPT ![key[o]] = FALSE] ELSE alive
\* Only a reported connection is reported as ended.
AliveAfterRemoval(o) ==
  IF o \in connected /\ ~Prepared(o) THEN [alive EXCEPT ![key[o]] = FALSE] ELSE alive

RemoveOwner(o) ==
  /\ stage[o] = "done"
  /\ alive' = AliveAfterRemoval(o)
  /\ FreeOwner(o)
  /\ UNCHANGED <<core, authority, life, sweep, hubs>>

\* ReleaseOwner, by the holder of the token.
ReleaseOwner(o) ==
  /\ o \in held \ ended /\ ~Prepared(o)
  /\ ended' = ended \cup {o}
  /\ UNCHANGED <<core, authority, life, sweep, stage, key, held, packets,
                 connected, binding, hubRef, linked, hubs, alive>>
-----------------------------------------------------------------------------
(* Hubs                                                                     *)

HubOnly == UNCHANGED <<core, authority, life, sweep, owner, alive>>
MoveHub(h, s) == hub' = [hub EXCEPT ![h] = s]

\* SubscribeDuplex, by the recorder: it acquires the hub like an owner does.
Subscribe(c, h) ==
  /\ Active(c)
  /\ EntryOf(c) = {}
  /\ JoinHub(c, h)
  /\ life' = [life EXCEPT ![c] = "live"]
  /\ linked' = linked \cup {h}
  /\ UNCHANGED <<core, authority, sweep, owner, alive>>

\* opener.Open returns: an endpoint, or none.
OpenReturns(h) ==
  /\ hub[h] = "opening"
  /\ \E s \in {"opened", "refused"} : MoveHub(h, s)
  /\ UNCHANGED <<hubCall, table, linked>> /\ HubOnly

\* openHub, under the mutex again: the entry is still the call's, and neither
\* the lifetime nor the core has ended.
Publishable(h) == h \in table /\ core = "open" /\ h \in linked

PublishHub(h) ==
  /\ hub[h] \in {"opened", "refused"}
  /\ IF hub[h] = "opened" /\ Publishable(h)
       THEN MoveHub(h, "running") /\ UNCHANGED table
       ELSE /\ MoveHub(h, "failed")
            /\ table' = IF Publishable(h) THEN table \ {h} ELSE table
  /\ UNCHANGED <<hubCall, linked>> /\ HubOnly

\* The endpoint fails, or the lifetime is cancelled: the endpoint is closed ...
HubStops(h) ==
  /\ hub[h] = "running"
  /\ MoveHub(h, "closed")
  /\ UNCHANGED <<hubCall, table, linked>> /\ HubOnly

\* ... and when the hub is done its entry goes.
TableAfterDone(h) == table \ {h}

HubDone(h) ==
  /\ hub[h] = "closed"
  /\ MoveHub(h, "done")
  /\ table' = TableAfterDone(h)
  /\ UNCHANGED <<hubCall, linked>> /\ HubOnly

\* A slot nobody refers to any more.
ReuseHub(h) ==
  /\ hub[h] \in {"failed", "done"} /\ h \notin table
  /\ \A o \in Owners : hubRef[o] # h
  /\ MoveHub(h, "free")
  /\ hubCall' = [hubCall EXCEPT ![h] = None]
  /\ linked' = linked \ {h}
  /\ UNCHANGED table /\ HubOnly
-----------------------------------------------------------------------------
(* CloseCall, ReconcileActiveCalls and Close                                *)

\* The lifetime's context reaches everyone who took it.
Unlinked(c) == {o \in Owners : key[o] = c} \cup {h \in Hubs : hubCall[h] = c}

\* CloseCall cancels the lifetime and the owner and drops the entry; an owner
\* without a session leaves the table with it, a session is waited for.
CloseNow(c) ==
  /\ life' = [life EXCEPT ![c] = IF @ = "live" THEN "cancelled" ELSE @]
  /\ linked' = linked \ Unlinked(c)
  /\ table' = table \ EntryOf(c)
  /\ ended' = ended \cup OwnersOf(c)
  /\ held' = held \ {o \in OwnersOf(c) :
                       stage[o] \in {"check", "acquire", "wait", "commit"}}
  /\ UNCHANGED <<core, authority, stage, key, packets, connected, binding,
                 hubRef, hub, hubCall, alive>>

\* A revocation closes a call's media.
CloseCall(c) ==
  /\ life[c] = "live" \/ OwnersOf(c) # {} \/ EntryOf(c) # {}
  /\ CloseNow(c) /\ UNCHANGED sweep

\* Mutant: only calls with an owner are looked at.
StaleOwned(c) == OwnersOf(c) # {}
\* What is not in the snapshot and has a lifetime, an owner or a hub.
Stale(c) == life[c] # "none" \/ OwnersOf(c) # {} \/ EntryOf(c) # {}

Snapshot(active) ==
  /\ \A c \in Calls : sweep[c] = "no"
  /\ authority' = active
  /\ sweep' = [c \in Calls |-> IF c \notin active /\ Stale(c) THEN "stale" ELSE "no"]
  /\ UNCHANGED <<core, life, owner, linked, hubs, alive>>

SweepCall(c) ==
  /\ sweep[c] = "stale"
  /\ CloseNow(c)
  /\ sweep' = [sweep EXCEPT ![c] = "closed"]

\* The lifetime is dropped when CloseCall has waited, or has given up waiting.
DropLifetime(c) ==
  /\ sweep[c] = "closed"
  /\ sweep' = [sweep EXCEPT ![c] = "no"]
  /\ life' = [life EXCEPT ![c] = "none"]
  /\ UNCHANGED <<core, authority, owner, linked, hubs, alive>>

\* Close: no reservation and no lifetime outlives it ...
BeginClose ==
  /\ core = "open"
  /\ core' = "closing"
  /\ linked' = {} /\ ended' = held
  /\ life' = [c \in Calls |-> IF life[c] = "live" THEN "cancelled" ELSE life[c]]
  /\ UNCHANGED <<authority, sweep, stage, key, held, packets, connected,
                 binding, hubRef, hubs, alive>>

\* ... and it returns when nothing opens any more, the sessions have been
\* removed and the hubs of the table are done.
FinishClose ==
  /\ core = "closing"
  /\ \A o \in Owners : stage[o] = "free"
  /\ \A h \in Hubs : hub[h] \notin {"opening", "opened", "refused"}
  /\ \A h \in table : hub[h] \in {"done", "failed"}
  /\ core' = "closed"
  /\ held' = {} /\ table' = {} /\ authority' = {}
  /\ life' = [c \in Calls |-> "none"]
  /\ UNCHANGED <<sweep, stage, key, ended, packets, connected, binding,
                 hubRef, linked, hub, hubCall, alive>>
-----------------------------------------------------------------------------
OpenStep(o) == CheckHub(o) \/ HubReady(o) \/ Commit(o) \/ FailOpen(o)
BindStep(o) == Bound(o) \/ BindFails(o)
SessionEnds(o) == SessionDone(o) \/ RemoveOwner(o)
HubStep(h) == OpenReturns(h) \/ PublishHub(h) \/ HubDone(h)
SweepStep(c) == SweepCall(c) \/ DropLifetime(c)

MediaNext ==
  \/ \E o \in Owners :
       \/ \E c \in Calls : Reserve(o, c) \/ Activate(o, c)
       \/ \E h \in Hubs : AcquireHub(o, h) \/ BindHub(o, h)
       \/ OpenStep(o) \/ PrepareSocket(o) \/ BindStep(o)
       \/ FirstPacket(o) \/ NoticeConnected(o) \/ SessionStops(o)
       \/ SessionEnds(o) \/ ReleaseOwner(o)
  \/ \E h \in Hubs :
       \/ \E c \in Calls : Subscribe(c, h)
       \/ HubStep(h) \/ HubStops(h) \/ ReuseHub(h)
  \/ \E c \in Calls : CloseCall(c) \/ SweepStep(c)
  \/ \E active \in SUBSET Calls : Snapshot(active)
  \/ BeginClose \/ FinishClose

MediaSpec == MediaInit /\ [][MediaNext]_mediaVars
-----------------------------------------------------------------------------
(* Properties                                                               *)

\* The callbacks of successive owners arrive in order: what the ownership
\* manager was told last about a call is the truth about its present owner
\* (core.go:576).  Only an owner whose lifetime was cancelled may be connected
\* without a word: its connection was seen after the sweep had given up
\* waiting for its end (core.go:242, 578).
AliveIsTruth ==
  \A c \in Calls :
    /\ alive[c] => \E o \in OwnersOf(c) : o \in connected
    /\ \A o \in OwnersOf(c) \cap connected : o \in linked => alive[c]

\* However slowly an endpoint opens, and whatever closed the call meanwhile,
\* only one hub of a call is at work in a lifetime that is not cancelled.
OneHubPerCall ==
  \A c \in Calls :
    Cardinality({h \in Hubs : hubCall[h] = c /\ h \in linked
                   /\ hub[h] \in {"opening", "opened", "running"}}) <= 1

\* A session that runs for a call is that call's owner; a call that is closed
\* or replaced leaves no session behind that would still send its audio.
SessionIsOwner ==
  \A o \in Owners : stage[o] = "live" => o \in held

\* What the program says about a call's media, and what works for it, is what
\* the call's present owner has.
MediaIsTrue == AliveIsTruth /\ OneHubPerCall /\ SessionIsOwner

\* A call that has left the snapshot loses its owner and its endpoint.
GoneCallIsReleased ==
  \A c \in Calls :
    (c \notin authority) ~>
      \/ c \in authority
      \/ /\ OwnersOf(c) = {}
         /\ \A h \in Hubs : hubCall[h] = c => hub[h] \notin {"opened", "running"}
=============================================================================
