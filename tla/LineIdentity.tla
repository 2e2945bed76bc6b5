---------------------------- MODULE LineIdentity ----------------------------
(***************************************************************************)
(* Stable lines (internal/store/stable_lines.go and the line part of       *)
(* hardware.go, behind the quarantine of communication/snapshot_conflicts):*)
(* which line a SIM card seen in a modem belongs to, how lines that turn   *)
(* out to be one are merged with everything that refers to them, and where *)
(* a line is attached.  A snapshot is one transaction that visits the      *)
(* modems in the order it lists them.  Numbers are canonical, so the       *)
(* aliases of a number (PhoneAliases) do not occur.                        *)
(***************************************************************************)
EXTENDS Absence, Naturals, FiniteSets, SequencesExt

CONSTANTS
  Modems,     \* endpoints, each with its IMEI
  Cards,      \* ICCIDs
  Subs,       \* IMSIs
  Sub,        \* the IMSI of each card
  Numbers,    \* telephone numbers
  First,      \* the number all cards have at first: replacements of each other
  Rows,       \* messages and calls that may be stored
  MaxLine,    \* bound: lines ever made
  MaxMoves    \* bound: cards moved and renumbered

VARIABLES
  slot,       \* the card in each modem
  num,        \* the number of each card
  moves,
  lines,      \* modemdeck_lines: [id, number, policy]
  last,       \* the last line identifier made
  cards,      \* sim_cards: [id, line, at], at being current_imei
  subs,       \* sim_subscriptions: [id, line]
  devices,    \* devices with a card: [id, card]
  legacy,     \* modemdeck_legacy_endpoint_lines: [id, line]
  stored,     \* messages and calls: [id, line, number when it was stored]
  unstored    \* a row a command has still to store, or None

lineVars == <<slot, num, moves, lines, last, cards, subs, devices, legacy,
              stored, unstored>>
world == <<slot, num, moves>>

\* After an upgrade a modem may have a line without an identity.
LinesInit ==
  /\ slot \in [Modems -> {None} \cup Cards]
  /\ \A m, n \in Modems : slot[m] = slot[n] => m = n \/ slot[m] = None
  /\ num = [c \in Cards |-> First]
  /\ moves = 0
  /\ \E old \in SUBSET Modems :
       /\ Cardinality(old) <= 1
       /\ legacy = {[id |-> m, line |-> 1] : m \in old}
       /\ lines = {[id |-> 1, number |-> None, policy |-> "set"] : m \in old}
       /\ last = Cardinality(old)
  /\ cards = {} /\ subs = {} /\ devices = {} /\ stored = {}
  /\ unstored = None

\* The tables, as one transaction works on them.
Tables == [lines |-> lines, last |-> last, cards |-> cards, subs |-> subs,
           devices |-> devices, legacy |-> legacy, rows |-> stored,
           at |-> {}, ok |-> TRUE]

\* The row of a key, and the table with another row for it.
Ids(table) == {x.id : x \in table}
Get(table, k) == CHOOSE x \in table : x.id = k
ReplaceRow(table, new) == {x \in table : x.id # new.id} \cup {new}
LineOf(table, k) == IF k \in Ids(table) THEN Get(table, k).line ELSE None

-----------------------------------------------------------------------------
(* What a modem reports of its card: its identity without the number, or     *)
(* everything and whether it is registered.                                  *)

Empty == [iccid |-> None, imsi |-> None, number |-> None,
          registered |-> FALSE, present |-> FALSE]

Reports(m) ==
  LET c == slot[m]
      Seen(i, s, n, r) == [iccid |-> i, imsi |-> s, number |-> n,
                           registered |-> r, present |-> TRUE]
  IN IF c = None THEN {Empty}
     ELSE {Seen(c, Sub[c], None, FALSE)}
          \cup {Seen(c, Sub[c], num[c], r) : r \in BOOLEAN}

\* quarantineDuplicateSubscriptionAttachments: of the modems that claim the
\* same subscription, the only registered one keeps it, or the only present.
Shares(a, b) ==
  \/ a.iccid # None /\ a.iccid = b.iccid
  \/ a.imsi # None /\ a.imsi = b.imsi
  \/ a.number # None /\ a.number = b.number

\* Two modems share an identity through a chain of others, too.
Group(obs, m) ==
  LET Closed(S) == \A x \in S, y \in Modems : Shares(obs[x], obs[y]) => y \in S
      closed == {S \in SUBSET Modems : m \in S /\ Closed(S)}
  IN {x \in Modems : \A S \in closed : x \in S}

Only(S, m) == S = {m}

Quarantine(obs) ==
  [m \in Modems |->
     LET group == Group(obs, m)
         registered == {x \in group : obs[x].registered}
         present == {x \in group : obs[x].present}
     IN IF Cardinality(group) < 2 \/ Only(registered, m)
             \/ (registered = {} /\ Only(present, m))
        THEN obs[m] ELSE Empty]

-----------------------------------------------------------------------------
(* Which line an observation belongs to.                                     *)

NumberOf(db, l) == Get(db.lines, l).number

Matches(db, o) ==
  [iccid |-> LineOf(db.cards, o.iccid),
   imsi |-> LineOf(db.subs, o.imsi),
   number |-> IF \E x \in db.lines : o.number # None /\ x.number = o.number
              THEN (CHOOSE x \in db.lines : x.number = o.number).id ELSE None]

FirstOf(a, b) == IF a # None THEN a ELSE b

\* A number decides; without one a line that has a number does.
ChooseStableLineCanonical(db, m, n) ==
  LET Nameless(l) == l # None /\ NumberOf(db, l) = None
      Named(l) == l # None /\ NumberOf(db, l) # None
  IN IF n # None
     THEN IF m.number # None THEN m.number
          ELSE IF Nameless(m.iccid) THEN m.iccid
          ELSE IF Nameless(m.imsi) THEN m.imsi ELSE None
     ELSE IF Named(m.iccid) THEN m.iccid
          ELSE IF Named(m.imsi) THEN m.imsi
          ELSE FirstOf(m.iccid, m.imsi)

\* Mutant: a line with another number is merged too.
MergeableStableLineAliasesAll(db, canonical, number, candidates) ==
  candidates \ {canonical, None}

MergeableStableLineAliases(db, canonical, number, candidates) ==
  {l \in candidates \ {canonical, None} : NumberOf(db, l) \in {None, number}}

\* Mutant: the surviving line's own settings are kept.
MergedPolicyFirst(all) == (CHOOSE x \in all : \A y \in all : x.id <= y.id).policy

\* Settings made by hand win over those a line was made with.
MergedPolicy(all) ==
  IF \E x \in all : x.policy = "set" THEN "set"
  ELSE IF \E x \in all : x.policy = "initial" THEN "initial" ELSE "none"

\* Every reference moves.
Rebind(table, canonical, aliases) ==
  {IF x.line \in aliases THEN [x EXCEPT !.line = canonical] ELSE x : x \in table}

MergedMetadata(db, canonical, aliases) ==
  LET all == {x \in db.lines : x.id \in aliases \cup {canonical}}
      named == {x \in all : x.number # None}
  IN [id |-> canonical, policy |-> MergedPolicy(all),
      number |-> IF named = {} THEN None ELSE (CHOOSE x \in named : TRUE).number]

MergeStableLines(db, canonical, aliases) ==
  IF aliases = {} THEN db
  ELSE [db EXCEPT
          !.lines = {x \in @ : x.id \notin aliases \cup {canonical}}
                      \cup {MergedMetadata(db, canonical, aliases)},
          !.cards = Rebind(@, canonical, aliases),
          !.subs = Rebind(@, canonical, aliases),
          !.legacy = Rebind(@, canonical, aliases),
          !.rows = Rebind(@, canonical, aliases)]

\* The line an observation with these matches belongs to: one found, a new
\* one, or None when nothing identifies it.
LineFor(db, o, m) ==
  LET found == ChooseStableLineCanonical(db, m, o.number)
  IN IF found = None /\ {o.iccid, o.imsi, o.number} = {None} THEN None
     ELSE FirstOf(found, db.last + 1)

Made(db, o, line) ==
  IF line \in Ids(db.lines) THEN db
  ELSE [db EXCEPT !.last = line,
          !.lines = @ \cup {[id |-> line, number |-> o.number,
                             policy |-> "none"]}]

Merged(db, o, m, line) ==
  MergeStableLines(db, line,
    MergeableStableLineAliases(db, line,
      FirstOf(NumberOf(db, line), o.number), {m.iccid, m.imsi, m.number}))

Renamed(db, o, line) ==
  IF o.number = None THEN db
  ELSE [db EXCEPT
          !.lines = ReplaceRow(@, [Get(@, line) EXCEPT !.number = o.number])]

\* The tables after it and the line.
ResolveOrCreateStableLine(db, o, m, line) ==
  [line |-> line,
   db |-> IF line = None THEN db
          ELSE Renamed(Merged(Made(db, o, line), o, m, line), o, line)]

\* reconcileCurrentSIMAttachment, then the rows of the modem, the card and the
\* subscription.
Attach(db, m, line, o) ==
  LET c == o.iccid
      \* of the line or in the modem, and not this card in this modem
      leaving == {x \in db.cards : /\ (x.at = m /\ x.id # c)
                                      \/ (line # None /\ x.line = line)}
      vacated == {x \in db.devices : x.id = m \/ x.card = c
                    \/ \E y \in leaving : y.at = x.id}
      detached == {IF x \in leaving THEN [x EXCEPT !.at = None] ELSE x :
                     x \in db.cards}
  IN IF c = None
     THEN [db EXCEPT !.cards = detached, !.devices = @ \ vacated]
     ELSE [db EXCEPT
             !.cards = ReplaceRow(detached, [id |-> c, line |-> line, at |-> m]),
             !.devices = (@ \ vacated) \cup {[id |-> m, card |-> c]},
             !.subs = IF o.imsi = None THEN @
                      ELSE ReplaceRow(@, [id |-> o.imsi, line |-> line])]

\* The nameless lines an upgrade left at the modem.
Provisional(db, m) ==
  {l \in {x.line : x \in {y \in db.legacy : y.id = m}} : NumberOf(db, l) = None}

\* They are the line's, and the line gets a policy.
Claimed(db, m, line, provisional) ==
  LET claimed == MergeStableLines(db, line, provisional \ {line})
  IN [claimed EXCEPT
        !.legacy = IF provisional = {} THEN @ ELSE {x \in @ : x.id # m},
        !.lines = {IF x.id = line /\ x.policy = "none"
                   THEN [x EXCEPT !.policy = "initial"] ELSE x : x \in @}]

\* A snapshot that has a line in two modems is invalid.
PlacedAt(db, m, line) ==
  [db EXCEPT !.at = @ \cup {[id |-> m, line |-> line]},
             !.ok = @ /\ \A x \in db.at : x.line # line]

Settled(r, m, o, provisional) ==
  IF r.line = None THEN Attach(r.db, m, None, o)
  ELSE PlacedAt(Attach(Claimed(r.db, m, r.line, provisional), m, r.line, o),
              m, r.line)

Identified(db, m, o, matches) ==
  Settled(ResolveOrCreateStableLine(db, o, matches, LineFor(db, o, matches)),
          m, o, Provisional(db, m))

UpsertHardwareLine(db, m, o) == Identified(db, m, o, Matches(db, o))

\* A stored row remembers the number its line had.
Stored(r, l, db) == [id |-> r, line |-> l, number |-> NumberOf(db, l)]

-----------------------------------------------------------------------------
(* Steps.                                                                    *)

\* A card is moved by hand, or gets another number.
MoveCard(c, m) ==
  /\ moves < MaxMoves
  /\ slot[m] # c
  /\ slot' = [x \in Modems |-> IF x = m THEN c
                               ELSE IF slot[x] = c THEN None ELSE slot[x]]
  /\ moves' = moves + 1
  /\ UNCHANGED <<num, lines, last, cards, subs, devices, legacy, stored,
                  unstored>>

Renumber(c, n) ==
  /\ moves < MaxMoves /\ num[c] # n
  /\ num' = [num EXCEPT ![c] = n]
  /\ moves' = moves + 1
  /\ UNCHANGED <<slot, lines, last, cards, subs, devices, legacy, stored,
                  unstored>>

\* An administrator sets a line's policy.
SetPolicy(x) ==
  /\ x.policy = "initial"
  /\ lines' = ReplaceRow(lines, [x EXCEPT !.policy = "set"])
  /\ UNCHANGED <<world, last, cards, subs, devices, legacy, stored, unstored>>

\* The tables after each modem of a snapshot, in the order of its list.
Visits(seen, order) ==
  LET after[n \in 0 .. Len(order)] ==
        IF n = 0 THEN Tables
        ELSE UpsertHardwareLine(after[n - 1], order[n], seen[order[n]])
  IN after

Visited(obs, order) == Visits(Quarantine(obs), order)[Len(order)]

\* ApplyHardwareSnapshotWithResult: the lines, and at most one new message or
\* call, of the modem `new`.  A snapshot that has a line in two modems is
\* refused as invalid: nothing of it is kept.
Commit(db, new) ==
  LET r == CHOOSE x \in Rows : x \notin Ids(stored)
  IN /\ db.ok /\ db.last <= MaxLine
     /\ new # None => new \in Ids(db.at) /\ Ids(stored) # Rows
     /\ lines' = db.lines /\ last' = db.last /\ cards' = db.cards
     /\ subs' = db.subs /\ devices' = db.devices /\ legacy' = db.legacy
     /\ stored' = IF new = None THEN db.rows
                ELSE db.rows \cup {Stored(r, LineOf(db.at, new), db)}
     /\ UNCHANGED <<world, unstored>>

\* A modem that is unplugged is not listed, and keeps what is stored of it.
TakeSnapshot ==
  \E plugged \in SUBSET Modems :
    \E obs \in [Modems -> {Empty} \cup UNION {Reports(m) : m \in plugged}] :
      /\ \A m \in Modems :
           obs[m] \in IF m \in plugged THEN Reports(m) ELSE {Empty}
      /\ \E order \in SetToSeqs(plugged) :
           \E db \in {Visited(obs, order)} :
             \E new \in {None} \cup Modems : Commit(db, new)

\* A message is sent through the modem of a line: its row is stored when the
\* agent has answered, and the line may have been merged by then.
SendFrom(x) ==
  /\ unstored = None
  /\ x.at # None
  /\ unstored' = [line |-> x.line, card |-> x.id]
  /\ UNCHANGED <<world, lines, last, cards, subs, devices, legacy, stored>>

\* resolveStoredHardwareLine: the line if it still exists, else the line of
\* the identities the agent answered with.
StoreSent ==
  /\ unstored # None /\ Ids(stored) # Rows
  /\ LET m == Matches(Tables, [Empty EXCEPT !.iccid = unstored.card,
                                            !.imsi = Sub[unstored.card]])
         l == IF unstored.line \in Ids(lines) THEN unstored.line
              ELSE FirstOf(m.iccid, m.imsi)
         r == CHOOSE x \in Rows : x \notin Ids(stored)
     IN stored' = stored \cup (IF l = None THEN {} ELSE {Stored(r, l, Tables)})
  /\ unstored' = None
  /\ UNCHANGED <<world, lines, last, cards, subs, devices, legacy>>

LinesNext ==
  \/ \E c \in Cards, m \in Modems : MoveCard(c, m)
  \/ \E c \in Cards, n \in Numbers : Renumber(c, n)
  \/ \E x \in lines : SetPolicy(x)
  \/ TakeSnapshot
  \/ \E x \in cards : SendFrom(x)
  \/ StoreSent

-----------------------------------------------------------------------------
\* A line is attached at one modem, and the modem and the card agree about it
\* (reconcileCurrentSIMAttachment).
AttachmentIsExclusive ==
  /\ {<<x.id, x.card>> : x \in devices} =
       {<<x.at, x.id>> : x \in {y \in cards : y.at # None}}
  /\ \A x, y \in cards : x.line = y.line /\ x # y => None \in {x.at, y.at}

\* Whatever names a line names one that exists, and a number names one line
\* (mergeStableLines).
ReferencesResolve ==
  /\ \A x \in cards \cup subs \cup legacy \cup stored : x.line \in Ids(lines)
  /\ \A x, y \in lines : x.number = y.number => x = y \/ x.number = None

\* History stored under a number stays under that number
\* (chooseStableLineCanonical, mergeableStableLineAliases).
HistoryKeepsNumber ==
  \A x \in stored :
    x.number # None => Get(lines, x.line).number = x.number

LinesAreTrue ==
  AttachmentIsExclusive /\ ReferencesResolve /\ HistoryKeepsNumber

\* A merge takes the settings made by hand along with the history, and with
\* the card (mergeStableLineCallPolicy).
SettingsFollowHistory ==
  \A x \in stored, y \in stored' :
    x.id = y.id /\ Get(lines, x.line).policy = "set" =>
      Get(lines', y.line).policy = "set"
=============================================================================
