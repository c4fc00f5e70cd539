------------------------------ MODULE HailoProofs ------------------------------
(***************************************************************************)
(* Proofs about the Hailo provider: for any streams, tables and timings    *)
(* with a first-frame timeout longer than the backoff, the types, the one  *)
(* child, the session that covers the cycle, and the backoff that is kept. *)
(***************************************************************************)
EXTENDS HailoProvider, TLAPS

-----------------------------------------------------------------------------
(***************************************************************************)
(* The inductive invariant.                                                *)
(***************************************************************************)

\* The fingerprint tells what the session is: none, or a child that was started for it.
ActiveTellsSession ==
    IF provider.active = {} THEN Current = NoSession
    ELSE Current.streams = provider.active /\ Current.process # "none"

\* A session is never one whose backoff still runs.
SessionNotBackedOff ==
    Current.process # "none" => provider.backoff[Current.streams] = 0

\* A backoff that was running when the session was started is over before the session can
\* time out: this is where the first-frame timeout has to exceed the backoff.
BackoffsOutlived ==
    Current.process # "none" =>
        \A ss \in SUBSET Streams :
            provider.backoff[ss] = 0 \/ provider.backoff[ss] + Current.age <= Backoff

\* When a camera has missed its first frame, what is started for the cameras still to be
\* asked for is not backing off, and is too young to time out in the same cycle.
RestOfMissedCycle ==
    pc = "cameras" /\ history.missed =>
        /\ \A c \in todo : provider.backoff[Wanted(c)] = 0
        /\ Current.age = 0

\* The backoff of the session stopped last runs as long as the history remembers it.
StoppedBacksOff ==
    history.stopped # Never =>
        /\ history.stopped.streams # {}
        /\ provider.backoff[history.stopped.streams] = Backoff - history.stopped.age

IInv ==
    /\ TypeOK
    /\ OneChild
    /\ SessionCoversCycle
    /\ ActiveTellsSession
    /\ SessionNotBackedOff
    /\ BackoffsOutlived
    /\ RestOfMissedCycle
    /\ StoppedBacksOff

-----------------------------------------------------------------------------
(* The provider's methods. *)

\* OneChild, of any provider.
HoldsOneChild(p) == p.children = IF p.session.process = "running" THEN 1 ELSE 0

\* What the worker and a session start with.
LEMMA NewTypes ==
    /\ NoSession \in Sessions
    /\ NoSession.streams = {} /\ NoSession.process = "none" /\ NoSession.age = 0
    /\ \A ss \in SUBSET Streams, telemetry \in BOOLEAN :
        LET new == NewSession(ss, telemetry)
        IN  /\ new \in Sessions
            /\ new.streams = ss /\ new.process = "running" /\ new.age = 0
    /\ NoBackoffs \in [SUBSET Streams -> 0 .. Backoff]
    /\ NewProvider \in Providers
<1>1. /\ 0 \in 0 .. FirstFrameTimeout
      /\ 0 \in 0 .. Backoff
  BY HailoAssumption
<1>2. \A ss \in SUBSET Streams, telemetry \in BOOLEAN :
        LET new == NewSession(ss, telemetry)
        IN  /\ new \in Sessions
            /\ new.streams = ss /\ new.process = "running" /\ new.age = 0
  BY <1>1 DEF NewSession, Sessions
<1>3. /\ NoSession \in Sessions
      /\ NoSession.streams = {} /\ NoSession.process = "none" /\ NoSession.age = 0
  <2>1. NewSession({}, FALSE) \in Sessions /\ NewSession({}, FALSE).streams = {}
        /\ NewSession({}, FALSE).age = 0
    BY <1>2
  <2>2. QED
    BY <2>1 DEF NoSession, Sessions
<1>4. NoBackoffs \in [SUBSET Streams -> 0 .. Backoff]
  BY <1>1 DEF NoBackoffs
<1>5. NewProvider \in Providers
  BY <1>3, <1>4 DEF NewProvider, Providers
<1>6. QED
  BY <1>2, <1>3, <1>4, <1>5

(* An assignment to one field of a provider, one field after the other. *)

\* Assigning session leaves the other fields alone.
LEMMA SessionReplaced ==
    ASSUME NEW p \in Providers, NEW x \in Sessions
    PROVE  LET q == [p EXCEPT !.session = x]
           IN  /\ q \in Providers /\ q.session = x
               /\ q.active = p.active /\ q.backoff = p.backoff /\ q.telemetry = p.telemetry
               /\ q.telemetryError = p.telemetryError /\ q.children = p.children
BY DEF Providers

\* Assigning active leaves the other fields alone.
LEMMA ActiveReplaced ==
    ASSUME NEW p \in Providers, NEW x \in SUBSET Streams
    PROVE  LET q == [p EXCEPT !.active = x]
           IN  /\ q \in Providers /\ q.active = x
               /\ q.session = p.session /\ q.backoff = p.backoff /\ q.telemetry = p.telemetry
               /\ q.telemetryError = p.telemetryError /\ q.children = p.children
BY DEF Providers

\* Assigning backoff leaves the other fields alone.
LEMMA BackoffReplaced ==
    ASSUME NEW p \in Providers, NEW x \in [SUBSET Streams -> 0 .. Backoff]
    PROVE  LET q == [p EXCEPT !.backoff = x]
           IN  /\ q \in Providers /\ q.backoff = x
               /\ q.session = p.session /\ q.active = p.active /\ q.telemetry = p.telemetry
               /\ q.telemetryError = p.telemetryError /\ q.children = p.children
BY DEF Providers

\* Assigning telemetry leaves the other fields alone.
LEMMA TelemetryReplaced ==
    ASSUME NEW p \in Providers, NEW x \in BOOLEAN
    PROVE  LET q == [p EXCEPT !.telemetry = x]
           IN  /\ q \in Providers /\ q.telemetry = x
               /\ q.session = p.session /\ q.active = p.active /\ q.backoff = p.backoff
               /\ q.telemetryError = p.telemetryError /\ q.children = p.children
BY DEF Providers

\* Assigning telemetryError leaves the other fields alone.
LEMMA ErrorReplaced ==
    ASSUME NEW p \in Providers, NEW x \in BOOLEAN
    PROVE  LET q == [p EXCEPT !.telemetryError = x]
           IN  /\ q \in Providers /\ q.telemetryError = x
               /\ q.session = p.session /\ q.active = p.active /\ q.backoff = p.backoff
               /\ q.telemetry = p.telemetry /\ q.children = p.children
BY DEF Providers

\* Assigning children leaves the other fields alone.
LEMMA ChildrenReplaced ==
    ASSUME NEW p \in Providers, NEW x \in Nat
    PROVE  LET q == [p EXCEPT !.children = x]
           IN  /\ q \in Providers /\ q.children = x
               /\ q.session = p.session /\ q.active = p.active /\ q.backoff = p.backoff
               /\ q.telemetry = p.telemetry /\ q.telemetryError = p.telemetryError
BY DEF Providers

\* Stopping a session terminates its child and keeps everything else.
LEMMA StoppedFacts ==
    ASSUME NEW p \in Providers, HoldsOneChild(p)
    PROVE  LET q == Stopped(p)
           IN  /\ q \in Providers /\ q.children = 0
               /\ q.session.process = "none" /\ q.session.streams = p.session.streams
               /\ q.active = p.active /\ q.backoff = p.backoff
               /\ q.telemetry = p.telemetry /\ q.telemetryError = p.telemetryError
<1> DEFINE session == [p.session EXCEPT !.process = "none"]
           r       == [p EXCEPT !.session = session]
           q       == [r EXCEPT !.children = 0]
<1>1. /\ p.session \in Sessions
      /\ p.children \in Nat
  BY DEF Providers
<1>2. /\ session \in Sessions
      /\ session.process = "none" /\ session.streams = p.session.streams
  BY <1>1 DEF Sessions
<1>3. p.children - (IF p.session.process = "running" THEN 1 ELSE 0) = 0
  BY <1>1 DEF HoldsOneChild
<1>4. Stopped(p) = q
  <2>1. r.children = p.children
    OBVIOUS
  <2>2. Stopped(p) = [r EXCEPT !.children =
                          @ - IF p.session.process = "running" THEN 1 ELSE 0]
    BY DEF Stopped
  <2> HIDE DEF r
  <2>3. QED
    BY <1>3, <2>1, <2>2
<1> HIDE DEF session
<1>5. /\ r \in Providers /\ r.session = session
      /\ r.active = p.active /\ r.backoff = p.backoff
      /\ r.telemetry = p.telemetry /\ r.telemetryError = p.telemetryError
  BY <1>2, SessionReplaced
<1> HIDE DEF r
<1>6. /\ q \in Providers /\ q.children = 0 /\ q.session = r.session
      /\ q.active = r.active /\ q.backoff = r.backoff
      /\ q.telemetry = r.telemetry /\ q.telemetryError = r.telemetryError
  BY <1>5, ChildrenReplaced
<1>7. QED
  BY <1>2, <1>4, <1>5, <1>6

\* Dropping a session stops it and forgets it.
LEMMA DroppedFacts ==
    ASSUME NEW p \in Providers, HoldsOneChild(p)
    PROVE  LET q == Dropped(p)
           IN  /\ q \in Providers /\ HoldsOneChild(q)
               /\ q.children = 0 /\ q.session = NoSession
               /\ q.active = p.active /\ q.backoff = p.backoff
               /\ q.telemetry = p.telemetry /\ q.telemetryError = p.telemetryError
<1> DEFINE r == Stopped(p)
           q == [r EXCEPT !.session = NoSession]
<1>1. /\ r \in Providers /\ r.children = 0
      /\ r.active = p.active /\ r.backoff = p.backoff
      /\ r.telemetry = p.telemetry /\ r.telemetryError = p.telemetryError
  BY StoppedFacts
<1>2. Dropped(p) = q
  BY DEF Dropped
<1> HIDE DEF r
<1>3. /\ q \in Providers /\ q.session = NoSession /\ q.children = r.children
      /\ q.active = r.active /\ q.backoff = r.backoff
      /\ q.telemetry = r.telemetry /\ q.telemetryError = r.telemetryError
  BY <1>1, NewTypes, SessionReplaced
<1> HIDE DEF q
<1>4. QED
  BY <1>1, <1>2, <1>3, NewTypes DEF HoldsOneChild

\* Starting a session leaves one child, the new session's, or none if it is backing off.
LEMMA StartedFacts ==
    ASSUME NEW p \in Providers, HoldsOneChild(p),
           NEW streams \in SUBSET Streams, NEW telemetry \in BOOLEAN
    PROVE  LET q == Started(p, streams, telemetry)
           IN  /\ q \in Providers /\ HoldsOneChild(q)
               /\ q.backoff = p.backoff
               /\ BackingOff(p, streams) =>
                      /\ q.session.process = "none"
                      /\ q.session.streams = p.session.streams
                      /\ q.active = p.active
               /\ ~BackingOff(p, streams) =>
                      /\ q.session = NewSession(streams, telemetry)
                      /\ q.active = streams
<1> DEFINE r == Stopped(p)
           new == NewSession(streams, telemetry)
           a == [r EXCEPT !.session = new]
           b == [a EXCEPT !.active = streams]
           q == [b EXCEPT !.children = @ + 1]
<1>1. /\ r \in Providers /\ r.children = 0 /\ r.active = p.active /\ r.backoff = p.backoff
      /\ r.session.process = "none" /\ r.session.streams = p.session.streams
  BY StoppedFacts
<1>2. /\ new \in Sessions
      /\ new.process = "running"
  BY NewTypes
<1>3. Started(p, streams, telemetry) = IF BackingOff(p, streams) THEN r ELSE q
  BY DEF Started
<1> HIDE DEF r, new
<1>4. /\ a \in Providers /\ a.session = new /\ a.backoff = r.backoff /\ a.children = 0
  BY <1>1, <1>2, SessionReplaced
<1> HIDE DEF a
<1>5. /\ b \in Providers /\ b.session = new /\ b.active = streams
      /\ b.backoff = r.backoff /\ b.children = 0
  BY <1>4, ActiveReplaced
<1> HIDE DEF b
<1>6. /\ q \in Providers /\ q.session = new /\ q.active = streams
      /\ q.backoff = r.backoff /\ q.children = 1
  <2>1. q = [b EXCEPT !.children = 1]
    BY <1>5
  <2>2. QED
    BY <1>5, <2>1, ChildrenReplaced, 1 \in Nat
<1> HIDE DEF q
<1>7. QED
  BY <1>1, <1>2, <1>3, <1>6 DEF HoldsOneChild, new
-----------------------------------------------------------------------------
(***************************************************************************)
(* The steps.  A step either keeps the session, or replaces it by a new    *)
(* one that is not backing off, or leaves none.  StreamsFollow is what     *)
(* BackoffKept needs of it.                                                *)
(***************************************************************************)
StreamsFollow ==
    \/ Current.streams' = Current.streams
    \/ Current.streams' = {}
    \/ Current.streams' \in SUBSET Streams /\ provider.backoff[Current.streams'] = 0

\* Nothing runs and no backoff is remembered: so it is at first, after a restart of the
\* worker, when telemetry is switched and when no camera is left.
Fresh ==
    /\ provider.session = NoSession /\ provider.active = {} /\ provider.children = 0
    /\ history.stopped = Never
    /\ pc = "cameras" => listed = {} /\ ~history.missed

\* A provider with nothing running satisfies the invariant.
LEMMA FreshFacts == TypeOK /\ Fresh => IInv
<1> SUFFICES ASSUME TypeOK, Fresh PROVE IInv
  OBVIOUS
<1>1. OneChild /\ ActiveTellsSession /\ SessionNotBackedOff /\ BackoffsOutlived
  BY NewTypes DEF Fresh, Current, OneChild, ActiveTellsSession, SessionNotBackedOff,
                  BackoffsOutlived
<1>2. SessionCoversCycle /\ RestOfMissedCycle /\ StoppedBacksOff
  BY NewTypes DEF Fresh, Current, SessionCoversCycle, RestOfMissedCycle, StoppedBacksOff
<1>3. QED
  BY <1>1, <1>2 DEF IInv

\* A step that leaves a provider with nothing running keeps the invariant.
LEMMA FreshStep ==
    ASSUME TypeOK', Fresh'
    PROVE  IInv' /\ StreamsFollow
<1>1. IInv'
  BY FreshFacts, PTL
<1>2. StreamsFollow
  BY NewTypes DEF Fresh, StreamsFollow, Current
<1>3. QED
  BY <1>1, <1>2

\* A new session, started for a set of streams that is not backing off, and which are all
\* of the cycle unless a camera was missed: the invariant holds of it.
LEMMA NewSessionStep ==
    ASSUME IInv, TypeOK', OneChild',
           NEW ss \in SUBSET Streams, NEW telemetry \in BOOLEAN,
           ss # {}, provider.backoff[ss] = 0,
           Current' = NewSession(ss, telemetry), provider'.active = ss,
           provider'.backoff = provider.backoff,
           history'.stopped = history.stopped,
           pc' = "cameras",
           ~history'.missed => ss = listed',
           history'.missed => pc = "cameras" /\ history.missed
                              /\ listed' = listed /\ todo' \subseteq todo
    PROVE  IInv' /\ StreamsFollow
<1>1. Current'.streams = ss /\ Current'.process = "running" /\ Current'.age = 0
  BY NewTypes
<1>2. provider.backoff \in [SUBSET Streams -> 0 .. Backoff]
  BY DEF IInv, TypeOK, Providers
<1>3. StreamsFollow
  BY <1>1 DEF StreamsFollow
<1>4. SessionCoversCycle' /\ ActiveTellsSession' /\ SessionNotBackedOff'
  BY <1>1 DEF SessionCoversCycle, ActiveTellsSession, SessionNotBackedOff, Current
<1>5. BackoffsOutlived'
  BY <1>1, <1>2, HailoAssumption DEF BackoffsOutlived, Current
<1>6. RestOfMissedCycle'
  BY <1>1 DEF IInv, RestOfMissedCycle, Wanted, Current
<1>7. StoppedBacksOff'
  BY DEF IInv, StoppedBacksOff
<1>8. QED
  BY <1>3, <1>4, <1>5, <1>6, <1>7 DEF IInv

\* A step that keeps the session, its age, the backoffs and what is remembered of them.
LEMMA SameSessionStep ==
    ASSUME IInv, TypeOK', OneChild',
           Current'.streams = Current.streams, Current'.age = Current.age,
           Current'.process = "none" <=> Current.process = "none",
           provider.active = {} => Current' = Current,
           provider'.active = provider.active, provider'.backoff = provider.backoff,
           history' = history,
           pc' = "cameras" => pc = "cameras" /\ listed' = listed /\ todo' \subseteq todo
    PROVE  IInv' /\ StreamsFollow
<1>1. StreamsFollow
  BY DEF StreamsFollow
<1>2. SessionCoversCycle' /\ ActiveTellsSession'
  BY DEF IInv, SessionCoversCycle, ActiveTellsSession, Current
<1>3. SessionNotBackedOff' /\ BackoffsOutlived'
  BY DEF IInv, SessionNotBackedOff, BackoffsOutlived, Current
<1>4. RestOfMissedCycle' /\ StoppedBacksOff'
  BY DEF IInv, RestOfMissedCycle, StoppedBacksOff, Wanted, Current
<1>5. QED
  BY <1>1, <1>2, <1>3, <1>4 DEF IInv

-----------------------------------------------------------------------------
(* The actions. *)

\* The death of the worker.
LEMMA DiesStep ==
    ASSUME IInv, Dies
    PROVE  IInv' /\ StreamsFollow
<1>1. TypeOK'
  BY NewTypes, HailoAssumption
  DEF IInv, TypeOK, Dies, external, NoAnswer, Never, CamerasOf
<1>2. Fresh'
  BY DEF Dies, Fresh, NewProvider
<1>3. QED
  BY <1>1, <1>2, FreshStep

\* The telemetry switch.
LEMMA SyncStep ==
    ASSUME IInv, SyncTelemetry
    PROVE  IInv' /\ StreamsFollow
<1>1. CASE UNCHANGED <<provider, history>>
  <2>1. TypeOK'
    BY <1>1 DEF IInv, TypeOK, SyncTelemetry, external
  <2>2. QED
    BY <1>1, <2>1, SameSessionStep DEF IInv, OneChild, Current, SyncTelemetry
<1>2. CASE ~UNCHANGED <<provider, history>>
  <2> DEFINE d == Dropped(provider)
             a == [d EXCEPT !.telemetry = asked]
             b == [a EXCEPT !.backoff = NoBackoffs]
             c == [b EXCEPT !.active = {}]
  <2>1. /\ provider' = c
        /\ history' = [history EXCEPT !.stopped = Never]
    BY <1>2 DEF SyncTelemetry, Switched
  <2>2. d \in Providers /\ d.children = 0 /\ d.session = NoSession
    BY DroppedFacts DEF IInv, TypeOK, OneChild, HoldsOneChild, Current
  <2> HIDE DEF d
  <2>3. a \in Providers /\ a.children = 0 /\ a.session = NoSession
    BY <2>2, TelemetryReplaced DEF IInv, TypeOK
  <2> HIDE DEF a
  <2>4. b \in Providers /\ b.children = 0 /\ b.session = NoSession
    <3>1. NoBackoffs \in [SUBSET Streams -> 0 .. Backoff]
      BY NewTypes
    <3>2. QED
      BY <2>3, <3>1, BackoffReplaced
  <2> HIDE DEF b
  <2>5. c \in Providers /\ c.children = 0 /\ c.session = NoSession /\ c.active = {}
    BY <2>4, ActiveReplaced
  <2> HIDE DEF c
  <2>6. TypeOK'
    BY <2>1, <2>5, HailoAssumption DEF IInv, TypeOK, SyncTelemetry, external, Never
  <2>7. Fresh'
    BY <2>1, <2>5 DEF Fresh, SyncTelemetry, IInv, TypeOK
  <2>8. QED
    BY <2>6, <2>7, FreshStep
<1>3. QED
  BY <1>1, <1>2

\* Pruning when no camera is left.
LEMMA PruneToNoneStep ==
    ASSUME IInv, PruneToNone
    PROVE  IInv' /\ StreamsFollow
<1> DEFINE d == Dropped(provider)
           a == [d EXCEPT !.active = {}]
           b == [a EXCEPT !.backoff = NoBackoffs]
<1>1. /\ provider' = b
      /\ history' = [missed |-> FALSE, stopped |-> Never]
  BY DEF PruneToNone, IInv, TypeOK
<1>2. d \in Providers /\ d.children = 0 /\ d.session = NoSession
  BY DroppedFacts DEF IInv, TypeOK, OneChild, HoldsOneChild, Current
<1> HIDE DEF d
<1>3. a \in Providers /\ a.children = 0 /\ a.session = NoSession /\ a.active = {}
  BY <1>2, ActiveReplaced
<1> HIDE DEF a
<1>4. b \in Providers /\ b.children = 0 /\ b.session = NoSession /\ b.active = {}
  <2>1. NoBackoffs \in [SUBSET Streams -> 0 .. Backoff]
    BY NewTypes
  <2>2. QED
    BY <1>3, <2>1, BackoffReplaced
<1> HIDE DEF b
<1>5. TypeOK'
  <2>1. history' \in [missed : BOOLEAN,
                      stopped : [streams : SUBSET Streams, age : 0 .. Backoff - 1]]
    BY <1>1, HailoAssumption DEF Never
  <2>2. QED
    BY <1>1, <1>4, <2>1 DEF IInv, TypeOK, PruneToNone, Listing, external
<1>6. Fresh'
  BY <1>1, <1>4 DEF Fresh, PruneToNone, Listing
<1>7. QED
  BY <1>5, <1>6, FreshStep

\* Pruning against the cameras of the database.
LEMMA PruneStep ==
    ASSUME IInv, Prune
    PROVE  IInv' /\ StreamsFollow
<1>1. /\ table \in Tables /\ table \in SUBSET Streams /\ table # {}
      /\ history' = [missed |-> FALSE, stopped |-> history.stopped]
      /\ provider.telemetry \in BOOLEAN /\ provider.backoff \in [SUBSET Streams -> 0 .. Backoff]
      /\ provider \in Providers
  BY HailoAssumption DEF IInv, TypeOK, Prune, Providers
<1>2. ASSUME provider' \in Providers PROVE TypeOK'
  BY <1>1, <1>2 DEF IInv, TypeOK, Prune, Listing, external
<1>3. CASE table = provider.active
  <2>1. provider' = provider /\ Current' = Current
    BY <1>3 DEF Prune, Current
  <2>2. TypeOK' /\ OneChild'
    BY <1>1, <1>2, <2>1 DEF IInv, OneChild
  <2>3. Current.streams = table /\ Current.process # "none"
    BY <1>1, <1>3 DEF IInv, ActiveTellsSession
  <2>4. StreamsFollow
    BY <2>1 DEF StreamsFollow
  <2>5. SessionCoversCycle' /\ RestOfMissedCycle'
    BY <1>1, <1>3, <2>1, <2>3 DEF SessionCoversCycle, RestOfMissedCycle, Prune, Listing
  <2>6. ActiveTellsSession' /\ SessionNotBackedOff' /\ BackoffsOutlived' /\ StoppedBacksOff'
    BY <1>1, <2>1 DEF IInv, ActiveTellsSession, SessionNotBackedOff, BackoffsOutlived,
                      StoppedBacksOff, Current
  <2>7. QED
    BY <2>2, <2>4, <2>5, <2>6 DEF IInv
<1>4. CASE table # provider.active
  <2> DEFINE q == Started(provider, table, provider.telemetry)
  <2>1. ~BackingOff(provider, table) /\ provider.backoff[table] = 0 /\ provider' = q
    BY <1>1, <1>4 DEF Prune, BackingOff
  <2>2. /\ q \in Providers /\ HoldsOneChild(q) /\ q.backoff = provider.backoff
        /\ q.session = NewSession(table, provider.telemetry) /\ q.active = table
    BY <1>1, <2>1, StartedFacts DEF IInv, OneChild, HoldsOneChild, Current
  <2> HIDE DEF q
  <2>3. TypeOK' /\ OneChild'
    BY <1>2, <2>1, <2>2 DEF OneChild, HoldsOneChild, Current
  <2>4. Current' = NewSession(table, provider.telemetry)
    BY <2>1, <2>2 DEF Current
  <2>5. pc' = "cameras" /\ listed' = table
    BY DEF Prune, Listing
  <2>6. QED
    BY <1>1, <2>1, <2>2, <2>3, <2>4, <2>5, NewSessionStep
<1>5. QED
  BY <1>3, <1>4

-----------------------------------------------------------------------------
(* The requests for one camera. *)

\* The types after a request, given those of the provider and what history remembers.
LEMMA AnsweredTypes ==
    ASSUME IInv, NEW c \in Cameras,
           NEW health \in {"waiting", "online", "stream_error"}, Answered(c, health),
           provider' \in Providers,
           history' \in [missed : BOOLEAN,
                         stopped : [streams : SUBSET Streams, age : 0 .. Backoff - 1]]
    PROVE  TypeOK'
BY DEF IInv, TypeOK, Answered, external, CamerasOf

\* A request for a camera the session does not know.
LEMMA StartForOneStep ==
    ASSUME IInv, NEW c \in Cameras, StartForOne(c)
    PROVE  IInv' /\ StreamsFollow
<1> DEFINE q == Started(provider, Wanted(c), provider.telemetry)
<1>1. /\ pc = "cameras" /\ c \in todo /\ c \in CamerasOf(listed)
      /\ c \notin CamerasOf(Current.streams)
      /\ provider' = q /\ history' = history
      /\ Answered(c, "waiting")
  BY DEF IInv, TypeOK, StartForOne, Asking, Covers
<1>2. history.missed
  BY <1>1 DEF IInv, SessionCoversCycle
<1>3. /\ provider.backoff[Wanted(c)] = 0
      /\ ~BackingOff(provider, Wanted(c))
  BY <1>1, <1>2 DEF IInv, RestOfMissedCycle, BackingOff
<1>4. Wanted(c) \in SUBSET Streams /\ Wanted(c) # {}
  BY <1>1, HailoAssumption DEF Wanted, CamerasOf, IInv, TypeOK
<1>5. /\ q \in Providers /\ HoldsOneChild(q) /\ q.backoff = provider.backoff
      /\ q.session = NewSession(Wanted(c), provider.telemetry) /\ q.active = Wanted(c)
      /\ provider.telemetry \in BOOLEAN
  <2>1. provider \in Providers /\ provider.telemetry \in BOOLEAN /\ HoldsOneChild(provider)
    BY DEF IInv, TypeOK, OneChild, HoldsOneChild, Current, Providers
  <2>2. QED
    BY <1>3, <1>4, <2>1, StartedFacts
<1> HIDE DEF q
<1>6. TypeOK' /\ OneChild'
  BY <1>1, <1>5, AnsweredTypes DEF IInv, TypeOK, OneChild, HoldsOneChild, Current
<1>7. Current' = NewSession(Wanted(c), provider.telemetry)
  BY <1>1, <1>5 DEF Current
<1>8. pc' = "cameras" /\ listed' = listed /\ todo' \subseteq todo
  BY <1>1 DEF Answered
<1>9. QED
  BY <1>1, <1>2, <1>3, <1>4, <1>5, <1>6, <1>7, <1>8, NewSessionStep

\* What holds of a session that covers a camera, and of its restart: it was not backing
\* off, and it is the cycle's session when no camera has been missed.
LEMMA RestartedFacts ==
    ASSUME IInv, NEW c \in Cameras, Asking(c), Covers(c), Exited(Current),
           NEW telemetry \in BOOLEAN
    PROVE  LET q == Started(Dropped(provider), Current.streams, telemetry)
           IN  /\ Current.streams \in SUBSET Streams /\ Current.streams # {}
               /\ provider.backoff[Current.streams] = 0
               /\ ~history.missed => Current.streams = listed
               /\ q \in Providers /\ HoldsOneChild(q) /\ q.backoff = provider.backoff
               /\ q.session = NewSession(Current.streams, telemetry)
               /\ q.active = Current.streams
<1> DEFINE d == Dropped(provider)
           q == Started(d, Current.streams, telemetry)
<1>1. Current.streams \in SUBSET Streams /\ Current.streams # {}
  <2>1. Current \in Sessions
    BY DEF IInv, TypeOK, Providers, Current
  <2>2. QED
    BY <2>1 DEF Covers, CamerasOf, Sessions
<1>2. provider.backoff[Current.streams] = 0
  BY DEF IInv, SessionNotBackedOff, Exited
<1>3. ~history.missed => Current.streams = listed
  BY DEF IInv, SessionCoversCycle, Asking
<1>4. d \in Providers /\ HoldsOneChild(d) /\ d.backoff = provider.backoff
  BY DroppedFacts DEF IInv, TypeOK, OneChild, HoldsOneChild, Current
<1>5. ~BackingOff(d, Current.streams)
  BY <1>2, <1>4 DEF BackingOff
<1> HIDE DEF d
<1>6. /\ q \in Providers /\ HoldsOneChild(q) /\ q.backoff = d.backoff
      /\ q.session = NewSession(Current.streams, telemetry) /\ q.active = Current.streams
  BY <1>1, <1>4, <1>5, StartedFacts
<1>7. QED
  BY <1>1, <1>2, <1>3, <1>4, <1>6 DEF d

\* The restart of a session that has exited, at once or after its wait.
LEMMA RestartStep ==
    ASSUME IInv, NEW c \in Cameras, RestartWithoutTelemetry(c) \/ RestartExited(c)
    PROVE  IInv' /\ StreamsFollow
<1> DEFINE q(t) == Started(Dropped(provider), Current.streams, t)
           a == [q(FALSE) EXCEPT !.telemetry = FALSE]
           b == [a EXCEPT !.telemetryError = TRUE]
<1>1. /\ Asking(c) /\ Covers(c) /\ Exited(Current)
      /\ pc = "cameras" /\ history' = history /\ Answered(c, "waiting")
  BY DEF RestartWithoutTelemetry, RestartExited, Asking
<1>2. /\ pc' = "cameras" /\ listed' = listed /\ todo' \subseteq todo
  BY <1>1 DEF Answered
<1>3. PICK t \in BOOLEAN : provider' = q(t) \/ (t = FALSE /\ provider' = b)
  <2>1. provider.telemetry \in BOOLEAN
    BY DEF IInv, TypeOK, Providers
  <2>2. CASE RestartWithoutTelemetry(c)
    <3>1. provider' = b
      BY <2>2 DEF RestartWithoutTelemetry
    <3> HIDE DEF b
    <3>2. QED
      BY <3>1
  <2>3. CASE RestartExited(c)
    <3>1. provider' = q(provider.telemetry)
      BY <2>3 DEF RestartExited
    <3> HIDE DEF q
    <3>2. QED
      BY <2>1, <3>1
  <2>4. QED
    BY <2>2, <2>3
<1>4. /\ Current.streams \in SUBSET Streams /\ Current.streams # {}
      /\ provider.backoff[Current.streams] = 0
      /\ ~history.missed => Current.streams = listed
      /\ q(t) \in Providers /\ HoldsOneChild(q(t)) /\ q(t).backoff = provider.backoff
      /\ q(t).session = NewSession(Current.streams, t)
      /\ q(t).active = Current.streams
  BY <1>1, RestartedFacts
<1> HIDE DEF q
<1>5. ASSUME t = FALSE
      PROVE  /\ b \in Providers /\ b.session = q(t).session /\ b.active = q(t).active
             /\ b.backoff = q(t).backoff /\ b.children = q(t).children
  <2>1. /\ a \in Providers /\ a.session = q(t).session /\ a.active = q(t).active
        /\ a.backoff = q(t).backoff /\ a.children = q(t).children
    BY <1>4, <1>5, TelemetryReplaced
  <2> HIDE DEF a
  <2>2. QED
    BY <2>1, ErrorReplaced
<1> HIDE DEF b
<1>6. /\ provider' \in Providers /\ HoldsOneChild(provider')
      /\ provider'.session = NewSession(Current.streams, t)
      /\ provider'.active = Current.streams /\ provider'.backoff = provider.backoff
  BY <1>3, <1>4, <1>5 DEF HoldsOneChild
<1>7. TypeOK' /\ OneChild'
  BY <1>1, <1>6, AnsweredTypes DEF IInv, TypeOK, OneChild, HoldsOneChild, Current
<1>8. Current' = NewSession(Current.streams, t)
  BY <1>6 DEF Current
<1>9. QED
  BY <1>1, <1>2, <1>4, <1>6, <1>7, <1>8, NewSessionStep

\* An exit noticed.
LEMMA NoticeExitStep ==
    ASSUME IInv, NEW c \in Cameras, NoticeExit(c)
    PROVE  IInv' /\ StreamsFollow
<1> DEFINE session == [Current EXCEPT !.restartIn = IF @ = NoTime THEN Backoff ELSE @]
<1>1. provider \in Providers /\ Current \in Sessions
  BY DEF IInv, TypeOK, Providers, Current
<1>2. /\ session \in Sessions /\ session.streams = Current.streams
      /\ session.age = Current.age /\ session.process = Current.process
  BY <1>1, HailoAssumption DEF Sessions
<1>3. provider' = [provider EXCEPT !.session = session]
  BY DEF NoticeExit, Current
<1>4. /\ Current.process = "exited"
      /\ history' = history /\ pc = "cameras" /\ Answered(c, "stream_error")
  BY DEF NoticeExit, Exited, Asking
<1> HIDE DEF session
<1>5. /\ provider' \in Providers /\ Current' = session
      /\ provider'.active = provider.active /\ provider'.backoff = provider.backoff
      /\ provider'.children = provider.children
  BY <1>1, <1>2, <1>3, SessionReplaced DEF Current
<1>6. TypeOK' /\ OneChild'
  BY <1>2, <1>4, <1>5, AnsweredTypes DEF IInv, TypeOK, OneChild, Current
<1>7. provider.active # {}
  BY <1>4, NewTypes DEF IInv, ActiveTellsSession
<1>8. pc' = "cameras" => pc = "cameras" /\ listed' = listed /\ todo' \subseteq todo
  BY <1>4 DEF Answered
<1>9. QED
  BY <1>2, <1>4, <1>5, <1>6, <1>7, <1>8, SameSessionStep

\* A frame served, or not.
LEMMA ServeStep ==
    ASSUME IInv, NEW c \in Cameras, Serve(c)
    PROVE  IInv' /\ StreamsFollow
<1>1. /\ provider' = provider /\ history' = history /\ pc = "cameras" /\ Current' = Current
  BY DEF Serve, Asking, Current
<1>2. PICK health \in {"waiting", "online", "stream_error"} : Answered(c, health)
  BY DEF Serve, Answer
<1>3. TypeOK' /\ OneChild'
  BY <1>1, <1>2, AnsweredTypes DEF IInv, TypeOK, OneChild
<1>4. listed' = listed /\ todo' \subseteq todo
  BY <1>2 DEF Answered
<1>5. QED
  BY <1>1, <1>3, <1>4, SameSessionStep

\* The session given up.  It has outlived every backoff, so only its own runs from now on,
\* and no other camera of the cycle asks for just its streams.
LEMMA GiveUpStep ==
    ASSUME IInv, NEW c \in Cameras, GiveUp(c)
    PROVE  IInv' /\ StreamsFollow
<1> DEFINE d == Dropped(provider)
           a == [d EXCEPT !.active = {}]
           backoff == [a.backoff EXCEPT ![Current.streams] = Backoff]
           b == [a EXCEPT !.backoff = backoff]
<1>1. provider' = b
  BY DEF GiveUp
<1>2. /\ provider \in Providers /\ HoldsOneChild(provider) /\ Current \in Sessions
      /\ provider.backoff \in [SUBSET Streams -> 0 .. Backoff]
  BY DEF IInv, TypeOK, OneChild, HoldsOneChild, Providers, Current
<1>3. /\ Current.streams \in SUBSET Streams /\ Current.age \in Nat
      /\ Current.process = "running" /\ Current.age > Backoff
      /\ c \in CamerasOf(Current.streams) /\ Current.streams # {}
      /\ pc = "cameras" /\ c \in todo /\ Answered(c, "stream_error")
      /\ history' = [missed |-> TRUE, stopped |-> [streams |-> Current.streams, age |-> 0]]
  BY <1>2, HailoAssumption DEF GiveUp, TimedOut, Asking, Covers, Sessions, CamerasOf
<1>4. /\ d \in Providers /\ d.children = 0 /\ d.session = NoSession
      /\ d.backoff = provider.backoff
  BY <1>2, DroppedFacts
<1> HIDE DEF d
<1>5. /\ a \in Providers /\ a.children = 0 /\ a.session = NoSession /\ a.active = {}
      /\ a.backoff = provider.backoff
  BY <1>4, ActiveReplaced
<1> HIDE DEF a
<1>6. /\ backoff \in [SUBSET Streams -> 0 .. Backoff]
      /\ backoff[Current.streams] = Backoff
      /\ \A ss \in SUBSET Streams :
            ss # Current.streams => backoff[ss] = provider.backoff[ss]
  BY <1>2, <1>3, <1>5, HailoAssumption
<1> HIDE DEF backoff
<1>7. /\ b \in Providers /\ b.children = 0 /\ b.session = NoSession /\ b.active = {}
      /\ b.backoff = backoff
  BY <1>5, <1>6, BackoffReplaced
<1> HIDE DEF b
<1>8. \A ss \in SUBSET Streams : provider.backoff[ss] = 0
  BY <1>2, <1>3, HailoAssumption DEF IInv, BackoffsOutlived
<1>9. ~history.missed /\ Current.streams = listed
  BY <1>3, HailoAssumption DEF IInv, RestOfMissedCycle, SessionCoversCycle
<1>10. /\ provider' \in Providers /\ Current' = NoSession /\ provider'.children = 0
       /\ provider'.active = {} /\ provider'.backoff = backoff
  BY <1>1, <1>7 DEF Current
<1>11. history' \in [missed : BOOLEAN,
                     stopped : [streams : SUBSET Streams, age : 0 .. Backoff - 1]]
  BY <1>3, HailoAssumption
<1>12. TypeOK' /\ OneChild'
  BY <1>3, <1>10, <1>11, NewTypes, AnsweredTypes DEF OneChild
<1>13. RestOfMissedCycle'
  <2>1. listed' = listed /\ todo' = todo \ {c}
    BY <1>3 DEF Answered
  <2>2. ASSUME NEW other \in todo \ {c} PROVE backoff[Wanted(other)] = 0
    <3>1. Wanted(other) \in SUBSET Streams
      BY <1>3, <1>9 DEF Wanted
    <3>2. Wanted(other) # Current.streams
      BY <1>3, <1>9 DEF Wanted, CamerasOf
    <3>3. QED
      BY <1>6, <1>8, <3>1, <3>2
  <2>3. QED
    BY <1>10, <2>1, <2>2, NewTypes DEF RestOfMissedCycle, Wanted
<1>14. SessionCoversCycle' /\ StoppedBacksOff'
  BY <1>3, <1>6, <1>10, HailoAssumption DEF SessionCoversCycle, StoppedBacksOff
<1>15. ActiveTellsSession' /\ SessionNotBackedOff' /\ BackoffsOutlived' /\ StreamsFollow
  BY <1>10, NewTypes
  DEF ActiveTellsSession, SessionNotBackedOff, BackoffsOutlived, StreamsFollow
<1>16. QED
  BY <1>12, <1>13, <1>14, <1>15 DEF IInv

-----------------------------------------------------------------------------
(* The child, the configuration and the clock. *)

\* What the child does to its session.
LEMMA ChildStep ==
    ASSUME IInv,
           \/ \E c \in Cameras : Frame(c) \/ CallbackFails(c)
           \/ \E cs \in SUBSET Cameras : SourcesFail(cs)
           \/ ChildExits
    PROVE  IInv' /\ StreamsFollow
<1>1. /\ provider \in Providers /\ Current \in Sessions /\ Current.process = "running"
      /\ provider.children = 1 /\ provider.session = Current
  BY DEF IInv, TypeOK, OneChild, Providers, Current, Frame, CallbackFails, SourcesFail,
         ChildExits, Running
<1>2. UNCHANGED <<table, asked, synced, listed, todo, pc, answer, history>>
  BY DEF Frame, CallbackFails, SourcesFail, ChildExits, external
<1>3. CamerasOf(Current.streams) \subseteq Cameras
  BY <1>1 DEF CamerasOf, Cameras, Sessions
<1>4. ASSUME NEW session \in Sessions, session.streams = Current.streams,
             session.age = Current.age,
             \/ session.process = "running"
                /\ provider' = [provider EXCEPT !.session = session]
             \/ session.process = "exited"
                /\ provider' = [[provider EXCEPT !.session = session] EXCEPT !.children = 0]
      PROVE  IInv' /\ StreamsFollow
  <2> DEFINE q == [provider EXCEPT !.session = session]
  <2>1. /\ q \in Providers /\ q.session = session /\ q.active = provider.active
        /\ q.backoff = provider.backoff /\ q.children = 1
    BY <1>1, SessionReplaced
  <2> HIDE DEF q
  <2>2. /\ [q EXCEPT !.children = 0] \in Providers
        /\ [q EXCEPT !.children = 0].session = session
        /\ [q EXCEPT !.children = 0].active = provider.active
        /\ [q EXCEPT !.children = 0].backoff = provider.backoff
        /\ [q EXCEPT !.children = 0].children = 0
    BY <2>1, ChildrenReplaced, 0 \in Nat
  <2>3. /\ provider' \in Providers /\ Current' = session
        /\ provider'.active = provider.active /\ provider'.backoff = provider.backoff
        /\ HoldsOneChild(provider')
    BY <1>4, <2>1, <2>2 DEF q, HoldsOneChild, Current
  <2>4. TypeOK' /\ OneChild'
    BY <1>2, <2>3 DEF IInv, TypeOK, OneChild, HoldsOneChild, Current
  <2>5. provider.active # {}
    BY <1>1, NewTypes DEF IInv, ActiveTellsSession
  <2>6. QED
    BY <1>1, <1>2, <1>4, <2>3, <2>4, <2>5, SameSessionStep
<1>5. ASSUME NEW c \in Cameras, Frame(c) PROVE IInv' /\ StreamsFollow
  <2> DEFINE session == [Current EXCEPT !.frames = @ \cup {c}, !.errors = @ \ {c}]
  <2>1. /\ session \in Sessions /\ session.streams = Current.streams
        /\ session.age = Current.age /\ session.process = "running"
    BY <1>1 DEF Sessions
  <2>2. provider' = [provider EXCEPT !.session = session]
    BY <1>5 DEF Frame, Current
  <2> HIDE DEF session
  <2>3. QED
    BY <1>4, <2>1, <2>2
<1>6. ASSUME NEW c \in Cameras, CallbackFails(c) PROVE IInv' /\ StreamsFollow
  <2> DEFINE session == [Current EXCEPT !.errors = @ \cup {c}]
  <2>1. /\ session \in Sessions /\ session.streams = Current.streams
        /\ session.age = Current.age /\ session.process = "running"
    BY <1>1 DEF Sessions
  <2>2. provider' = [provider EXCEPT !.session = session]
    BY <1>6 DEF CallbackFails, Current
  <2> HIDE DEF session
  <2>3. QED
    BY <1>4, <2>1, <2>2
<1>7. ASSUME NEW cs \in SUBSET Cameras, SourcesFail(cs) PROVE IInv' /\ StreamsFollow
  <2> DEFINE session == [Current EXCEPT !.failed = @ \cup cs,
                                        !.errors = CamerasOf(Current.streams)]
  <2>1. /\ session \in Sessions /\ session.streams = Current.streams
        /\ session.age = Current.age /\ session.process = "running"
    BY <1>1, <1>3 DEF Sessions
  <2>2. provider' = [provider EXCEPT !.session = session]
    BY <1>7 DEF SourcesFail, Current
  <2> HIDE DEF session
  <2>3. QED
    BY <1>4, <2>1, <2>2
<1>8. CASE ChildExits
  <2> DEFINE session == [Current EXCEPT !.process = "exited"]
  <2>1. /\ session \in Sessions /\ session.streams = Current.streams
        /\ session.age = Current.age /\ session.process = "exited"
    BY <1>1 DEF Sessions
  <2>2. provider' = [[provider EXCEPT !.session = session] EXCEPT !.children = 0]
    BY <1>1, <1>8 DEF ChildExits, Current
  <2> HIDE DEF session
  <2>3. QED
    BY <1>4, <2>1, <2>2
<1>9. QED
  BY <1>5, <1>6, <1>7, <1>8

\* Steps that do not touch the provider at all: the end of a cycle, the configuration, and
\* a stuttering step.
LEMMA OtherStep ==
    ASSUME IInv, EndCycle \/ ConfigurationChanges \/ TelemetryChanges \/ UNCHANGED vars
    PROVE  IInv' /\ StreamsFollow
<1>1. provider' = provider /\ history' = history /\ Current' = Current
  BY DEF EndCycle, ConfigurationChanges, TelemetryChanges, vars, Current
<1>2. TypeOK' /\ OneChild'
  <2>1. OneChild'
    BY <1>1 DEF IInv, OneChild
  <2> SUFFICES TypeOK'
    BY <2>1
  <2>2. CASE EndCycle
    BY <1>1, <2>2 DEF IInv, TypeOK, EndCycle, external, NoAnswer
  <2>3. CASE ConfigurationChanges
    BY <1>1, <2>3 DEF IInv, TypeOK, ConfigurationChanges
  <2>4. CASE TelemetryChanges
    BY <1>1, <2>4 DEF IInv, TypeOK, TelemetryChanges
  <2>5. CASE UNCHANGED vars
    BY <1>1, <2>5 DEF IInv, TypeOK, vars, external
  <2>6. QED
    BY <2>2, <2>3, <2>4, <2>5
<1>3. pc' = "cameras" => pc = "cameras" /\ listed' = listed /\ todo' \subseteq todo
  BY DEF EndCycle, ConfigurationChanges, TelemetryChanges, vars
<1>4. QED
  BY <1>1, <1>2, <1>3, SameSessionStep

\* The clock: the backoffs and the age of the session run against each other.
LEMMA SleepStep ==
    ASSUME IInv, NEW d \in 1 .. MaxPause, Sleep(d)
    PROVE  IInv' /\ StreamsFollow
<1> DEFINE age == IF Current = NoSession THEN 0 ELSE AtMost(Current.age + d)
           restartIn == IF Current.restartIn = NoTime THEN NoTime
                        ELSE Left(Current.restartIn, d)
           younger == [Current EXCEPT !.age = age]
           session == [younger EXCEPT !.restartIn = restartIn]
           backoff == [ss \in SUBSET Streams |-> Left(provider.backoff[ss], d)]
           a == [provider EXCEPT !.session = session]
           b == [a EXCEPT !.backoff = backoff]
<1>1. /\ provider \in Providers /\ Current \in Sessions /\ provider.session = Current
      /\ provider.backoff \in [SUBSET Streams -> 0 .. Backoff]
      /\ Current.age \in 0 .. FirstFrameTimeout
      /\ Current.restartIn \in {NoTime} \cup 0 .. Backoff
      /\ d \in Nat /\ Backoff \in Nat /\ FirstFrameTimeout \in Nat
  BY HailoAssumption DEF IInv, TypeOK, Providers, Sessions, Current
<1>2. provider' = b
  BY <1>1 DEF Sleep, Current
<1>3. /\ age \in 0 .. FirstFrameTimeout
      /\ Current # NoSession => age <= Current.age + d
  BY <1>1 DEF AtMost
<1>4. restartIn \in {NoTime} \cup 0 .. Backoff
  BY <1>1 DEF Left
<1>5. Current = NoSession => age = Current.age /\ restartIn = Current.restartIn
  BY NewTypes DEF NoSession, NewSession
<1> HIDE DEF age, restartIn
<1>6. /\ younger \in Sessions /\ younger.streams = Current.streams
      /\ younger.process = Current.process /\ younger.age = age
      /\ Current = NoSession => younger = Current
  BY <1>1, <1>3, <1>5 DEF Sessions
<1> HIDE DEF younger
<1>7. /\ session \in Sessions /\ session.streams = Current.streams
      /\ session.process = Current.process /\ session.age = age
      /\ Current = NoSession => session = Current
  BY <1>4, <1>5, <1>6 DEF Sessions
<1> HIDE DEF session
<1>8. /\ backoff \in [SUBSET Streams -> 0 .. Backoff]
      /\ \A ss \in SUBSET Streams : backoff[ss] = Left(provider.backoff[ss], d)
  BY <1>1 DEF Left
<1> HIDE DEF backoff
<1>9. /\ a \in Providers /\ a.session = session /\ a.active = provider.active
      /\ a.children = provider.children
  BY <1>1, <1>7, SessionReplaced
<1> HIDE DEF a
<1>10. /\ b \in Providers /\ b.session = session /\ b.active = provider.active
       /\ b.children = provider.children /\ b.backoff = backoff
  BY <1>8, <1>9, BackoffReplaced
<1> HIDE DEF b
<1>11. /\ provider' \in Providers /\ Current' = session
       /\ provider'.active = provider.active /\ provider'.children = provider.children
       /\ provider'.backoff = backoff
       /\ pc' = "awake"
  BY <1>2, <1>10 DEF Current, Sleep
<1>12. /\ history' \in [missed : BOOLEAN,
                        stopped : [streams : SUBSET Streams, age : 0 .. Backoff - 1]]
       /\ history'.stopped # Never =>
             /\ history.stopped # Never
             /\ history.stopped.age + d < Backoff
             /\ history'.stopped.streams = history.stopped.streams
             /\ history'.stopped.age = history.stopped.age + d
  <2> DEFINE stopped == history.stopped
             older == [streams |-> stopped.streams, age |-> stopped.age + d]
             new == IF stopped = Never \/ stopped.age + d >= Backoff THEN Never ELSE older
  <2>1. history' = [missed |-> history.missed, stopped |-> new] /\ history.missed \in BOOLEAN
    <3>1. history \in [missed : BOOLEAN,
                       stopped : [streams : SUBSET Streams, age : 0 .. Backoff - 1]]
      BY DEF IInv, TypeOK
    <3>2. history' = [history EXCEPT !.stopped = new]
      BY DEF Sleep
    <3> HIDE DEF new
    <3>3. QED
      BY <3>1, <3>2
  <2>2. stopped \in [streams : SUBSET Streams, age : 0 .. Backoff - 1]
    BY DEF IInv, TypeOK
  <2> HIDE DEF stopped
  <2>3. stopped.age + d < Backoff =>
           /\ older \in [streams : SUBSET Streams, age : 0 .. Backoff - 1]
           /\ older.streams = stopped.streams /\ older.age = stopped.age + d
    BY <1>1, <2>2
  <2>4. Never \in [streams : SUBSET Streams, age : 0 .. Backoff - 1]
    BY HailoAssumption DEF Never
  <2>5. stopped.age \in Nat
    BY <2>2, HailoAssumption
  <2> HIDE DEF older
  <2>6. QED
    BY <1>1, <2>1, <2>3, <2>4, <2>5 DEF stopped
<1>13. TypeOK'
  BY <1>11, <1>12 DEF IInv, TypeOK, Sleep, external
<1>14. OneChild' /\ ActiveTellsSession' /\ StreamsFollow
  BY <1>7, <1>11 DEF IInv, OneChild, ActiveTellsSession, StreamsFollow
<1>15. SessionCoversCycle' /\ RestOfMissedCycle'
  BY <1>11 DEF SessionCoversCycle, RestOfMissedCycle
<1>16. SessionNotBackedOff'
  BY <1>1, <1>7, <1>8, <1>11 DEF IInv, SessionNotBackedOff, Left, Sessions
<1>17. BackoffsOutlived'
  <2> SUFFICES ASSUME Current.process # "none", NEW ss \in SUBSET Streams
               PROVE  backoff[ss] = 0 \/ backoff[ss] + age <= Backoff
    BY <1>7, <1>11 DEF BackoffsOutlived
  <2>1. Current # NoSession
    BY NewTypes
  <2>2. provider.backoff[ss] = 0 \/ provider.backoff[ss] + Current.age <= Backoff
    BY DEF IInv, BackoffsOutlived
  <2>3. backoff[ss] = IF provider.backoff[ss] > d THEN provider.backoff[ss] - d ELSE 0
    BY <1>8 DEF Left
  <2>4. provider.backoff[ss] \in 0 .. Backoff
    BY <1>1
  <2>5. QED
    BY <1>1, <1>3, <2>1, <2>2, <2>3, <2>4
<1>18. StoppedBacksOff'
  <2> SUFFICES ASSUME history'.stopped # Never
               PROVE  /\ history'.stopped.streams # {}
                      /\ backoff[history'.stopped.streams] = Backoff - history'.stopped.age
    BY <1>11 DEF StoppedBacksOff
  <2> DEFINE ss == history.stopped.streams
  <2>1. /\ ss # {} /\ ss \in SUBSET Streams
        /\ provider.backoff[ss] = Backoff - history.stopped.age
        /\ history.stopped.age \in Nat
    BY <1>12, HailoAssumption DEF IInv, StoppedBacksOff, TypeOK
  <2>2. backoff[ss] = IF provider.backoff[ss] > d THEN provider.backoff[ss] - d ELSE 0
    BY <1>8, <2>1 DEF Left
  <2> HIDE DEF ss
  <2>3. backoff[ss] = Backoff - (history.stopped.age + d)
    BY <1>1, <1>12, <2>1, <2>2
  <2>4. QED
    BY <1>12, <2>1, <2>3 DEF ss
<1>19. QED
  BY <1>13, <1>14, <1>15, <1>16, <1>17, <1>18 DEF IInv

-----------------------------------------------------------------------------
(* The theorems. *)

\* The first state of the worker satisfies the invariant.
LEMMA Initially == Init => IInv
<1> SUFFICES ASSUME Init PROVE IInv
  OBVIOUS
<1>1. TypeOK
  <2>1. history \in [missed : BOOLEAN,
                     stopped : [streams : SUBSET Streams, age : 0 .. Backoff - 1]]
    BY HailoAssumption DEF Init, Never
  <2>2. answer \in [camera : Cameras \cup {"none"},
                    health : {"unknown", "waiting", "online", "stream_error"}]
    BY DEF Init, NoAnswer
  <2>3. QED
    BY <2>1, <2>2, NewTypes DEF Init, TypeOK
<1>2. Fresh
  BY DEF Init, Fresh, NewProvider
<1>3. QED
  BY <1>1, <1>2, FreshFacts

\* Every step keeps the invariant, and the session only takes on streams that are not
\* backing off.
LEMMA Steps ==
    ASSUME IInv, [Next]_vars
    PROVE  IInv' /\ StreamsFollow
<1>1. ASSUME NEW c \in Cameras, Ask(c) PROVE IInv' /\ StreamsFollow
  BY <1>1, StartForOneStep, RestartStep, NoticeExitStep, GiveUpStep, ServeStep DEF Ask
<1>2. CASE WorkerStep
  <2>1. PruneDies => Dies
    BY DEF PruneDies
  <2>2. QED
    BY <1>1, <1>2, <2>1, SyncStep, PruneToNoneStep, PruneStep, DiesStep, OtherStep, SleepStep
    DEF WorkerStep
<1>3. CASE Environment
  BY <1>3, ChildStep, OtherStep, DiesStep DEF Environment
<1>4. CASE UNCHANGED vars
  BY <1>4, OtherStep
<1>5. QED
  BY <1>2, <1>3, <1>4 DEF Next

\* The invariant holds in every state the provider, its child and the worker reach.
THEOREM Invariance == Spec => []IInv
<1>1. IInv /\ [Next]_vars => IInv'
  BY Steps
<1>2. QED
  BY Initially, <1>1, PTL DEF Spec

\* Type correctness: every variable stays in its set, and no backoff or wait for a restart
\* is ever longer than the one the code sets.
THEOREM TypeCorrect == Spec => []TypeOK
<1>1. IInv => TypeOK
  BY DEF IInv
<1>2. QED
  BY <1>1, Invariance, PTL

\* At most one child holds the Hailo device, and it is the child of the session the provider
\* knows: whatever is restarted, pruned, switched or given up, in any order.
THEOREM OneChildTheorem == Spec => []OneChild
<1>1. IInv => OneChild
  BY DEF IInv
<1>2. QED
  BY <1>1, Invariance, PTL

\* While the worker asks for its cameras the session runs the streams it has read in this
\* cycle, until a camera misses its first frame: comparing the table with
\* _active_fingerprint is enough, though requests, timeouts and the telemetry switch change
\* the session behind it.
THEOREM SessionTheorem == Spec => []SessionCoversCycle
<1>1. IInv => SessionCoversCycle
  BY DEF IInv
<1>2. QED
  BY <1>1, Invariance, PTL

\* No step starts the session stopped last for want of a first frame before its backoff is
\* over, whatever sessions were started meanwhile.
THEOREM BackoffTheorem == Spec => BackoffKept
<1>1. IInv /\ [Next]_vars =>
        [history.stopped # Never /\ provider'.session.streams = history.stopped.streams
            => Current.streams = history.stopped.streams]_vars
  <2> SUFFICES ASSUME IInv, [Next]_vars, history.stopped # Never,
                      Current.streams' = history.stopped.streams
               PROVE  Current.streams = history.stopped.streams
    BY DEF Current
  <2>1. StreamsFollow
    BY Steps
  <2>2. /\ history.stopped.streams # {}
        /\ provider.backoff[history.stopped.streams] = Backoff - history.stopped.age
    BY DEF IInv, StoppedBacksOff
  <2>3. history.stopped.age \in 0 .. Backoff - 1
    BY DEF IInv, TypeOK
  <2>4. provider.backoff[history.stopped.streams] # 0
    BY <2>2, <2>3, HailoAssumption
  <2>5. QED
    BY <2>1, <2>2, <2>4 DEF StreamsFollow
<1>2. QED
  BY <1>1, Invariance, PTL DEF Spec, BackoffKept
=============================================================================
