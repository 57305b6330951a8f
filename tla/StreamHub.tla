------------------------------- MODULE StreamHub -------------------------------
(***************************************************************************)
(* StreamHub of futuris/api/routers/streaming.py: domain events are fanned *)
(* out to the bounded queues of SSE and web socket clients.  An event is   *)
(* its position in the log; an action is the code between two awaits.      *)
(***************************************************************************)
EXTENDS Naturals, Sequences, FiniteSets, SequencesExt

CONSTANTS
  Subscribers,    (* one connection each                                   *)
  StreamTargets,  (* what an event is about                                *)
  NoTarget,       (* no filter; an event about nothing in particular       *)
  QueueMax,       (* queue_maxsize                                         *)
  MaxLog          (* bound of the instance                                 *)

ASSUME HubAssumption == {QueueMax, MaxLog} \subseteq Nat \ {0} /\ NoTarget \notin StreamTargets

VARIABLES
  emissions,    (* the targets of the emitted events, in order             *)
  fanned,       (* how many of them broadcast has handled                  *)
  client        (* per client: connection, filter, queue and history       *)

hubVars == <<emissions, fanned, client>>

StreamFilters == StreamTargets \cup {NoTarget}

\* seen: what the client received; due: what matched since it registered.
\* link "granted": registered, its generator not started; "lost": it left then.
NoClient == [link |-> "off", filter |-> NoTarget, queue |-> << >>, seen |-> << >>, due |-> << >>]

HubInit == emissions = << >> /\ fanned = 0 /\ client = [c \in Subscribers |-> NoClient]

\* handle_domain_event, called by emit: a task for the broadcast, the event itself later.
HandleDomainEvent ==
  /\ Len(emissions) < MaxLog
  /\ \E t \in StreamFilters : emissions' = Append(emissions, t)
  /\ UNCHANGED <<fanned, client>>

SubscribedTo(c) == client[c].link \in {"granted", "open", "lost"}

\* A filter keeps out what has another target, not what has none.
Matches(filter, t) == NoTarget \in {filter, t} \/ filter = t

MutantDropNewest(q, e) == IF Len(q) = QueueMax THEN q ELSE Append(q, e)

\* The oldest entry makes room for the new one.
Enqueue(q, e) == Append(IF Len(q) = QueueMax THEN Tail(q) ELSE q, e)

\* The tasks run in the order of their creation, each to its end: the lock is never
\* held across an await.
Broadcast ==
  LET e == fanned + 1 IN
  /\ fanned < Len(emissions)
  /\ fanned' = e
  /\ client' = [c \in Subscribers |->
       IF SubscribedTo(c) /\ Matches(client[c].filter, emissions[e])
       THEN [client[c] EXCEPT !.queue = Enqueue(@, e), !.due = Append(@, e)]
       ELSE client[c]]
  /\ UNCHANGED emissions

Change(c, new) == client' = [client EXCEPT ![c] = new] /\ UNCHANGED <<emissions, fanned>>

\* An SSE request registers before its generator runs; a web socket is open at once.
Register(c) ==
  /\ client[c].link = "off"
  /\ \/ \E f \in StreamFilters : Change(c, [client[c] EXCEPT !.link = "granted", !.filter = f])
     \/ Change(c, [client[c] EXCEPT !.link = "open"])

StartGenerator(c) == client[c].link = "granted" /\ Change(c, [client[c] EXCEPT !.link = "open"])

Receive(c) ==
  /\ client[c].link = "open" /\ client[c].queue # << >>
  /\ Change(c, [client[c] EXCEPT !.queue = Tail(@), !.seen = Append(@, Head(client[c].queue))])

\* subscribe and unsubscribe of a web socket: what is queued stays queued.
UpdateFilter(c) ==
  /\ client[c].link = "open"
  /\ \E f \in StreamFilters \ {client[c].filter} : Change(c, [client[c] EXCEPT !.filter = f])

\* The finally clause unregisters.  A generator that never started has none to run, and
\* its queue stays in the hub.
Leave(c) ==
  \/ client[c].link = "open" /\ Change(c, [client[c] EXCEPT !.link = "left", !.queue = << >>])
  \/ client[c].link = "granted" /\ Change(c, [client[c] EXCEPT !.link = "lost"])

HubNext ==
  \/ HandleDomainEvent \/ Broadcast
  \/ \E c \in Subscribers : \/ Register(c) \/ StartGenerator(c) \/ Receive(c)
                        \/ UpdateFilter(c) \/ Leave(c)

HubSpec == HubInit /\ [][HubNext]_hubVars

-----------------------------------------------------------------------------
(* Properties.                                                              *)

\* A client gets what matched its filter in the order of emission, and misses an event
\* only when QueueMax later ones were waiting for it (StreamHub.broadcast): no filter
\* change, slow start or other client costs it one, and no queue outgrows its bound.
StreamsInOrder ==
  \A c \in Subscribers : client[c].link # "left" =>
    LET got == client[c].seen \o client[c].queue
        missed == ToSet(client[c].due) \ ToSet(got) IN
    /\ Len(client[c].queue) <= QueueMax
    /\ \A i, j \in DOMAIN got : i < j => got[i] < got[j]
    /\ \A e \in missed : Cardinality({d \in ToSet(client[c].due) : d > e}) >= QueueMax
=============================================================================
