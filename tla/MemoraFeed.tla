------------------------------ MODULE MemoraFeed ------------------------------
(***************************************************************************)
(* The consumer of Memora's event feed                                     *)
(* (futuris/integrations/memora_event_consumer.py): read the cursor, poll  *)
(* a batch, store every IntelX notice in Memora and in the local inbox,    *)
(* acknowledge event by event.  Every call may fail, and the process may   *)
(* end anywhere; the worker then starts from the cursor again.             *)
(***************************************************************************)
EXTENDS Naturals, Sequences

CONSTANTS
  Feed,         (* the kinds of the events, in feed order                  *)
  BatchMax      (* limit of one poll                                       *)

\* "malformed": no integer id, a payload that is no object, or no headline and summary.
FeedKinds == {"notice", "other", "malformed"}

ASSUME FeedAssumption == Feed \in Seq(FeedKinds) /\ BatchMax \in Nat \ {0}

VARIABLES
  acked,        (* Memora's cursor of this consumer                        *)
  memories,     (* notices stored in Memora, by idempotency key            *)
  inbox,        (* notices committed locally                               *)
  step,         (* what the worker does next                               *)
  at,           (* the event it is at                                      *)
  last          (* the end of its batch                                    *)

feedVars == <<acked, memories, inbox, step, at, last>>

FeedInit ==
  /\ acked = 0 /\ memories = {} /\ inbox = {}
  /\ step = "sleep" /\ at = 0 /\ last = 0

\* Wake up, read_event_cursor, poll_events.
PollFeed ==
  /\ step = "sleep"
  /\ acked < Len(Feed)
  /\ at' = acked + 1
  /\ last' = IF acked + BatchMax < Len(Feed) THEN acked + BatchMax ELSE Len(Feed)
  /\ step' = "look"
  /\ UNCHANGED <<acked, memories, inbox>>

\* Any call fails, an event is malformed, or the process ends: the pass is over and the
\* cursor stays.
GiveUp ==
  /\ step # "sleep" /\ step' = "sleep" /\ at' = 0 /\ last' = 0
  /\ UNCHANGED <<acked, memories, inbox>>

MutantCommitFirst ==
  /\ step = "look" /\ Feed[at] # "malformed"
  /\ step' = "ack"
  /\ inbox' = IF Feed[at] = "notice" THEN inbox \cup {at} ELSE inbox
  /\ UNCHANGED <<acked, memories, at, last>>

\* Other events are only acknowledged, stored notices too.
LookAtEvent ==
  /\ step = "look" /\ Feed[at] # "malformed"
  /\ step' = IF Feed[at] = "notice" /\ at \notin inbox THEN "remember" ELSE "ack"
  /\ UNCHANGED <<acked, memories, inbox, at, last>>

\* _persist_notice_to_memora: its idempotency key is derived from the event.
Remember ==
  /\ step = "remember"
  /\ memories' = memories \cup {at} /\ step' = "commit"
  /\ UNCHANGED <<acked, inbox, at, last>>

CommitNotice ==
  /\ step = "commit"
  /\ inbox' = inbox \cup {at} /\ step' = "ack"
  /\ UNCHANGED <<acked, memories, at, last>>

MutantSkipMalformed ==
  /\ \/ step = "ack"
     \/ step = "look" /\ Feed[at] = "malformed"
  /\ acked' = at
  /\ \/ at < last /\ at' = at + 1 /\ step' = "look" /\ UNCHANGED last
     \/ at = last /\ at' = 0 /\ last' = 0 /\ step' = "sleep"
  /\ UNCHANGED <<memories, inbox>>

\* acknowledge_event, then the next event of the batch, or sleep.
Acknowledge ==
  /\ step = "ack"
  /\ acked' = at
  /\ \/ at < last /\ at' = at + 1 /\ step' = "look" /\ UNCHANGED last
     \/ at = last /\ at' = 0 /\ last' = 0 /\ step' = "sleep"
  /\ UNCHANGED <<memories, inbox>>

\* The acknowledgement is registered and its answer lost.
AcknowledgeUnknown ==
  /\ step = "ack"
  /\ acked' = at /\ step' = "sleep" /\ at' = 0 /\ last' = 0
  /\ UNCHANGED <<memories, inbox>>

FeedNext ==
  \/ PollFeed \/ GiveUp \/ LookAtEvent \/ Remember \/ CommitNotice
  \/ Acknowledge \/ AcknowledgeUnknown

FeedSpec == FeedInit /\ [][FeedNext]_feedVars

\* The worker polls for ever, and a call that is repeated for ever succeeds at last.
FeedFairness ==
  /\ WF_feedVars(PollFeed) /\ SF_feedVars(LookAtEvent) /\ SF_feedVars(Remember)
  /\ SF_feedVars(CommitNotice) /\ SF_feedVars(Acknowledge)
  /\ WF_feedVars(step = "look" /\ GiveUp)

-----------------------------------------------------------------------------
(* Properties.                                                              *)

\* "acknowledging only after durable handling" (memora_event_consumer.py:29): an
\* acknowledged notice is in Memora and in the inbox, through lost answers, failing
\* calls and crashes at every step, and nothing malformed is ever passed over.
AckedIsDurable ==
  \A e \in 1 .. acked :
    /\ Feed[e] = "notice" => e \in memories \cap inbox
    /\ Feed[e] # "malformed"

\* The feed drains up to its end or to the first malformed event, where it stays.
FirstMalformed == {e \in DOMAIN Feed : Feed[e] = "malformed"
                                       /\ \A d \in 1 .. e - 1 : Feed[d] # "malformed"}
FeedDrains ==
  <>[](IF FirstMalformed = {} THEN acked = Len(Feed) ELSE acked + 1 \in FirstMalformed)
=============================================================================
