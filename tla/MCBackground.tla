----------------------------- MODULE MCBackground -----------------------------
(***************************************************************************)
(* Model-checking instance of the components in which something must       *)
(* happen in the end: the event feed, the advisories and the durable jobs  *)
(* behind the requests, the process they run in and its repair, the        *)
(* circuit of a failing peer and the retried delegation.  They share no    *)
(* state, so a behaviour picks one of them and runs it while the others    *)
(* rest (see MCServing).                                                   *)
(*                                                                         *)
(* A component that rests has no fair action enabled, so that the fairness *)
(* of each concerns only the behaviours in which it runs.                  *)
(***************************************************************************)
EXTENDS MemoraFeed, MarketAdvisory, DurableJobs, ServiceProcess, SelfStatus,
        PeerCircuit, FridayDelegation, TLC

CONSTANTS Focused, a, c1, c2, r1, k1, p1

VARIABLE focus

TheFeed == <<"notice", "other", "notice", "malformed", "notice">>
TheOwner == c1 :> a @@ c2 :> a

backgroundVars == <<focus, feedVars, advisoryVars, jobsVars, processVars, statusVars,
                    circuitVars, delegationVars>>

\* The consumer is off, all of TheFeed handled that can be; the supervisor has not started.
FeedRests ==
  /\ step = "off" /\ acked = 3 /\ memories = {1, 3} /\ inbox = {1, 3} /\ at = 0 /\ last = 0
StatusRests ==
  /\ database = "up" /\ tables = TRUE /\ disk = TRUE /\ storageCircuit = "cooled"
  /\ pass = [c \in StatusCallers |-> [Resting EXCEPT !.at = "off"]]
  /\ seen = [c \in StatusCallers |-> {}] /\ lastReport = NoReport /\ answer = NoReport
  /\ repair = "none" /\ listed = {} /\ faults = 0 /\ polls = 0

\* Requests for a forecast and webhook deliveries touch nothing of each other.
asked == [q \in Queries |-> making[q]]

\* Keys and payloads have no order: one request asks k1 and p1, the others anything.
DelegationStarts ==
  /\ key \in [Requests -> Keys] /\ key[r1] = k1
  /\ payload \in [Requests -> Payloads] /\ payload[r1] = p1
  /\ focus # "delegation" => key = [r \in Requests |-> k1] /\ payload = [r \in Requests |-> p1]
  /\ DelegationInit

BackgroundInit ==
  /\ focus \in Focused
  /\ AdvisoryInit /\ JobsInit /\ CircuitInit /\ DelegationStarts
  /\ IF focus = "feed" THEN FeedInit ELSE FeedRests
  /\ (focus # "process" => forecasts = 0) /\ ProcessInit
  /\ IF focus = "status" THEN StatusInit ELSE StatusRests

Rest(n) ==
  /\ focus = n /\ UNCHANGED focus
  /\ n # "feed" => UNCHANGED feedVars
  /\ n \notin {"advisory", "queries"} => UNCHANGED advisoryVars
  /\ n # "jobs" => UNCHANGED jobsVars
  /\ n # "process" => UNCHANGED processVars
  /\ n # "status" => UNCHANGED statusVars
  /\ n # "circuit" => UNCHANGED circuitVars
  /\ n # "delegation" => UNCHANGED delegationVars

BackgroundNext ==
  \/ Rest("feed") /\ FeedNext
  \/ Rest("advisory") /\ AdvisoryNext /\ UNCHANGED asked
  \/ Rest("queries") /\ AdvisoryNext /\ UNCHANGED handling
  \/ Rest("jobs") /\ JobsNext
  \/ Rest("process") /\ ProcessNext
  \/ Rest("status") /\ StatusNext
  \/ Rest("circuit") /\ CircuitNext
  \/ Rest("delegation") /\ DelegationNext

BackgroundSpec ==
  /\ BackgroundInit /\ [][BackgroundNext]_backgroundVars
  /\ FeedFairness /\ AdvisoryFairness /\ ProcessFairness /\ StatusFairness
  /\ CircuitFairness /\ DelegationFairness

-----------------------------------------------------------------------------

\* Every attempt is answered, whoever it waits for (IsAnswered of FridayDelegation).
\* Requests differ by their keys and payloads only, and the others take all of those.
AnyDelegationAnswered == IsAnswered(r1)
=============================================================================
