-------------------------- MODULE ResearchEvidence --------------------------
(***************************************************************************)
(* The research a forecast rests on (connectors/intelx_context.py and      *)
(* infra/research_context.py).  A caller asks IntelX for what it published *)
(* before as_of: first the context endpoint, which is told the target but  *)
(* not as_of, then, if that one is missing or refuses, the query endpoint, *)
(* which answers with dated reports and, when IntelX has none, with a      *)
(* synthetic baseline.  GET /market adds the notices stored by the         *)
(* webhook.  Time passes and research is published between any two steps.  *)
(***************************************************************************)
EXTENDS Integers, Sequences, FiniteSets

CONSTANTS
    Engines,        \* forecasts with an as_of of their own (ForecastEngine)
    Markets,        \* market forecasts, made as of now, with the inbox
    Items,          \* pieces of research IntelX may publish
    Wild,           \* those that report more volatility
    Baseline,       \* the synthetic report of an empty IntelX
    Lookback,       \* days looked back (7)
    MaxTime         \* bound: days

ASSUME WildAreItems == Wild \subseteq Items /\ Baseline \notin Items
ASSUME CallersDiffer == Engines \cap Markets = {}
ASSUME LookbackIsPositive == Lookback \in Nat \ {0}

Callers == Engines \cup Markets
Never == 0

VARIABLES
    today,
    published,      \* item -> day of publication, or Never
    noticed,        \* item -> day its notice came into the inbox, or Never
    call            \* caller -> its query

researchVars == <<today, published, noticed, call>>

NoCall == [at |-> "idle", asOf |-> 0, asked |-> <<>>, reports |-> {}, width |-> 1]

ResearchInit ==
    /\ today = 1
    /\ published = [i \in Items |-> Never] /\ noticed = [i \in Items |-> Never]
    /\ call = [c \in Callers |-> NoCall]

DayPasses ==
    /\ today < MaxTime /\ today' = today + 1
    /\ UNCHANGED <<published, noticed, call>>

IntelXPublishes(i) ==
    /\ published[i] = Never
    /\ published' = [published EXCEPT ![i] = today]
    /\ UNCHANGED <<today, noticed, call>>

NoticeArrives(i) ==
    /\ published[i] # Never /\ noticed[i] = Never
    /\ noticed' = [noticed EXCEPT ![i] = today]
    /\ UNCHANGED <<today, published, call>>

(* POST /v1/forecasts may name a day in the past, a backtest always does.  *)
AskResearch(c) ==
    /\ call[c].at = "idle"
    /\ \E asOf \in 1 .. today :
        /\ c \in Markets => asOf = today
        /\ call' = [call EXCEPT ![c] = [NoCall EXCEPT !.at = "context", !.asOf = asOf]]
    /\ UNCHANGED <<today, published, noticed>>

Out == {i \in Items : published[i] # Never}

Hear(c, answer, next) ==
    call' = [call EXCEPT ![c].asked = Append(@, answer), ![c].at = next]

HearReports(c, answer, found) ==
    call' = [call EXCEPT ![c].asked = Append(@, answer), ![c].reports = found,
                         ![c].at = "inbox"]

(* A transport that fails ends the query: the same host is not asked again. *)
PeerUnreachable(c) ==
    /\ call[c].at \in {"context", "query", "again"}
    /\ Hear(c, "down", "inbox")
    /\ UNCHANGED <<today, published, noticed>>

(* 404 and 405 lead to the query endpoint, and so does any other refusal;  *)
(* a refusal of the query that a 404 led to is caught there once more.     *)
PeerRefuses(c) ==
    /\ \/ call[c].at = "context" /\ \E a \in {"absent", "refused"} :
            Hear(c, a, IF a = "absent" THEN "query" ELSE "again")
       \/ call[c].at = "query" /\ Hear(c, "refused", "again")
       \/ call[c].at = "again" /\ Hear(c, "refused", "inbox")
    /\ UNCHANGED <<today, published, noticed>>

(* An answer that is no JSON, or neither a list nor an object.             *)
PeerBabbles(c) ==
    /\ call[c].at \in {"context", "query", "again"}
    /\ Hear(c, "garbage", "inbox")
    /\ UNCHANGED <<today, published, noticed>>

(* The context is what IntelX knows today; it becomes one report dated the *)
(* day before as_of.                                                       *)
ContextAnswers(c) ==
    /\ call[c].at = "context"
    /\ \E told \in SUBSET Out :
        HearReports(c, "context", {[item |-> i, dated |-> call[c].asOf - 1] : i \in told})
    /\ UNCHANGED <<today, published, noticed>>

(* The mutant: the synthetic baseline of an empty IntelX passes the filter. *)
MutantBaselineIsEvidence(i, asOf) ==
    \/ i = Baseline
    \/ i \in Out /\ published[i] >= asOf - Lookback /\ published[i] <= asOf

IsEvidence(i, asOf) == i \in Out /\ published[i] >= asOf - Lookback /\ published[i] <= asOf

Dated(i) == IF i = Baseline THEN today ELSE published[i]

(* Either endpoint may answer with a list, of which the dated reports of   *)
(* the window are kept.                                                    *)
ListAnswers(c) ==
    /\ call[c].at \in {"context", "query", "again"}
    /\ \E listed \in (SUBSET Out) \cup {{Baseline}} :
        HearReports(c, "list", {[item |-> i, dated |-> Dated(i)] :
            i \in {j \in listed : IsEvidence(j, call[c].asOf)}})
    /\ UNCHANGED <<today, published, noticed>>

(* The notices of the window, with no end to it: those a market forecast   *)
(* finds in the inbox by now.                                              *)
Inbox(c) == {i \in Items : noticed[i] # Never /\ noticed[i] >= call[c].asOf - Lookback}

Widened(reports) == IF \E r \in reports : r.item \in Wild THEN 2 ELSE 1

Conclude(c) ==
    /\ call[c].at = "inbox"
    /\ \E matching \in IF c \in Markets THEN SUBSET Inbox(c) ELSE {{}} :
        LET all == call[c].reports \cup {[item |-> i, dated |-> published[i]] : i \in matching} IN
        call' = [call EXCEPT ![c].reports = all, ![c].width = Widened(all), ![c].at = "done"]
    /\ UNCHANGED <<today, published, noticed>>

Forget(c) ==
    /\ call[c].at = "done"
    /\ call' = [call EXCEPT ![c] = NoCall]
    /\ UNCHANGED <<today, published, noticed>>

ResearchNext ==
    \/ DayPasses
    \/ \E i \in Items : IntelXPublishes(i) \/ NoticeArrives(i)
    \/ \E c \in Callers :
        \/ AskResearch(c) \/ PeerUnreachable(c) \/ PeerRefuses(c) \/ PeerBabbles(c)
        \/ ContextAnswers(c) \/ ListAnswers(c) \/ Conclude(c) \/ Forget(c)

ResearchSpec == ResearchInit /\ [][ResearchNext]_researchVars

-----------------------------------------------------------------------------
(* Evidence is never invented: every report a forecast rests on was        *)
(* published by IntelX by now, and one with a date of its own lies inside  *)
(* the window, whichever endpoints failed on the way                       *)
(* (fetch_recent_research, fetch_durable_notice_context).                  *)
EvidenceIsGenuine ==
    \A c \in Callers : \A r \in call[c].reports :
        /\ r.item \in Out
        /\ c \in Engines => r.dated <= call[c].asOf /\ r.dated >= call[c].asOf - Lookback
        /\ call[c].width = 2 => \E w \in call[c].reports : w.item \in Wild

(* A peer that cannot be reached is asked once: every further request      *)
(* would wait out its timeout (intelx_context.py:123).                     *)
DeadPeerAskedOnce ==
    \A c \in Callers : \A i \in 1 .. Len(call[c].asked) - 1 : call[c].asked[i] # "down"

(* "Produce a draft Forecast object for the target with zero future-data   *)
(* leakage" (core/engine.py:80): a forecast as of a day rests on nothing   *)
(* published after it.                                                     *)
NoFutureEvidence ==
    \A c \in Engines : \A r \in call[c].reports : published[r.item] <= call[c].asOf

(* What a forecast is told of research is genuine, and costs no more than  *)
(* it must when the peer is down.                                          *)
EvidenceIsSound == EvidenceIsGenuine /\ DeadPeerAskedOnce
=============================================================================
