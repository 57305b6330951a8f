------------------------------ MODULE TailRisk ------------------------------
(***************************************************************************)
(* Tail risk of the Stratex book (api/routers/risk.py) and the reads it is *)
(* computed from (connectors/trading_bot.py).  A reader, GET /portfolio or *)
(* the scheduler's five-minute pulse, asks several Stratex endpoints for   *)
(* the traded pairs, then several for the open positions, audits one pair  *)
(* after the other and publishes the result in _LATEST_PORTFOLIO_RISK,     *)
(* awaiting all the while: the book changes, endpoints fail or break off   *)
(* in the middle of their rows, and another reader overtakes.  The audit   *)
(* of one pair (module RiskAudit) ends here in any light and shortfall.    *)
(***************************************************************************)
EXTENDS Integers, FiniteSets, Sequences

CONSTANTS
    Readers,
    Symbols,        \* pairs Stratex may trade
    Defaults,       \* BTCUSDT, ETHUSDT and SOLUSDT
    PairEndpoints,  \* how many endpoints are asked for pairs (7)
    BookEndpoints,  \* how many for positions (3)
    NoPayload,
    MaxChanges      \* bound: changes of the book

ASSUME DefaultsAreSymbols == Defaults \subseteq Symbols /\ Defaults # {}
ASSUME EndpointsExist == PairEndpoints \in Nat \ {0} /\ BookEndpoints \in Nat \ {0}

Colours == {"green", "yellow", "red"}
LossLevels == 0 .. 1        \* a pair's expected shortfall

VARIABLES
    book,       \* symbols with an open position at Stratex
    changes,
    reader,     \* reader -> its computation
    latest      \* _LATEST_PORTFOLIO_RISK

riskVars == <<book, changes, reader, latest>>

NoRows == [s \in Symbols |-> 0]

Fresh == [at |-> "idle", asked |-> 0, pairs |-> {}, rows |-> NoRows,
          simulated |-> FALSE, todo |-> {}, light |-> "green", highest |-> "none",
          cvar |-> 0, lights |-> {}, cvars |-> {}]

RiskInit ==
    /\ book \in SUBSET Symbols /\ changes = 0
    /\ reader = [r \in Readers |-> Fresh]
    /\ latest = NoPayload

BookMoves ==
    /\ changes < MaxChanges /\ changes' = changes + 1
    /\ book' \in SUBSET Symbols \ {book}
    /\ UNCHANGED <<reader, latest>>

Compute(r) ==
    /\ reader[r].at = "idle"
    /\ reader' = [reader EXCEPT ![r] = [Fresh EXCEPT !.at = "pairs"]]
    /\ UNCHANGED <<book, changes, latest>>

(***************************************************************************)
(* discover_active_trade_pairs: every endpoint is asked, what they name is *)
(* united, and the defaults are added to it whatever was found.            *)
(***************************************************************************)
AskPairs(r) ==
    /\ reader[r].at = "pairs"
    /\ \E named \in SUBSET book :          \* an endpoint that fails half-way named a part
        LET pairs == reader[r].pairs \cup named
            last  == reader[r].asked + 1 = PairEndpoints IN
        reader' = [reader EXCEPT
            ![r].pairs = IF last THEN pairs \cup Defaults ELSE pairs,
            ![r].asked = IF last THEN 0 ELSE @ + 1,
            ![r].at    = IF last THEN "book" ELSE @]
    /\ UNCHANGED <<book, changes, latest>>

(***************************************************************************)
(* fetch_active_positions: the endpoints are asked in turn until there are *)
(* rows.  A row that does not parse ends its endpoint with the rows before *)
(* it kept, and the next endpoint adds its own.  With no row in the end    *)
(* the three simulated positions are returned.                             *)
(***************************************************************************)
RowCount(rows) == Cardinality({u \in Symbols \X (1 .. BookEndpoints) : u[2] <= rows[u[1]]})

(* The mutant: the first endpoint that answers is the last one asked.      *)
MutantStopAtFirstAnswer(whole, rows) == whole

EnoughRows(whole, rows) == whole /\ book # {} /\ RowCount(rows) > 0

AskBook(r) ==
    /\ reader[r].at = "book"
    /\ \E answered \in BOOLEAN, parsed \in SUBSET book :
        LET rows == [s \in Symbols |-> reader[r].rows[s] + IF s \in parsed THEN 1 ELSE 0]
            whole == answered /\ parsed = book
            last == EnoughRows(whole, rows) \/ reader[r].asked + 1 = BookEndpoints IN
        /\ ~answered => parsed = {}
        /\ reader' = [reader EXCEPT
            ![r].rows = IF last /\ RowCount(rows) = 0
                        THEN [s \in Symbols |-> IF s \in Defaults THEN 1 ELSE 0] ELSE rows,
            ![r].simulated = last /\ RowCount(rows) = 0,
            ![r].asked = @ + 1,
            ![r].todo  = reader[r].pairs,
            ![r].at    = IF last THEN "assets" ELSE @]
    /\ UNCHANGED <<book, changes, latest>>

Escalated(worst, light) ==
    IF light = "red" \/ (light = "yellow" /\ worst # "red") THEN light ELSE worst

AuditPair(r) ==
    /\ reader[r].at = "assets" /\ reader[r].todo # {}
    /\ \E pair \in reader[r].todo, light \in Colours, cvar \in LossLevels :
        reader' = [reader EXCEPT
            ![r].todo = @ \ {pair},
            ![r].light = Escalated(@, light),
            ![r].highest = IF cvar > reader[r].cvar THEN pair ELSE @,
            ![r].cvar = IF cvar > @ THEN cvar ELSE @,
            ![r].lights = @ \cup {light},
            ![r].cvars = @ \cup {<<pair, cvar>>}]
    /\ UNCHANGED <<book, changes, latest>>

(* The weight of a pair is that of the first of its positions.             *)
Weight(rows, pair) == IF rows[pair] > 0 THEN 1 ELSE 0

(***************************************************************************)
(* The pulse's fan chart starts from the mark price of the asset at the    *)
(* highest risk if it has a position, else from a price written into the   *)
(* code: its own for a default pair, SOLUSDT's for any other.              *)
(***************************************************************************)
FanStart(rows, asset) ==
    IF asset \in Symbols /\ rows[asset] > 0 THEN "mark"
    ELSE IF asset \in Defaults THEN "own" ELSE "other"

PublishRisk(r) ==
    /\ reader[r].at = "assets" /\ reader[r].todo = {}
    /\ latest' = [fan |-> FanStart(reader[r].rows, reader[r].highest),
                  light |-> reader[r].light, highest |-> reader[r].highest,
                  lights |-> reader[r].lights, cvars |-> reader[r].cvars,
                  simulated |-> reader[r].simulated,
                  exposure |-> RowCount(reader[r].rows),
                  weighted |-> Cardinality({p \in reader[r].pairs : Weight(reader[r].rows, p) = 1})]
    /\ reader' = [reader EXCEPT ![r] = Fresh]
    /\ UNCHANGED <<book, changes>>

RiskNext ==
    \/ BookMoves
    \/ \E r \in Readers : Compute(r) \/ AskPairs(r) \/ AskBook(r) \/ AuditPair(r) \/ PublishRisk(r)

RiskSpec == RiskInit /\ [][RiskNext]_riskVars

-----------------------------------------------------------------------------
(* The portfolio's traffic light is the worst of its pairs' and the asset  *)
(* it names has the highest shortfall, in whatever order the pairs were    *)
(* audited (calculate_portfolio_risk_payload).                             *)
WorstPairIsReported ==
    latest # NoPayload =>
        /\ "red" \in latest.lights => latest.light = "red"
        /\ latest.lights = {"green"} => latest.light = "green"
        /\ {"green", "yellow"} = latest.lights => latest.light = "yellow"
        /\ \A c \in latest.cvars : c[2] > 0 => <<latest.highest, c[2]>> \in latest.cvars

(* Simulated positions are a last resort: they stand in for the book only *)
(* after every endpoint was asked, so an empty answer of one does not hide *)
(* the positions of the next (fetch_active_positions).                     *)
SimulatedIsLastResort ==
    \A r \in Readers : reader[r].simulated => reader[r].asked = BookEndpoints

(* The published risk is the worst that was seen, of the best book there   *)
(* was.                                                                    *)
RiskIsHonest == WorstPairIsReported /\ SimulatedIsLastResort
=============================================================================
