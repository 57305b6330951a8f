----------------------------- MODULE RiskAudit ------------------------------
(***************************************************************************)
(* The tail-risk audit of one price series: audit_tail_risk of             *)
(* api/routers/risk.py takes the prices from the stored observations, else *)
(* from the ticker series of Stratex, else generates returns, and          *)
(* evaluation/risk_calibration.py measures Value at Risk, shortfall and    *)
(* breaches.  Prices are integers, a return is the difference of two, and  *)
(* Value at Risk is kept in hundredths, which makes the interpolated       *)
(* percentile of a small sample exact.                                     *)
(***************************************************************************)
EXTENDS Integers, Sequences, FiniteSets

CONSTANTS
    Prices,       \* prices of an audited series
    Confidences,  \* confidence levels, in percent
    MinSample,    \* ten: fewer prices, or fewer returns, are not audited
    MaxSample,    \* bound: length of a price series
    Grain,        \* the report rounds a loss to this many hundredths
    NoAudit

ASSUME LevelsArePercentages == Confidences \subseteq 1 .. 99
ASSUME SamplesAreNumbers ==
    /\ Prices \subseteq Int /\ MinSample \in Nat \ {0} /\ MaxSample \in Nat /\ Grain \in Nat \ {0}

VARIABLES
    prices,     \* the prices, in the order of time
    source,     \* where they are served from: "stored", "stratex" or "nowhere"
    audit       \* the report

auditVars == <<prices, source, audit>>

AuditInit ==
    /\ \E n \in 0 .. MaxSample : prices \in [1 .. n -> Prices]
    /\ source \in {"stored", "stratex"} /\ audit = NoAudit

(***************************************************************************)
(* list_by_series answers newest first, the ticker series oldest first.    *)
(***************************************************************************)
Reversed(s) == [i \in 1 .. Len(s) |-> s[Len(s) + 1 - i]]

Served == IF source = "stored" THEN Reversed(prices) ELSE prices

Returns(s) == [i \in 1 .. Len(s) - 1 |-> s[i + 1] - s[i]]

SumUp(s) ==
    LET f[i \in 0 .. Len(s)] == IF i = 0 THEN 0 ELSE f[i - 1] + s[i] IN f[Len(s)]

(***************************************************************************)
(* calculate_var_cvar: the sample is negated when its mean is negative; the *)
(* percentile interpolates between two neighbours of the sorted sample.    *)
(***************************************************************************)
Losses(returns) ==
    IF SumUp(returns) < 0 THEN [i \in 1 .. Len(returns) |-> -returns[i]] ELSE returns

Rank(losses, i) ==
    Cardinality({j \in 1 .. Len(losses) :
        losses[j] < losses[i] \/ (losses[j] = losses[i] /\ j <= i)})

Sorted(losses) ==
    [k \in 1 .. Len(losses) |-> losses[CHOOSE i \in 1 .. Len(losses) : Rank(losses, i) = k]]

(* The mutant: the percentile is taken one observation too low.            *)
MutantPercentileBelow(losses, level) ==
    LET rank == level * (Len(losses) - 1)
        low == rank \div 100
        up == IF low < 1 THEN 1 ELSE low IN
    100 * Sorted(losses)[up]

VarHundredths(losses, level) ==
    LET rank == level * (Len(losses) - 1)
        low == rank \div 100
        part == rank % 100
        up == IF low + 2 > Len(losses) THEN low + 1 ELSE low + 2 IN
    (100 - part) * Sorted(losses)[low + 1] + part * Sorted(losses)[up]

Exceedances(losses, level) ==
    {i \in 1 .. Len(losses) : 100 * losses[i] >= VarHundredths(losses, level)}

Breaches(losses, level) ==
    {i \in 1 .. Len(losses) : 100 * losses[i] > VarHundredths(losses, level)}

ShortfallSum(losses, level) ==
    SumUp([i \in 1 .. Len(losses) |-> IF i \in Exceedances(losses, level) THEN losses[i] ELSE 0])

(* The report's Value at Risk is rounded, half to even.                    *)
Rounded(x) ==
    LET down == x \div Grain  rest == 2 * (x % Grain) IN
    Grain * (IF rest > Grain \/ (rest = Grain /\ down % 2 = 1) THEN down + 1 ELSE down)

(* Christoffersen's transition counts: the series of breaches is taken     *)
(* against the rounded Value at Risk, the breach count against the exact.  *)
Transitions(losses, level) ==
    LET line == Rounded(VarHundredths(losses, level))
        above == {t \in 1 .. Len(losses) : 100 * losses[t] > line} IN
    [from \in BOOLEAN, to \in BOOLEAN |->
        Cardinality({t \in 1 .. Len(losses) - 1 : (t \in above) = from /\ (t + 1 \in above) = to})]

Independence(losses, level) ==
    IF Len(losses) < 4 THEN "insufficient" ELSE Transitions(losses, level)

Metrics(losses, level) ==
    [var |-> Rounded(VarHundredths(losses, level)), breaches |-> Cardinality(Breaches(losses, level)),
     exceedances |-> Cardinality(Exceedances(losses, level)),
     shortfall |-> ShortfallSum(losses, level), independence |-> Independence(losses, level)]

(***************************************************************************)
(* A source with too few prices, or whose returns are too few, is passed   *)
(* over; without any the returns are generated.                            *)
(***************************************************************************)
Usable == Len(prices) >= MinSample /\ Len(Returns(Served)) >= MinSample

NextSource ==
    /\ audit = NoAudit /\ ~Usable /\ source # "nowhere"
    /\ source' = (IF source = "stored" THEN "stratex" ELSE "nowhere")
    /\ UNCHANGED <<prices, audit>>

AuditSeries ==
    /\ audit = NoAudit /\ Usable /\ source # "nowhere"
    /\ LET losses == Losses(Returns(Served)) IN
       audit' = [losses |-> losses, metrics |-> [v \in Confidences |-> Metrics(losses, v)]]
    /\ UNCHANGED <<prices, source>>

AuditGenerated ==
    /\ audit = NoAudit /\ source = "nowhere"
    /\ \E returns \in [1 .. MinSample -> {-1, 1}] :
        LET losses == Losses(returns) IN
        audit' = [losses |-> losses, metrics |-> [v \in Confidences |-> Metrics(losses, v)]]
    /\ UNCHANGED <<prices, source>>

AuditNext == NextSource \/ AuditSeries \/ AuditGenerated

AuditSpec == AuditInit /\ [][AuditNext]_auditVars

-----------------------------------------------------------------------------
(* The tail holds together: the loss at risk is one the sample reaches,    *)
(* the shortfall is not below it, and no larger share of the sample than   *)
(* the level leaves over lies beyond it (calculate_var_cvar).              *)
TailIsConsistent ==
    audit # NoAudit => \A v \in Confidences :
        LET of == audit.metrics[v]
            n == Len(audit.losses) IN
        /\ of.exceedances > 0 /\ of.breaches <= of.exceedances
        /\ 2 * 100 * of.shortfall >= (2 * of.var - Grain) * of.exceedances
        /\ 100 * (of.breaches - 1) < (100 - v) * (n - 1)
=============================================================================
