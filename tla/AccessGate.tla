------------------------------ MODULE AccessGate ----------------------------
(***************************************************************************)
(* Who is served and how often (infra/auth.py, verify_friday_auth and      *)
(* delegate_task of api/routers/friday.py, upgrade/rate_limit.py).  A      *)
(* request's key is resolved to a principal, anonymous reads are charged   *)
(* to the caller's address, FRIDAY calls to their key, and the role is     *)
(* compared with what the route requires.  Time runs in ticks of which     *)
(* Second make a second, since Retry-After is told in whole seconds.       *)
(***************************************************************************)
EXTENDS Integers, Sequences, FiniteSets

CONSTANTS
    Arrivals,
    Clients,        \* addresses
    StoredKeys,     \* keys of the api_keys table
    Master,         \* FUTURIS_API_KEY
    Delegate,       \* FUTURIS_FRIDAY_API_KEY
    Unknown,        \* a key nobody issued
    Keyless,
    Limit, Window,  \* admissions per window
    Second,
    Printed,        \* ticks in the last digit of the wait FRIDAY is told
    Deployments,    \* sets of keys the settings may hold
    Routes,         \* of "read", "heavy", "analyst", "admin", "friday"
    LastSecond      \* bound

ASSUME LimitIsPositive ==
    Limit \in Nat \ {0} /\ Window \in Nat \ {0} /\ Second \in Nat \ {0} /\ Printed \in Nat \ {0}
ASSUME KeysDiffer ==
    Unknown \notin {Master, Delegate} /\ Keyless \notin StoredKeys \cup {Master, Delegate, Unknown}
ASSUME DeploymentsHoldKeys == Deployments \subseteq SUBSET {Master, Delegate}

Keys == StoredKeys \cup {Master, Delegate, Unknown}

Buckets == ({"read", "heavy"} \X Clients) \cup ({"friday"} \X Keys)

VARIABLES
    second,
    enforced,    \* API_KEYS_ENABLED, or production, which cannot switch it off
    issued,      \* the keys the settings hold
    short,       \* FRIDAY's key has fewer characters than MIN_API_KEY_CHARS
    roles,       \* key -> the role it is stored with, or "revoked"
    bucket,      \* bucket -> the instants of its admissions still kept
    admissions,  \* history: bucket -> the instants of its last admissions
    req

accessVars == <<second, enforced, issued, short, roles, bucket, admissions, req>>

Level == [anonymous |-> 0, viewer |-> 1, analyst |-> 2, admin |-> 3]

NoCall == [at |-> "idle", client |-> Keyless, key |-> Keyless, route |-> "none", role |-> "none",
           answer |-> 0, since |-> 0, retryAt |-> 0]

AccessInit ==
    /\ second = 0 /\ enforced \in BOOLEAN
    /\ issued \in Deployments /\ short \in BOOLEAN
    /\ roles \in [StoredKeys -> {"viewer", "analyst"}]
    /\ bucket = [b \in Buckets |-> <<>>] /\ admissions = [b \in Buckets |-> <<>>]
    /\ req = [r \in Arrivals |-> NoCall]

TimePasses ==
    /\ second < LastSecond /\ second' = second + 1
    /\ UNCHANGED <<enforced, issued, short, roles, bucket, admissions, req>>

Revoke(k) ==
    /\ roles[k] # "revoked"
    /\ roles' = [roles EXCEPT ![k] = "revoked"]
    /\ UNCHANGED <<second, enforced, issued, short, bucket, admissions, req>>

Arrive(r) ==
    /\ req[r].at = "idle"
    /\ \E c \in Clients, k \in Keys \cup {Keyless}, route \in Routes :
        req' = [req EXCEPT ![r] =
            [NoCall EXCEPT !.at = "resolve", !.client = c, !.key = k, !.route = route]]
    /\ UNCHANGED <<second, enforced, issued, short, roles, bucket, admissions>>

TurnedAway(r, code) == req' = [req EXCEPT ![r] = [NoCall EXCEPT !.answer = code]]

Resolved(r, role) == req' = [req EXCEPT ![r].at = "charge", ![r].role = role]

(* A key that is present but invalid is refused, never taken as none.      *)
GetCurrentUser(r) ==
    /\ req[r].at = "resolve" /\ req[r].route # "friday"
    /\ LET k == req[r].key IN
       IF ~enforced \/ k \in issued \cap {Master} THEN Resolved(r, "admin")
       ELSE IF k = Keyless THEN Resolved(r, "anonymous")
       ELSE IF k \in StoredKeys /\ roles[k] # "revoked" THEN Resolved(r, roles[k])
       ELSE TurnedAway(r, 401)
    /\ UNCHANGED <<second, enforced, issued, short, roles, bucket, admissions>>

(* FRIDAY's own key is expected, the master key in its place when there is *)
(* none, and the master key is taken beside it.                            *)
VerifyFridayAuth(r) ==
    /\ req[r].at = "resolve" /\ req[r].route = "friday"
    /\ IF issued = {} \/ short THEN TurnedAway(r, 503)
       ELSE IF req[r].key # Keyless /\ req[r].key \in issued THEN Resolved(r, "analyst")
       ELSE TurnedAway(r, 401)
    /\ UNCHANGED <<second, enforced, issued, short, roles, bucket, admissions>>

(* What left the window is dropped from the front, up to the first instant *)
(* that has not.                                                           *)
Pruned(instants, at) ==
    LET dropped == CHOOSE n \in 0 .. Len(instants) :
            /\ \A i \in 1 .. n : instants[i] <= at - Window
            /\ n < Len(instants) => instants[n + 1] > at - Window
    IN SubSeq(instants, dropped + 1, Len(instants))

CeilSecond(ticks) == Second * ((ticks + Second - 1) \div Second)

(* What an exact wait may be told as: an anonymous caller is told whole    *)
(* seconds, rounded up; FRIDAY the nearest of the times its digits write,  *)
(* which may be the earlier one.                                           *)
RetryAfter(b, ticks) ==
    IF b[1] = "friday"
    THEN {told \in {Printed * (ticks \div Printed), Printed * (ticks \div Printed) + Printed} :
             2 * (told - ticks) <= Printed /\ 2 * (ticks - told) <= Printed}
    ELSE {IF CeilSecond(ticks) < Second THEN Second ELSE CeilSecond(ticks)}

Latest(instants) ==
    IF Len(instants) > Limit + 1 THEN Tail(instants) ELSE instants

(* The mutant: one more than the limit fits.                               *)
MutantConsume(r, b) ==
    LET kept == Pruned(bucket[b], second) IN
    IF Len(kept) > Limit
    THEN /\ bucket' = [bucket EXCEPT ![b] = kept]
         /\ \E told \in RetryAfter(b, Head(kept) + Window - second) :
              req' = [req EXCEPT ![r] = [@ EXCEPT !.at = "idle", !.answer = 429, !.since = second,
                         !.retryAt = second + told]]
         /\ UNCHANGED admissions
    ELSE /\ bucket' = [bucket EXCEPT ![b] = Append(kept, second)]
         /\ admissions' = [admissions EXCEPT ![b] = Latest(Append(@, second))]
         /\ req' = [req EXCEPT ![r].at = "role"]

Consume(r, b) ==
    LET kept == Pruned(bucket[b], second) IN
    IF Len(kept) >= Limit
    THEN /\ bucket' = [bucket EXCEPT ![b] = kept]
         /\ \E told \in RetryAfter(b, Head(kept) + Window - second) :
              req' = [req EXCEPT ![r] = [@ EXCEPT !.at = "idle", !.answer = 429, !.since = second,
                         !.retryAt = second + told]]
         /\ UNCHANGED admissions
    ELSE /\ bucket' = [bucket EXCEPT ![b] = Append(kept, second)]
         /\ admissions' = [admissions EXCEPT ![b] = Latest(Append(@, second))]
         /\ req' = [req EXCEPT ![r].at = "role"]

BucketOf(call) ==
    IF call.route = "friday" THEN <<"friday", call.key>> ELSE <<call.route, call.client>>

Charged(call) ==
    call.route = "friday" \/ (call.route \in {"read", "heavy"} /\ call.role = "anonymous")

Charge(r) ==
    /\ req[r].at = "charge"
    /\ IF Charged(req[r]) THEN Consume(r, BucketOf(req[r]))
       ELSE req' = [req EXCEPT ![r].at = "role"] /\ UNCHANGED <<bucket, admissions>>
    /\ UNCHANGED <<second, enforced, issued, short, roles>>

Required(route) ==
    CASE route = "admin" -> 3 [] route \in {"analyst", "friday"} -> 2 [] OTHER -> 0

RequireRole(r) ==
    /\ req[r].at = "role"
    /\ IF Level[req[r].role] < Required(req[r].route) THEN TurnedAway(r, 403)
       ELSE req' = [req EXCEPT ![r].at = "handle"]
    /\ UNCHANGED <<second, enforced, issued, short, roles, bucket, admissions>>

(* A task that asks for an execution is refused whoever sent it; the other *)
(* ones go to the handlers of the forecast, scenario, resolution,          *)
(* cancellation and calibration routes, or name none of them.              *)
DelegateTask(r) ==
    /\ req[r].at = "handle"
    /\ \E code \in IF req[r].route = "friday" THEN {200, 400, 403, 422} ELSE {200} :
         TurnedAway(r, code)
    /\ UNCHANGED <<second, enforced, issued, short, roles, bucket, admissions>>

AccessNext ==
    \/ TimePasses
    \/ \E k \in StoredKeys : Revoke(k)
    \/ \E r \in Arrivals :
        \/ Arrive(r) \/ GetCurrentUser(r) \/ VerifyFridayAuth(r) \/ Charge(r)
        \/ RequireRole(r) \/ DelegateTask(r)

AccessSpec == AccessInit /\ [][AccessNext]_accessVars

-----------------------------------------------------------------------------
(* No stretch of time as long as the window sees more admissions than the  *)
(* limit, wherever it begins (InMemoryRateLimitBackend.consume).           *)
WindowHolds ==
    \A b \in Buckets : \A i \in 1 .. Len(admissions[b]) - Limit :
        admissions[b][i + Limit] - admissions[b][i] >= Window

\* A caller waited as long as it was told; FRIDAY, whose digits may be rounded down, for half
\* of the last one more.
HasWaited(call) ==
    IF call.route = "friday" THEN 2 * (second - call.retryAt) >= Printed
    ELSE second >= call.retryAt

(* A caller that waited as long as it was told, up to the digits it was    *)
(* told it with, finds room, unless somebody else was admitted to its      *)
(* bucket in between (Retry-After).                                        *)
RetryAfterIsEnough ==
    \A r \in Arrivals :
        LET own == BucketOf(req[r]) IN
        (req[r].answer = 429 /\ HasWaited(req[r])
            /\ \A i \in DOMAIN admissions[own] : admissions[own][i] <= req[r].since)
        => Len(Pruned(bucket[own], second)) < Limit

(* What the limiter promises to the service and to its callers.            *)
LimiterIsExact == WindowHolds /\ RetryAfterIsEnough
=============================================================================
