--------------------------- MODULE RequestProofs ----------------------------
(*****************************************************************************)
(* What admits, answers and feeds a request, for every number of clients,   *)
(* keys and subscribers and every bound: the rate limiter (AccessGate), the *)
(* cache of quick forecasts (QuickForecasts) and the event streams          *)
(* (StreamHub).  They share no state; each has its own invariant.           *)
(*****************************************************************************)
EXTENDS AccessGate, QuickForecasts, StreamHub,
        FiniteSetTheorems, SequenceTheorems, NumberLemmas, TLAPS

-----------------------------------------------------------------------------
(* The rate limiter and the gate before it.                                 *)

\* The limit, the window and the second are positive.
LEMMA LimiterConstants ==
  Limit \in Nat \ {0} /\ Window \in Nat \ {0} /\ Second \in Nat \ {0} /\ Printed \in Nat \ {0}
BY LimitIsPositive

\* The loop that pops the left of the bucket: it stops at the first instant of the window.
LEMMA PrunedDropsTheOld ==
  ASSUME NEW q \in Seq(Nat), NEW now \in Nat
  PROVE  \E n \in 0 .. Len(q) :
           /\ Pruned(q, now) \in Seq(Nat) /\ Len(Pruned(q, now)) = Len(q) - n
           /\ \A i \in 1 .. Len(q) - n : Pruned(q, now)[i] = q[n + i]
           /\ \A i \in 1 .. n : q[i] <= now - Window
           /\ n < Len(q) => q[n + 1] > now - Window
<1> DEFINE T == {n \in 0 .. Len(q) : n < Len(q) => q[n + 1] > now - Window}
<1>0. Len(q) \in Nat /\ \A i \in 1 .. Len(q) : q[i] \in Nat
  BY ElementOfSeq, LenProperties
<1>1. T \in SUBSET Nat /\ Len(q) \in T
  BY <1>0
<1>2. PICK n \in T : \A m \in T : n <= m
  <2> HIDE DEF T
  <2> QED
    BY <1>1, LeastOf
<1>3. ASSUME NEW i \in 1 .. n
      PROVE  q[i] <= now - Window
  <2>1. i - 1 \in 0 .. Len(q) /\ ~(n <= i - 1) /\ i - 1 < Len(q) /\ i - 1 + 1 = i
    BY <1>0, <1>2
  <2>2. ~(q[i] > now - Window)
    BY <1>2, <2>1
  <2> QED
    BY <1>0, <2>1, <2>2, LimiterConstants
<1> DEFINE fits(m) == /\ \A i \in 1 .. m : q[i] <= now - Window
                      /\ m < Len(q) => q[m + 1] > now - Window
           k == CHOOSE m \in 0 .. Len(q) : fits(m)
<1>4. n \in 0 .. Len(q) /\ fits(n)
  BY <1>2, <1>3
<1>5. k \in 0 .. Len(q) /\ fits(k)
  <2> HIDE DEF fits
  <2> QED
    BY <1>4
<1>6. Pruned(q, now) = SubSeq(q, k + 1, Len(q))
  BY DEF Pruned
<1> HIDE DEF k
<1>7. \A i \in k + 1 .. Len(q) : q[i] \in Nat
  BY <1>0, <1>5
<1>8. /\ SubSeq(q, k + 1, Len(q)) \in Seq(Nat)
      /\ Len(SubSeq(q, k + 1, Len(q))) = IF k + 1 <= Len(q) THEN Len(q) - (k + 1) + 1 ELSE 0
      /\ \A i \in 1 .. Len(q) - (k + 1) + 1 : SubSeq(q, k + 1, Len(q))[i] = q[(k + 1) + i - 1]
  <2>1. k + 1 \in Int /\ Len(q) \in Int
    BY <1>0, <1>5
  <2> QED
    BY <1>7, <2>1, SubSeqProperties
<1>9. /\ Pruned(q, now) \in Seq(Nat) /\ Len(Pruned(q, now)) = Len(q) - k
      /\ \A i \in 1 .. Len(q) - k : Pruned(q, now)[i] = q[k + i]
  <2>1. \A i \in 1 .. Len(q) - k : i \in 1 .. Len(q) - (k + 1) + 1 /\ (k + 1) + i - 1 = k + i
    BY <1>0, <1>5
  <2> QED
    BY <1>0, <1>5, <1>6, <1>8, <2>1
<1> QED
  BY <1>5, <1>9

\* A bucket and the admissions it counts: it ends with the ones of the window, those it has
\* dropped lie outside, and Limit admissions in a row span a window at least.
Tracks(q, a, now) ==
  /\ q \in Seq(Nat) /\ a \in Seq(Nat)
  /\ Len(q) <= Limit /\ Len(q) <= Len(a) /\ Len(a) <= Limit + 1
  /\ \A i \in 1 .. Len(q) : q[i] = a[Len(a) - Len(q) + i]
  /\ \A i \in 1 .. Len(a) - Len(q) : a[i] <= now - Window
  /\ \A i, j \in 1 .. Len(a) : i <= j => a[i] <= a[j]
  /\ \A i \in 1 .. Len(a) : a[i] <= now
  /\ \A i \in 1 .. Len(a) - Limit : a[i + Limit] - a[i] >= Window

\* Time passes: what lay outside the window stays outside.
LEMMA TracksLater ==
  ASSUME NEW q, NEW a, NEW now \in Nat, Tracks(q, a, now)
  PROVE  Tracks(q, a, now + 1)
<1>1. a \in Seq(Nat) /\ \A i \in 1 .. Len(a) : a[i] \in Nat
  BY ElementOfSeq DEF Tracks
<1>2. Len(a) \in Nat /\ q \in Seq(Nat) /\ Len(q) \in Nat
  BY <1>1 DEF Tracks
<1>3. PICK later \in Nat : later = now + 1
  OBVIOUS
<1>4. \A i \in 1 .. Len(a) - Len(q) : a[i] <= later - Window
  <2> TAKE i \in 1 .. Len(a) - Len(q)
  <2>1. i \in 1 .. Len(a)
    BY <1>2
  <2>2. a[i] \in Nat /\ a[i] <= now - Window
    BY <1>1, <2>1 DEF Tracks
  <2> QED
    BY <1>3, <2>2, LimiterConstants
<1>5. \A i \in 1 .. Len(a) : a[i] <= later
  <2> TAKE i \in 1 .. Len(a)
  <2>1. a[i] \in Nat /\ a[i] <= now
    BY <1>1 DEF Tracks
  <2> QED
    BY <1>3, <2>1
<1>6. Tracks(q, a, later)
  BY <1>4, <1>5 DEF Tracks
<1> QED
  BY <1>3, <1>6

\* Pruning drops exactly the admissions that left the window.
LEMMA TracksPruned ==
  ASSUME NEW q, NEW a, NEW now \in Nat, Tracks(q, a, now)
  PROVE  /\ Tracks(Pruned(q, now), a, now)
         /\ \A i \in 1 .. Len(a) : i <= Len(a) - Len(Pruned(q, now)) <=> a[i] <= now - Window
<1> DEFINE p == Pruned(q, now)
<1>1. /\ q \in Seq(Nat) /\ a \in Seq(Nat) /\ Len(q) \in Nat /\ Len(a) \in Nat
      /\ \A i \in 1 .. Len(a) : a[i] \in Nat
  BY ElementOfSeq DEF Tracks
<1>2. PICK n \in 0 .. Len(q) :
           /\ p \in Seq(Nat) /\ Len(p) = Len(q) - n
           /\ \A i \in 1 .. Len(q) - n : p[i] = q[n + i]
           /\ \A i \in 1 .. n : q[i] <= now - Window
           /\ n < Len(q) => q[n + 1] > now - Window
  BY <1>1, PrunedDropsTheOld
<1> HIDE DEF p
<1>3. PICK m \in Nat, l \in Nat : m = Len(q) /\ l = Len(a)
  BY <1>1
<1>4. m <= Limit /\ m <= l /\ l <= Limit + 1 /\ n \in Nat /\ n <= m /\ Len(p) = m - n /\ m - n \in Nat
  <2>1. m <= Limit /\ m <= l /\ l <= Limit + 1
    BY <1>3 DEF Tracks
  <2>2. n \in Nat /\ n <= m /\ Len(p) = m - n
    BY <1>2, <1>3
  <2> QED
    BY <2>1, <2>2
<1>5. /\ \A i \in 1 .. m : q[i] = a[l - m + i]
      /\ \A i \in 1 .. l - m : a[i] <= now - Window
      /\ \A i, j \in 1 .. l : i <= j => a[i] <= a[j]
      /\ \A i \in 1 .. l : a[i] \in Nat
  BY <1>1, <1>3 DEF Tracks
<1>6. ASSUME NEW i \in 1 .. m - n
      PROVE  p[i] = a[l - (m - n) + i]
  <2>1. i \in 1 .. Len(q) - n /\ n + i \in 1 .. m /\ l - m + (n + i) = l - (m - n) + i
    BY <1>3, <1>4
  <2>2. p[i] = q[n + i] /\ q[n + i] = a[l - m + (n + i)]
    BY <1>2, <1>5, <2>1
  <2> QED
    BY <2>1, <2>2
<1>7. ASSUME NEW i \in 1 .. l - (m - n)
      PROVE  a[i] <= now - Window
  <2>1. CASE i <= l - m
    <3>1. i \in 1 .. l - m
      BY <1>4, <2>1
    <3> QED
      BY <1>5, <3>1
  <2>2. CASE ~(i <= l - m)
    <3>1. PICK k \in Nat : k = i - (l - m)
      BY <1>4, <2>2
    <3>2. k \in 1 .. n /\ k \in 1 .. m /\ l - m + k = i
      BY <1>4, <2>2, <3>1
    <3>3. q[k] = a[i] /\ q[k] <= now - Window
      BY <1>2, <1>5, <3>2
    <3> QED
      BY <3>3
  <2> QED
    BY <2>1, <2>2
<1>8. ASSUME NEW i \in 1 .. l, ~(i <= l - (m - n))
      PROVE  ~(a[i] <= now - Window)
  <2>1. PICK k \in Nat : k = l - m + (n + 1)
    BY <1>4
  <2>2. n < m /\ n + 1 \in 1 .. m /\ k \in 1 .. l /\ k <= i
    BY <1>4, <1>8, <2>1
  <2>3. q[n + 1] = a[k] /\ q[n + 1] > now - Window
    BY <1>2, <1>3, <1>5, <2>1, <2>2
  <2>4. a[k] \in Nat /\ a[i] \in Nat /\ a[k] <= a[i]
    BY <1>5, <2>2
  <2> QED
    BY <2>3, <2>4, LimiterConstants
<1>9. Tracks(p, a, now)
  <2>1. p \in Seq(Nat) /\ Len(p) <= Limit /\ Len(p) <= Len(a)
    BY <1>2, <1>3, <1>4, LimiterConstants
  <2>2. /\ \A i \in 1 .. Len(p) : p[i] = a[Len(a) - Len(p) + i]
        /\ \A i \in 1 .. Len(a) - Len(p) : a[i] <= now - Window
    BY <1>3, <1>4, <1>6, <1>7
  <2> QED
    BY <2>1, <2>2 DEF Tracks
<1>10. \A i \in 1 .. Len(a) : i <= Len(a) - Len(p) <=> a[i] <= now - Window
  <2>1. \A i \in 1 .. l : i <= l - (m - n) => i \in 1 .. l - (m - n)
    BY <1>4
  <2>2. \A i \in 1 .. l : i <= l - (m - n) <=> a[i] <= now - Window
    BY <1>7, <1>8, <2>1
  <2> QED
    BY <1>3, <1>4, <2>2
<1> QED
  BY <1>9, <1>10 DEF p

\* The admissions remembered after one more.
Admitted(a, now) == Latest(Append(a, now))

\* A bucket with room for one more tracks it: the admission Limit places earlier left the window.
LEMMA TracksAdmission ==
  ASSUME NEW q, NEW a, NEW now \in Nat, Tracks(q, a, now), Len(q) < Limit
  PROVE  /\ Tracks(Append(q, now), Admitted(a, now), now)
         /\ Len(Admitted(a, now)) \in 1 .. Limit + 1 /\ Admitted(a, now)[Len(Admitted(a, now))] = now
<1>1. /\ q \in Seq(Nat) /\ a \in Seq(Nat) /\ Len(q) \in Nat /\ Len(a) \in Nat
      /\ \A i \in 1 .. Len(a) : a[i] \in Nat
      /\ Limit \in Nat \ {0} /\ Window \in Nat \ {0}
  BY ElementOfSeq, LimiterConstants DEF Tracks
<1>2. PICK m \in Nat, l \in Nat : m = Len(q) /\ l = Len(a)
  BY <1>1
<1>3. m < Limit /\ m <= l /\ l <= Limit + 1
  BY <1>2 DEF Tracks
<1>4. /\ \A i \in 1 .. m : q[i] = a[l - m + i]
      /\ \A i \in 1 .. l - m : a[i] <= now - Window
      /\ \A i, j \in 1 .. l : i <= j => a[i] <= a[j]
      /\ \A i \in 1 .. l : a[i] <= now
      /\ \A i \in 1 .. l : a[i] \in Nat
  BY <1>1, <1>2 DEF Tracks
<1>5. PICK q2 : q2 = Append(q, now)
  OBVIOUS
<1>6. /\ q2 \in Seq(Nat) /\ Len(q2) = m + 1 /\ q2[m + 1] = now
      /\ \A i \in 1 .. m : q2[i] = q[i]
  BY <1>1, <1>2, <1>5, AppendProperties
<1>7. PICK a2 : a2 = Append(a, now)
  OBVIOUS
<1>8. /\ a2 \in Seq(Nat) /\ Len(a2) = l + 1 /\ a2[l + 1] = now /\ a2 # << >>
      /\ \A i \in 1 .. l : a2[i] = a[i]
  BY <1>1, <1>2, <1>7, AppendProperties
<1>9. PICK a3 : a3 = Latest(a2)
  OBVIOUS
<1>10. PICK s \in Nat :
        /\ s = IF l = Limit + 1 THEN 1 ELSE 0
        /\ a3 \in Seq(Nat) /\ Len(a3) = l + 1 - s
        /\ \A i \in 1 .. l - s : a3[i] = a[i + s]
        /\ a3[l + 1 - s] = now
  <2>1. CASE l = Limit + 1
    <3>1. a3 = Tail(a2)
      <4>1. Len(a2) > Limit + 1
        BY <1>1, <1>8, <2>1
      <4> QED
        BY <1>9, <4>1 DEF Latest
    <3>2. /\ a3 \in Seq(Nat) /\ Len(a3) = Len(a2) - 1
          /\ \A i \in 1 .. Len(a3) : a3[i] = a2[i + 1]
      BY <1>8, <3>1, HeadTailProperties
    <3>3. Len(a3) = l
      BY <1>8, <3>2
    <3>4. l \in 1 .. l
      BY <1>1, <2>1
    <3>5. a3[l] = now
      BY <1>8, <3>2, <3>3, <3>4
    <3>6. \A i \in 1 .. l - 1 : i \in 1 .. l /\ i + 1 \in 1 .. l
      OBVIOUS
    <3>7. \A i \in 1 .. l - 1 : a3[i] = a[i + 1]
      BY <1>8, <3>2, <3>3, <3>6
    <3>8. l + 1 - 1 = l
      OBVIOUS
    <3> QED
      BY <2>1, <3>2, <3>3, <3>5, <3>7, <3>8
  <2>2. CASE l # Limit + 1
    <3>1. a3 = a2
      <4>1. ~(Len(a2) > Limit + 1)
        BY <1>1, <1>3, <1>8, <2>2
      <4> QED
        BY <1>9, <4>1 DEF Latest
    <3>2. l + 1 - 0 = l + 1 /\ l - 0 = l /\ \A i \in 1 .. l : i + 0 = i
      OBVIOUS
    <3> QED
      BY <1>8, <2>2, <3>1, <3>2
  <2> QED
    BY <2>1, <2>2
<1>11. s \in {0, 1} /\ (s = 1 <=> l = Limit + 1) /\ (l = Limit + 1 \/ l <= Limit)
  BY <1>1, <1>3, <1>10
<1>12. m + 1 <= Limit /\ m + 1 <= l + 1 - s /\ l + 1 - s <= Limit + 1 /\ l + 1 - s \in Nat
  BY <1>1, <1>3, <1>11
<1>13. ASSUME NEW i \in 1 .. m + 1
       PROVE  q2[i] = a3[(l + 1 - s) - (m + 1) + i]
  <2>1. CASE i = m + 1
    <3>1. (l + 1 - s) - (m + 1) + i = l + 1 - s
      BY <1>12, <2>1
    <3> QED
      BY <1>6, <1>10, <2>1, <3>1
  <2>2. CASE i # m + 1
    <3>1. i \in 1 .. m
      BY <2>2
    <3>2. q2[i] = a[l - m + i]
      BY <1>4, <1>6, <3>1
    <3>3. PICK k \in Nat : k = (l + 1 - s) - (m + 1) + i
      BY <1>11, <1>12, <3>1
    <3>4. k \in 1 .. l - s /\ k + s = l - m + i
      BY <1>1, <1>3, <1>11, <3>1, <3>3
    <3> QED
      BY <1>10, <3>2, <3>3, <3>4
  <2> QED
    BY <2>1, <2>2
<1>14. ASSUME NEW i \in 1 .. (l + 1 - s) - (m + 1)
       PROVE  a3[i] <= now - Window
  <2>1. i \in 1 .. l - s /\ i + s \in 1 .. l - m
    BY <1>3, <1>11
  <2> QED
    BY <1>4, <1>10, <2>1
<1>15. ASSUME NEW i \in 1 .. l + 1 - s, i # l + 1 - s
       PROVE  i \in 1 .. l - s /\ i + s \in 1 .. l
  BY <1>11, <1>15
<1>16. ASSUME NEW i \in 1 .. l + 1 - s
       PROVE  a3[i] <= now
  <2>1. CASE i = l + 1 - s
    BY <1>10, <2>1
  <2>2. CASE i # l + 1 - s
    BY <1>4, <1>10, <1>15, <2>2
  <2> QED
    BY <2>1, <2>2
<1>17. ASSUME NEW i \in 1 .. l + 1 - s, NEW j \in 1 .. l + 1 - s, i <= j
       PROVE  a3[i] <= a3[j]
  <2>1. CASE j = l + 1 - s
    BY <1>10, <1>16, <2>1
  <2>2. CASE j # l + 1 - s
    <3>1. j \in 1 .. l - s /\ j + s \in 1 .. l
      BY <1>15, <2>2
    <3>2. i # l + 1 - s
      BY <1>11, <1>17, <2>2
    <3>3. i \in 1 .. l - s /\ i + s \in 1 .. l
      BY <1>15, <3>2
    <3>4. i + s <= j + s
      BY <1>17, <1>11
    <3> QED
      BY <1>4, <1>10, <3>1, <3>3, <3>4
  <2> QED
    BY <2>1, <2>2
<1>18. ASSUME NEW i \in 1 .. (l + 1 - s) - Limit
       PROVE  a3[i + Limit] - a3[i] >= Window
  <2>1. i = 1 /\ i + Limit = l + 1 - s /\ i \in 1 .. l - s /\ i + s \in 1 .. l - m /\ i + s \in 1 .. l
    BY <1>1, <1>3, <1>11, <1>12
  <2>2. a3[i + Limit] = now /\ a3[i] = a[i + s] /\ a[i + s] <= now - Window /\ a[i + s] \in Nat
    BY <1>4, <1>10, <2>1
  <2> QED
    BY <1>1, <2>2
<1>19. Tracks(q2, a3, now)
  <2>1. Len(q2) <= Limit /\ Len(q2) <= Len(a3) /\ Len(a3) <= Limit + 1
    BY <1>6, <1>10, <1>12
  <2> QED
    BY <1>6, <1>10, <1>13, <1>14, <1>16, <1>17, <1>18, <2>1 DEF Tracks
<1>20. Len(a3) \in 1 .. Limit + 1 /\ a3[Len(a3)] = now
  BY <1>1, <1>10, <1>11, <1>12
<1> QED
  BY <1>5, <1>7, <1>9, <1>19, <1>20 DEF Admitted

\* Twice what rounding may take from the wait that a call, or whom bucket b charges, is told.
Slack(call) == IF call.route = "friday" THEN Printed ELSE 0
BucketSlack(b) == IF b[1] = "friday" THEN Printed ELSE 0

\* What Retry-After promises while nobody was admitted since the refusal: the Limit-th newest
\* admission leaves the window by then, up to what rounding took.
RoomPromised(call, a) ==
  (\A i \in 1 .. Len(a) : a[i] <= call.since) =>
    /\ Len(a) >= Limit
    /\ a[Len(a) - Limit + 1] > call.since - Window
    /\ 2 * (a[Len(a) - Limit + 1] + Window - call.retryAt) <= Slack(call)

\* The types a tracked bucket has.
LEMMA TrackedAreNaturals ==
  ASSUME NEW q, NEW a, NEW now, Tracks(q, a, now)
  PROVE  /\ q \in Seq(Nat) /\ a \in Seq(Nat) /\ Len(q) \in Nat /\ Len(a) \in Nat
         /\ \A i \in 1 .. Len(a) : a[i] \in Nat
         /\ DOMAIN a = 1 .. Len(a)
BY ElementOfSeq, LenProperties DEF Tracks

\* A refusal promises room, since a full bucket starts with the Limit-th newest admission.
LEMMA RefusalPromises ==
  ASSUME NEW q, NEW a, NEW now \in Nat, Tracks(q, a, now), Len(Pruned(q, now)) >= Limit, NEW call,
         call.since = now, call.retryAt \in Int,
         2 * (Head(Pruned(q, now)) + Window - call.retryAt) <= Slack(call)
  PROVE  RoomPromised(call, a)
<1>1. PICK p : p = Pruned(q, now)
  OBVIOUS
<1>2. Tracks(p, a, now) /\ \A i \in 1 .. Len(a) : i <= Len(a) - Len(p) <=> a[i] <= now - Window
  BY <1>1, TracksPruned
<1>3. /\ p \in Seq(Nat) /\ Len(p) \in Nat /\ Len(a) \in Nat /\ \A i \in 1 .. Len(a) : a[i] \in Nat
  BY <1>2, TrackedAreNaturals
<1>4. Len(p) = Limit /\ Len(p) <= Len(a)
  BY <1>1, <1>2, <1>3, LimiterConstants DEF Tracks
<1>5. PICK k \in Nat : k = Len(a) - Limit + 1
  <2>1. Len(a) \in Nat /\ Limit \in Nat /\ Limit <= Len(a)
    BY <1>3, <1>4, LimiterConstants
  <2>2. Len(a) - Limit + 1 \in Nat
    BY <2>1
  <2> QED
    BY <2>2
<1>6. k \in 1 .. Len(a) /\ ~(k <= Len(a) - Len(p)) /\ 1 \in 1 .. Len(p) /\ Len(a) - Len(p) + 1 = k
  <2>1. Limit \in Nat \ {0} /\ Len(a) \in Nat /\ Limit <= Len(a) /\ Len(p) = Limit
    BY <1>3, <1>4, LimiterConstants
  <2> QED
    BY <1>5, <2>1
<1>7. ~(a[k] <= now - Window) /\ a[k] \in Nat /\ p[1] = a[k]
  BY <1>2, <1>3, <1>6 DEF Tracks
<1>8. Head(p) = p[1]
  BY <1>3, <1>6
<1>9. a[k] > now - Window /\ 2 * (a[k] + Window - call.retryAt) <= Slack(call)
  BY <1>1, <1>7, <1>8, LimiterConstants
<1> QED
  BY <1>3, <1>4, <1>5, <1>9, LimiterConstants DEF RoomPromised

\* An admission breaks no promise: whoever was told to wait sees an admission after it.
LEMMA AdmissionKeepsPromises ==
  ASSUME NEW q, NEW a, NEW now \in Nat, Tracks(q, a, now), Len(Pruned(q, now)) < Limit, NEW call,
         call.since \in Nat, call.since <= now, RoomPromised(call, a)
  PROVE  RoomPromised(call, Admitted(a, now))
<1>1. PICK p : p = Pruned(q, now)
  OBVIOUS
<1>2. Tracks(p, a, now) /\ \A i \in 1 .. Len(a) : i <= Len(a) - Len(p) <=> a[i] <= now - Window
  BY <1>1, TracksPruned
<1>3. /\ Len(p) \in Nat /\ Len(a) \in Nat /\ \A i \in 1 .. Len(a) : a[i] \in Nat /\ a[i] <= now
  BY <1>2, TrackedAreNaturals DEF Tracks
<1>4. PICK a3 : a3 = Admitted(a, now)
  OBVIOUS
<1>5. \E i \in 1 .. Len(a3) : a3[i] = now
  <2>1. Tracks(p, a, now) /\ Len(p) < Limit
    BY <1>1, <1>2
  <2>2. Len(Admitted(a, now)) \in 1 .. Limit + 1 /\ Admitted(a, now)[Len(Admitted(a, now))] = now
    BY <2>1, TracksAdmission
  <2>3. Len(a3) \in 1 .. Len(a3)
    BY <1>4, <2>2, LimiterConstants
  <2> QED
    BY <1>4, <2>2, <2>3
<1>6. ASSUME \A i \in 1 .. Len(a3) : a3[i] <= call.since
      PROVE  FALSE
  <2>1. now = call.since
    BY <1>5, <1>6
  <2>2. Len(a) >= Limit /\ a[Len(a) - Limit + 1] > now - Window
    BY <1>3, <2>1 DEF RoomPromised
  <2>3. PICK k \in Nat : k = Len(a) - Limit + 1
    <3>1. Len(a) \in Nat /\ Limit \in Nat /\ Limit <= Len(a)
      BY <1>3, <2>2, LimiterConstants
    <3>2. Len(a) - Limit + 1 \in Nat
      BY <3>1
    <3> QED
      BY <3>2
  <2>4. k \in 1 .. Len(a) /\ k <= Len(a) - Len(p)
    <3>1. Limit \in Nat \ {0} /\ Len(a) \in Nat /\ Limit <= Len(a) /\ Len(p) \in Nat /\ Len(p) < Limit
      BY <1>1, <1>3, <2>2, LimiterConstants
    <3> QED
      BY <2>3, <3>1
  <2>5. a[k] <= now - Window /\ a[k] > now - Window /\ a[k] \in Nat
    BY <1>2, <1>3, <2>2, <2>3, <2>4
  <2> QED
    BY <2>5, LimiterConstants
<1> QED
  BY <1>4, <1>6 DEF RoomPromised

\* A kept promise is room: at the instant promised the pruned bucket is not full.
LEMMA PromisedRoom ==
  ASSUME NEW q, NEW a, NEW now \in Nat, Tracks(q, a, now), NEW call, call.since \in Nat, call.retryAt \in Int,
         RoomPromised(call, a), 2 * (now - call.retryAt) >= Slack(call), \A i \in 1 .. Len(a) : a[i] <= call.since
  PROVE  Len(Pruned(q, now)) < Limit
<1>1. PICK p : p = Pruned(q, now)
  OBVIOUS
<1>2. Tracks(p, a, now) /\ \A i \in 1 .. Len(a) : i <= Len(a) - Len(p) <=> a[i] <= now - Window
  BY <1>1, TracksPruned
<1>3. /\ Len(p) \in Nat /\ Len(a) \in Nat /\ \A i \in 1 .. Len(a) : a[i] \in Nat
  BY <1>2, TrackedAreNaturals
<1>4. Len(a) >= Limit /\ 2 * (a[Len(a) - Limit + 1] + Window - call.retryAt) <= Slack(call)
  BY DEF RoomPromised
<1>5. PICK k \in Nat : k = Len(a) - Limit + 1
  <2>1. Len(a) \in Nat /\ Limit \in Nat /\ Limit <= Len(a)
    BY <1>3, <1>4, LimiterConstants
  <2>2. Len(a) - Limit + 1 \in Nat
    BY <2>1
  <2> QED
    BY <2>2
<1>6. Limit \in Nat \ {0} /\ Len(a) \in Nat /\ Limit <= Len(a) /\ Len(p) \in Nat
  BY <1>3, <1>4, LimiterConstants
<1>7. k \in 1 .. Len(a)
  BY <1>5, <1>6
<1>8. a[k] <= now - Window
  <2>1. PICK slack \in Int : slack = Slack(call)
    BY LimiterConstants DEF Slack
  <2>2. PICK t \in Int : t = call.retryAt
    OBVIOUS
  <2>3. PICK x \in Nat : x = a[k]
    BY <1>3, <1>7
  <2>4. 2 * (x + Window - t) <= slack /\ 2 * (now - t) >= slack
    BY <1>4, <1>5, <2>1, <2>2, <2>3
  <2> QED
    BY <2>3, <2>4, LimiterConstants
<1>9. k <= Len(a) - Len(p)
  BY <1>2, <1>7, <1>8
<1>10. Len(p) < Limit
  BY <1>5, <1>6, <1>9
<1> QED
  BY <1>1, <1>10

\* Whole seconds are rounded up, so they are never too early; the nearest of the times FRIDAY's
\* digits write is early by half a digit at most, and there is one.
LEMMA ToldIsNearEnough ==
  ASSUME NEW ticks \in Int, NEW b, NEW told \in RetryAfter(b, ticks)
  PROVE  told \in Int /\ 2 * (ticks - told) <= BucketSlack(b)
<1>1. Second \in Nat \ {0} /\ Printed \in Nat \ {0}
  BY LimiterConstants
<1>2. CASE b[1] = "friday"
  <2>1. PICK p \in Int : p = Printed * (ticks \div Printed)
    <3>1. ticks \div Printed \in Int
      BY <1>1
    <3>2. Printed * (ticks \div Printed) \in Int
      BY <1>1, <3>1
    <3> QED
      BY <3>2
  <2>2. told \in {p, p + Printed} /\ 2 * (ticks - told) <= Printed
    BY <1>2, <2>1 DEF RetryAfter
  <2> QED
    BY <1>1, <1>2, <2>1, <2>2 DEF BucketSlack
<1>3. CASE b[1] # "friday"
  <2>2. PICK x \in Int : x = ticks + Second - 1
    BY <1>1
  <2>3. x \div Second \in Int /\ Second * (x \div Second) >= x - (Second - 1)
    BY <1>1
  <2>4. Second * (x \div Second) \in Int
    BY <1>1, <2>3
  <2>5. CeilSecond(ticks) \in Int /\ CeilSecond(ticks) >= ticks
    BY <1>1, <2>2, <2>3, <2>4 DEF CeilSecond
  <2>6. told = IF CeilSecond(ticks) < Second THEN Second ELSE CeilSecond(ticks)
    BY <1>3 DEF RetryAfter
  <2>7. told \in Int /\ told >= ticks
    BY <1>1, <2>5, <2>6
  <2> QED
    BY <1>3, <2>7 DEF BucketSlack
<1> QED
  BY <1>2, <1>3

\* The types of the state.
Roles == {"none", "anonymous", "viewer", "analyst", "admin"}
Calls == [at : {"idle", "resolve", "charge", "role", "handle"}, client : Clients \cup {Keyless},
          key : Keys \cup {Keyless}, route : Routes \cup {"none"}, role : Roles,
          answer : Nat, since : Nat, retryAt : Int]

\* What is known of one request: who is identified, and what it was promised.
CallOK(call) ==
  /\ call.at # "idle" => call.client \in Clients /\ call.answer = 0
  /\ call.at = "charge" /\ call.route = "friday" => call.key \in Keys
  /\ call.answer = 429 => call.since <= second /\ BucketOf(call) \in Buckets
                          /\ RoomPromised(call, admissions[BucketOf(call)])

\* The type invariant of the gate.
AccessTypeOK ==
  /\ second \in Nat
  /\ roles \in [StoredKeys -> {"viewer", "analyst", "revoked"}]
  /\ bucket \in [Buckets -> Seq(Nat)] /\ admissions \in [Buckets -> Seq(Nat)]
  /\ req \in [Arrivals -> Calls]

\* The inductive invariant of the gate.
AccessInv ==
  /\ AccessTypeOK
  /\ \A b \in Buckets : Tracks(bucket[b], admissions[b], second)
  /\ \A r \in Arrivals : CallOK(req[r])

\* A gate with empty buckets satisfies the invariant.
LEMMA AccessInitial == AccessInit => AccessInv
<1> SUFFICES ASSUME AccessInit PROVE AccessInv
  OBVIOUS
<1>1. << >> \in Seq(Nat) /\ Len(<< >>) = 0
  OBVIOUS
<1>2. Tracks(<< >>, << >>, 0)
  BY <1>1, LimiterConstants DEF Tracks
<1>3. NoCall \in Calls /\ CallOK(NoCall)
  BY DEF NoCall, Calls, CallOK, Roles
<1>4. AccessTypeOK
  BY <1>1, <1>3 DEF AccessInit, AccessTypeOK
<1> QED
  BY <1>2, <1>3, <1>4 DEF AccessInit, AccessInv

\* A step that charges no bucket keeps the invariant.
LEMMA UnchargedStep ==
  ASSUME AccessInv, UNCHANGED <<second, bucket, admissions>>,
         roles' \in [StoredKeys -> {"viewer", "analyst", "revoked"}],
         NEW r \in Arrivals, NEW new \in Calls, req' \in [Arrivals -> Calls],
         \A p \in Arrivals : req'[p] = IF p = r THEN new ELSE req[p],
         new.at # "idle" => new.client \in Clients /\ new.answer = 0,
         new.at = "charge" /\ new.route = "friday" => new.key \in Keys,
         new.answer # 429
  PROVE  AccessInv'
<1>1. req' \in [Arrivals -> Calls] /\ \A p \in Arrivals : req'[p] = IF p = r THEN new ELSE req[p]
  OBVIOUS
<1>2. \A p \in Arrivals : CallOK(req[p])'
  <2> TAKE p \in Arrivals
  <2>1. CASE p = r
    BY <1>1, <2>1 DEF CallOK
  <2>2. CASE p # r
    <3>1. CallOK(req[p]) /\ req'[p] = req[p]
      BY <1>1, <2>2 DEF AccessInv
    <3> QED
      BY <3>1 DEF CallOK
  <2> QED
    BY <2>1, <2>2
<1>3. AccessTypeOK'
  <2>1. second' \in Nat /\ bucket' \in [Buckets -> Seq(Nat)] /\ admissions' \in [Buckets -> Seq(Nat)]
    BY DEF AccessInv, AccessTypeOK
  <2> QED
    BY <1>1, <2>1 DEF AccessTypeOK
<1>4. \A b \in Buckets : Tracks(bucket[b], admissions[b], second)'
  <2> TAKE b \in Buckets
  <2>1. Tracks(bucket[b], admissions[b], second)
    BY DEF AccessInv
  <2>2. bucket' = bucket /\ admissions' = admissions /\ second' = second
    OBVIOUS
  <2>3. Tracks(bucket'[b], admissions'[b], second')
    BY <2>1, <2>2
  <2> QED
    BY <2>3 DEF Tracks
<1> QED
  BY <1>2, <1>3, <1>4 DEF AccessInv

\* A request answered with 429.
Refusal(call, now, t) == [call EXCEPT !.at = "idle", !.answer = 429, !.since = now, !.retryAt = t]

\* A refusal changes what it says and no more.
LEMMA RefusedCall ==
  ASSUME NEW call \in Calls, NEW now \in Nat, NEW t \in Int
  PROVE  /\ Refusal(call, now, t) \in Calls /\ Refusal(call, now, t).at = "idle"
         /\ Refusal(call, now, t).answer = 429 /\ Refusal(call, now, t).since = now
         /\ Refusal(call, now, t).retryAt = t /\ BucketOf(Refusal(call, now, t)) = BucketOf(call)
         /\ Slack(Refusal(call, now, t)) = Slack(call)
<1> DEFINE A == {"idle", "resolve", "charge", "role", "handle"}
           C == Clients \cup {Keyless}
           K == Keys \cup {Keyless}
           F == Routes \cup {"none"}
<1>0. PICK new : new = Refusal(call, now, t)
  OBVIOUS
<1>1. "idle" \in A /\ Calls = [at : A, client : C, key : K, route : F, role : Roles,
                              answer : Nat, since : Nat, retryAt : Int]
  BY DEF Calls
<1> HIDE DEF A, C, K, F
<1>3. new = [at |-> "idle", client |-> call.client, key |-> call.key, route |-> call.route, role |-> call.role,
             answer |-> 429, since |-> now, retryAt |-> t]
  BY <1>0, <1>1 DEF Refusal
<1>2. /\ new \in Calls /\ new.at = "idle" /\ new.answer = 429 /\ new.since = now /\ new.retryAt = t
      /\ new.key = call.key /\ new.route = call.route /\ new.client = call.client
  BY <1>1, <1>3
<1>4. BucketOf(new) = BucketOf(call) /\ Slack(new) = Slack(call)
  BY <1>2 DEF BucketOf, Slack
<1> QED
  BY <1>0, <1>2, <1>4

\* The oldest admission of a full bucket.
LEMMA FullHasHead ==
  ASSUME NEW q, NEW a, NEW now \in Nat, Tracks(q, a, now), Len(Pruned(q, now)) >= Limit
  PROVE  Head(Pruned(q, now)) \in Nat /\ Head(Pruned(q, now)) + Window - now \in Int
<1>1. PICK p : p = Pruned(q, now)
  OBVIOUS
<1>2. Tracks(p, a, now)
  BY <1>1, TracksPruned
<1>3. p \in Seq(Nat) /\ p # << >>
  BY <1>1, <1>2, LimiterConstants DEF Tracks
<1>4. Head(p) \in Nat
  BY <1>3, HeadTailProperties
<1>5. Head(p) + Window - now \in Int
  BY <1>4, LimiterConstants
<1> QED
  BY <1>1, <1>4, <1>5

\* A caller's bucket shows how its wait was rounded.
LEMMA SlackOfBucket ==
  ASSUME NEW call
  PROVE  BucketSlack(BucketOf(call)) = Slack(call)
BY DEF BucketSlack, BucketOf, Slack

\* The waits the pruned bucket q may tell at now.
Waits(b, q, now) == RetryAfter(b, Head(q) + Window - now)

\* A request is refused by bucket b, which stays pruned.
TurnedDown(r, b, new) ==
  /\ UNCHANGED <<second, roles, admissions>>
  /\ Len(Pruned(bucket[b], second)) >= Limit
  /\ bucket' \in [Buckets -> Seq(Nat)]
  /\ \A c \in Buckets : bucket'[c] = IF c = b THEN Pruned(bucket[b], second) ELSE bucket[c]
  /\ new.at = "idle" /\ new.answer = 429 /\ new.since = second /\ BucketOf(new) = b
  /\ \E told \in Waits(b, Pruned(bucket[b], second), second) : new.retryAt = second + told
  /\ req' \in [Arrivals -> Calls] /\ \A s \in Arrivals : req'[s] = IF s = r THEN new ELSE req[s]

\* A refusal keeps the invariant.
LEMMA RefusedStep ==
  ASSUME AccessInv, NEW r \in Arrivals, NEW b \in Buckets, NEW new \in Calls, TurnedDown(r, b, new)
  PROVE  AccessInv'
<1> USE DEF TurnedDown
<1>1. PICK p : p = Pruned(bucket[b], second)
  OBVIOUS
<1>2. /\ second \in Nat /\ Tracks(bucket[b], admissions[b], second) /\ Tracks(p, admissions[b], second)
      /\ p \in Seq(Nat)
  <2>1. second \in Nat /\ Tracks(bucket[b], admissions[b], second)
    BY DEF AccessInv, AccessTypeOK
  <2>2. Tracks(p, admissions[b], second)
    BY <1>1, <2>1, TracksPruned
  <2> QED
    BY <2>1, <2>2 DEF Tracks
<1>3. Head(p) \in Nat /\ Head(p) + Window - second \in Int
  BY <1>1, <1>2, FullHasHead
<1>4. PICK told \in RetryAfter(b, Head(p) + Window - second) : new.retryAt = second + told
  BY <1>1 DEF Waits
<1>6. told \in Int /\ 2 * (Head(p) + Window - second - told) <= BucketSlack(b)
  <2>1. PICK ticks \in Int : ticks = Head(p) + Window - second
    BY <1>3
  <2>2. told \in RetryAfter(b, ticks)
    BY <1>4, <2>1
  <2>3. told \in Int /\ 2 * (ticks - told) <= BucketSlack(b)
    BY <2>2, ToldIsNearEnough
  <2>4. PICK h \in Nat : h = Head(p)
    BY <1>3
  <2>5. PICK now \in Nat, w \in Nat, d \in Int : now = second /\ w = Window /\ d = told
    BY <1>2, <2>3, LimiterConstants
  <2>6. ticks = h + w - now /\ 2 * (ticks - d) <= BucketSlack(b)
    BY <2>1, <2>3, <2>4, <2>5
  <2>7. h + w - now - d = ticks - d
    BY ONLY <2>6, h \in Nat, w \in Nat, now \in Nat, d \in Int
  <2> QED
    BY <2>3, <2>4, <2>5, <2>6, <2>7
<1>7. BucketSlack(b) = Slack(new)
  BY SlackOfBucket
<1>5. new.retryAt \in Int /\ 2 * (Head(p) + Window - new.retryAt) <= Slack(new)
  <2>1. PICK h \in Nat : h = Head(p)
    BY <1>3
  <2>2. /\ 2 * (h + Window - second - told) <= Slack(new) /\ second \in Nat /\ Window \in Nat
        /\ new.retryAt = second + told /\ told \in Int
    BY <1>2, <1>4, <1>6, <1>7, <2>1, LimiterConstants
  <2>3. h + Window - new.retryAt = h + Window - second - told
    BY <2>2
  <2> QED
    BY <2>1, <2>2, <2>3
<1>9. RoomPromised(new, admissions[b])
  BY <1>1, <1>2, <1>5, RefusalPromises
<1>12. \A s \in Arrivals : CallOK(req[s])'
  <2> TAKE s \in Arrivals
  <2>1. CASE s = r
    BY <1>2, <1>9, <2>1 DEF CallOK
  <2>2. CASE s # r
    <3>1. CallOK(req[s]) /\ req'[s] = req[s]
      BY <2>2 DEF AccessInv
    <3> QED
      BY <3>1 DEF CallOK
  <2> QED
    BY <2>1, <2>2
<1>13. bucket' \in [Buckets -> Seq(Nat)] /\ \A c \in Buckets : bucket'[c] = IF c = b THEN p ELSE bucket[c]
  BY <1>1, <1>2 DEF AccessInv, AccessTypeOK
<1>14. \A c \in Buckets : Tracks(bucket[c], admissions[c], second)'
  <2> TAKE c \in Buckets
  <2>1. Tracks(bucket'[c], admissions[c], second)
    BY <1>2, <1>13 DEF AccessInv
  <2>2. Tracks(bucket'[c], admissions'[c], second')
    BY <2>1
  <2> QED
    BY <2>2 DEF Tracks
<1> QED
  BY <1>12, <1>13, <1>14 DEF AccessInv, AccessTypeOK

\* An admission keeps the invariant.
LEMMA AdmittedStep ==
  ASSUME AccessInv, NEW r \in Arrivals, req[r].at = "charge", UNCHANGED <<second, roles>>,
         NEW b \in Buckets, Len(Pruned(bucket[b], second)) < Limit,
         bucket' = [bucket EXCEPT ![b] = Append(Pruned(bucket[b], second), second)],
         admissions' = [admissions EXCEPT ![b] = Latest(Append(@, second))],
         req' = [req EXCEPT ![r].at = "role"]
  PROVE  AccessInv'
<1>1. PICK p : p = Pruned(bucket[b], second)
  OBVIOUS
<1>2. second \in Nat /\ Tracks(bucket[b], admissions[b], second)
  BY DEF AccessInv, AccessTypeOK
<1>3. Tracks(p, admissions[b], second)
  BY <1>1, <1>2, TracksPruned
<1>4. PICK q : q = Append(p, second)
  OBVIOUS
<1>5. PICK a : a = Admitted(admissions[b], second)
  OBVIOUS
<1>6. Tracks(q, a, second)
  <2>1. Len(p) < Limit
    BY <1>1
  <2> QED
    BY <1>2, <1>3, <1>4, <1>5, <2>1, TracksAdmission
<1>7. q \in Seq(Nat) /\ a \in Seq(Nat)
  BY <1>6 DEF Tracks
<1>8. /\ bucket' \in [Buckets -> Seq(Nat)] /\ \A c \in Buckets : bucket'[c] = IF c = b THEN q ELSE bucket[c]
      /\ admissions' \in [Buckets -> Seq(Nat)]
      /\ \A c \in Buckets : admissions'[c] = IF c = b THEN a ELSE admissions[c]
  BY <1>1, <1>4, <1>5, <1>7 DEF AccessInv, AccessTypeOK, Admitted
<1>9. \A c \in Buckets : Tracks(bucket[c], admissions[c], second)'
  <2> TAKE c \in Buckets
  <2>1. Tracks(bucket'[c], admissions'[c], second)
    BY <1>6, <1>8 DEF AccessInv
  <2> QED
    BY <2>1 DEF Tracks
<1>10. /\ req' \in [Arrivals -> Calls]
       /\ \A s \in Arrivals : req'[s] = IF s = r THEN [req[r] EXCEPT !.at = "role"] ELSE req[s]
  <2>1. req \in [Arrivals -> Calls]
    BY DEF AccessInv, AccessTypeOK, Calls
  <2>2. PICK c \in Calls : c = req[r]
    BY <2>1
  <2>3. [c EXCEPT !.at = "role"] \in Calls
    BY DEF Calls
  <2>4. req' = [req EXCEPT ![r] = [c EXCEPT !.at = "role"]]
    BY <2>2
  <2> QED
    BY <2>1, <2>2, <2>3, <2>4
<1>11. \A s \in Arrivals : CallOK(req[s])'
  <2> TAKE s \in Arrivals
  <2>1. CASE s = r
    <3>1. /\ req[r] \in Calls /\ req[r].client \in Clients /\ req[r].answer = 0
      BY DEF AccessInv, AccessTypeOK, CallOK
    <3>2. /\ req'[s].at = "role" /\ req'[s].client \in Clients /\ req'[s].answer = 0
      BY <1>10, <2>1, <3>1 DEF Calls
    <3> QED
      BY <3>2 DEF CallOK
  <2>2. CASE s # r
    <3>1. CallOK(req[s]) /\ req'[s] = req[s] /\ req[s] \in Calls
      BY <1>10, <2>2 DEF AccessInv, AccessTypeOK
    <3>2. ASSUME req[s].answer = 429
          PROVE  /\ req[s].since <= second /\ BucketOf(req[s]) \in Buckets
                 /\ RoomPromised(req[s], admissions'[BucketOf(req[s])])
      <4>1. /\ req[s].since <= second /\ BucketOf(req[s]) \in Buckets /\ req[s].since \in Nat
            /\ RoomPromised(req[s], admissions[BucketOf(req[s])])
        BY <3>1, <3>2 DEF CallOK, Calls
      <4>2. CASE BucketOf(req[s]) = b
        <5>1. RoomPromised(req[s], a)
          BY <1>2, <1>5, <4>1, <4>2, AdmissionKeepsPromises
        <5> QED
          BY <1>8, <4>1, <4>2, <5>1
      <4>3. CASE BucketOf(req[s]) # b
        BY <1>8, <4>1, <4>3
      <4> QED
        BY <4>2, <4>3
    <3> QED
      BY <1>10, <3>1, <3>2 DEF CallOK, BucketOf
  <2> QED
    BY <2>1, <2>2
<1> QED
  BY <1>2, <1>8, <1>9, <1>10, <1>11 DEF AccessInv, AccessTypeOK

\* Every step of requests, keys and time keeps the invariant.
LEMMA AccessStep == AccessInv /\ [AccessNext]_accessVars => AccessInv'
<1> SUFFICES ASSUME AccessInv, [AccessNext]_accessVars PROVE AccessInv'
  OBVIOUS
<1>0. /\ second \in Nat /\ roles \in [StoredKeys -> {"viewer", "analyst", "revoked"}]
      /\ req \in [Arrivals -> Calls]
      /\ \A r \in Arrivals : req[r] \in Calls /\ CallOK(req[r])
  BY DEF AccessInv, AccessTypeOK
<1>1. CASE TimePasses
  <2>1. second' = second + 1 /\ UNCHANGED <<roles, bucket, admissions, req>>
    BY <1>1 DEF TimePasses
  <2>2. \A b \in Buckets : Tracks(bucket[b], admissions[b], second)'
    <3> TAKE b \in Buckets
    <3>1. Tracks(bucket[b], admissions[b], second + 1)
      BY <1>0, TracksLater DEF AccessInv
    <3> QED
      BY <2>1, <3>1 DEF Tracks
  <2>3. \A r \in Arrivals : CallOK(req[r])'
    <3> TAKE r \in Arrivals
    <3>1. CallOK(req[r]) /\ req[r] \in Calls
      BY <1>0
    <3>2. req[r].since \in Nat
      BY <3>1 DEF Calls
    <3> QED
      BY <1>0, <2>1, <3>1, <3>2 DEF CallOK
  <2> QED
    BY <1>0, <2>1, <2>2, <2>3 DEF AccessInv, AccessTypeOK
<1>2. ASSUME NEW k \in StoredKeys, Revoke(k)
      PROVE  AccessInv'
  <2>1. UNCHANGED <<second, bucket, admissions, req>> /\ roles' = [roles EXCEPT ![k] = "revoked"]
    BY <1>2 DEF Revoke
  <2>2. roles' \in [StoredKeys -> {"viewer", "analyst", "revoked"}]
    BY <1>0, <2>1
  <2> QED
    BY <2>1, <2>2 DEF AccessInv, AccessTypeOK, CallOK, Tracks
<1>3. ASSUME NEW r \in Arrivals, NEW code \in {200, 400, 401, 403, 422, 503}, TurnedAway(r, code),
             UNCHANGED <<second, roles, bucket, admissions>>
      PROVE  AccessInv'
  <2> DEFINE new == [NoCall EXCEPT !.answer = code]
  <2>1. new \in Calls /\ new.at = "idle" /\ new.answer = code
    BY DEF NoCall, Calls, Roles
  <2>2. req' = [req EXCEPT ![r] = new]
    BY <1>3 DEF TurnedAway
  <2> HIDE DEF new
  <2>9. req' \in [Arrivals -> Calls] /\ \A p \in Arrivals : req'[p] = IF p = r THEN new ELSE req[p]
    BY <1>0, <2>1, <2>2
  <2> QED
    BY <1>0, <1>3, <2>1, <2>2, <2>9, UnchargedStep
<1>4. ASSUME NEW r \in Arrivals, Arrive(r)
      PROVE  AccessInv'
  <2>1. PICK c \in Clients, k \in Keys \cup {Keyless}, route \in Routes :
          req' = [req EXCEPT ![r] =
                   [NoCall EXCEPT !.at = "resolve", !.client = c, !.key = k, !.route = route]]
    BY <1>4 DEF Arrive
  <2> DEFINE new == [NoCall EXCEPT !.at = "resolve", !.client = c, !.key = k, !.route = route]
  <2>2. new \in Calls /\ new.at = "resolve" /\ new.answer = 0 /\ new.client = c
    <3>1. NoCall \in Calls /\ NoCall.answer = 0
      BY DEF NoCall, Calls, Roles
    <3> HIDE DEF NoCall
    <3> QED
      BY <3>1 DEF Calls
  <2>3. req' = [req EXCEPT ![r] = new] /\ UNCHANGED <<second, roles, bucket, admissions>>
    BY <1>4, <2>1 DEF Arrive
  <2> HIDE DEF new
  <2>9. req' \in [Arrivals -> Calls] /\ \A p \in Arrivals : req'[p] = IF p = r THEN new ELSE req[p]
    BY <1>0, <2>1, <2>2, <2>3
  <2> QED
    BY <1>0, <2>2, <2>3, <2>9, UnchargedStep
<1>5. ASSUME NEW r \in Arrivals, NEW role \in Roles, Resolved(r, role), req[r].at = "resolve",
             req[r].route = "friday" => req[r].key \in Keys,
             UNCHANGED <<second, roles, bucket, admissions>>
      PROVE  AccessInv'
  <2> DEFINE new == [req[r] EXCEPT !.at = "charge", !.role = role]
  <2>1. req[r] \in Calls /\ req[r].client \in Clients /\ req[r].answer = 0
    BY <1>0, <1>5 DEF CallOK
  <2>2. /\ new \in Calls /\ new.at = "charge" /\ new.answer = 0 /\ new.client \in Clients
        /\ new.key = req[r].key /\ new.route = req[r].route
    BY <2>1 DEF Calls
  <2>3. req' = [req EXCEPT ![r] = new]
    BY <1>5 DEF Resolved
  <2> HIDE DEF new
  <2>9. req' \in [Arrivals -> Calls] /\ \A p \in Arrivals : req'[p] = IF p = r THEN new ELSE req[p]
    BY <1>0, <2>1, <2>2, <2>3
  <2> QED
    BY <1>0, <1>5, <2>2, <2>3, <2>9, UnchargedStep
<1>6. ASSUME NEW r \in Arrivals, GetCurrentUser(r)
      PROVE  AccessInv'
  <2>1. req[r].at = "resolve" /\ req[r].route # "friday" /\ UNCHANGED <<second, roles, bucket, admissions>>
    BY <1>6 DEF GetCurrentUser
  <2>2. TurnedAway(r, 401) \/ \E role \in Roles : Resolved(r, role)
    <3>1. "admin" \in Roles /\ "anonymous" \in Roles
      BY DEF Roles
    <3>2. ASSUME req[r].key \in StoredKeys, roles[req[r].key] # "revoked"
          PROVE  roles[req[r].key] \in Roles
      BY <1>0, <3>2 DEF Roles
    <3> QED
      BY <1>6, <3>1, <3>2 DEF GetCurrentUser
  <2> QED
    BY <1>3, <1>5, <2>1, <2>2
<1>7. ASSUME NEW r \in Arrivals, VerifyFridayAuth(r)
      PROVE  AccessInv'
  <2>1. "analyst" \in Roles
    BY DEF Roles
  <2>2. req[r].at = "resolve" /\ UNCHANGED <<second, roles, bucket, admissions>>
    BY <1>7 DEF VerifyFridayAuth
  <2>3. CASE Resolved(r, "analyst") /\ req[r].key # Keyless
    <3>1. req[r].key \in Keys
      BY <1>0, <2>3 DEF Calls
    <3> QED
      BY <1>5, <2>1, <2>2, <2>3, <3>1
  <2>4. CASE \E code \in {401, 503} : TurnedAway(r, code)
    BY <1>3, <2>2, <2>4
  <2> QED
    BY <1>7, <2>3, <2>4 DEF VerifyFridayAuth
<1>8. ASSUME NEW r \in Arrivals, NEW at \in {"role", "handle"}, req[r].at # "idle", req' = [req EXCEPT ![r].at = at],
             UNCHANGED <<second, roles, bucket, admissions>>
      PROVE  AccessInv'
  <2> DEFINE new == [req[r] EXCEPT !.at = at]
  <2>1. req[r] \in Calls /\ req[r].client \in Clients /\ req[r].answer = 0
    BY <1>0, <1>8 DEF CallOK
  <2>2. /\ new \in Calls /\ new.at = at /\ new.answer = 0 /\ new.client \in Clients
    BY <2>1 DEF Calls
  <2>3. req' = [req EXCEPT ![r] = new]
    BY <1>8
  <2> HIDE DEF new
  <2>9. req' \in [Arrivals -> Calls] /\ \A p \in Arrivals : req'[p] = IF p = r THEN new ELSE req[p]
    BY <1>0, <2>1, <2>2, <2>3
  <2> QED
    BY <1>0, <1>8, <2>2, <2>3, <2>9, UnchargedStep
<1>9. ASSUME NEW r \in Arrivals, Charge(r)
      PROVE  AccessInv'
  <2>1. CASE ~Charged(req[r])
    BY <1>8, <1>9, <2>1 DEF Charge
  <2>2. CASE Charged(req[r])
    <3>1. PICK b : b = BucketOf(req[r])
      OBVIOUS
    <3>2. req[r].at = "charge" /\ Consume(r, b) /\ UNCHANGED <<second, roles>>
      BY <1>9, <2>2, <3>1 DEF Charge
    <3>3. b \in Buckets
      <4>1. req[r].client \in Clients /\ (req[r].route = "friday" => req[r].key \in Keys)
        BY <1>0, <3>2 DEF CallOK
      <4> QED
        BY <2>2, <3>1, <4>1 DEF Charged, BucketOf, Buckets, Keys
    <3>4. CASE Len(Pruned(bucket[b], second)) >= Limit
      <4>1. PICK p : p = Pruned(bucket[b], second)
        OBVIOUS
      <4>11. PICK told \in Waits(b, p, second) :
                req' = [req EXCEPT ![r] = [@ EXCEPT !.at = "idle", !.answer = 429, !.since = second,
                                              !.retryAt = second + told]]
        BY <3>2, <3>4, <4>1 DEF Consume, Waits
      <4>2. PICK t : t = second + told
        OBVIOUS
      <4>0. PICK call \in Calls : call = req[r]
        BY <1>0
      <4>10. PICK new : new = Refusal(call, second, t)
        OBVIOUS
      <4>3. call = req[r] /\ new = Refusal(call, second, t)
        BY <4>0, <4>10
      <4>4. req' = [req EXCEPT ![r] = new] /\ bucket' = [bucket EXCEPT ![b] = p] /\ admissions' = admissions
        BY <3>2, <3>4, <4>1, <4>2, <4>3, <4>11 DEF Consume, Refusal
      <4>5. t \in Int
        <5>1. Tracks(bucket[b], admissions[b], second)
          BY <3>3 DEF AccessInv
        <5>2. Head(p) + Window - second \in Int
          BY <1>0, <3>4, <4>1, <5>1, FullHasHead
        <5>3. told \in Int
          BY <5>2, ToldIsNearEnough DEF Waits
        <5> QED
          BY <1>0, <4>2, <5>3
      <4>6. /\ new \in Calls /\ new.at = "idle" /\ new.answer = 429 /\ new.since = second /\ new.retryAt = t
            /\ BucketOf(new) = BucketOf(req[r])
        <5>1. PICK now \in Nat : now = second
          BY <1>0
        <5>2. new = Refusal(call, now, t)
          BY <4>3, <5>1
        <5>4. /\ Refusal(call, now, t) \in Calls /\ Refusal(call, now, t).at = "idle"
              /\ Refusal(call, now, t).answer = 429 /\ Refusal(call, now, t).since = now
              /\ Refusal(call, now, t).retryAt = t /\ BucketOf(Refusal(call, now, t)) = BucketOf(call)
          BY <4>5, RefusedCall
        <5>3. /\ new \in Calls /\ new.at = "idle" /\ new.answer = 429 /\ new.since = now /\ new.retryAt = t
              /\ BucketOf(new) = BucketOf(call)
          BY <5>2, <5>4
        <5> QED
          BY <4>3, <5>1, <5>3
      <4>7. req' \in [Arrivals -> Calls] /\ \A s \in Arrivals : req'[s] = IF s = r THEN new ELSE req[s]
        BY <1>0, <4>4, <4>6
      <4>8. /\ UNCHANGED <<second, roles, admissions>> /\ BucketOf(new) = b
            /\ \E wait \in Waits(b, Pruned(bucket[b], second), second) : new.retryAt = second + wait
        BY <3>1, <3>2, <4>1, <4>2, <4>4, <4>6
      <4>9. /\ bucket' \in [Buckets -> Seq(Nat)]
            /\ \A c \in Buckets : bucket'[c] = IF c = b THEN Pruned(bucket[b], second) ELSE bucket[c]
        <5>1. bucket \in [Buckets -> Seq(Nat)] /\ second \in Nat
          BY DEF AccessInv, AccessTypeOK
        <5>2. p \in Seq(Nat)
          BY <3>3, <4>1, <5>1, PrunedDropsTheOld
        <5> QED
          BY <4>1, <4>4, <5>1, <5>2
      <4> QED
        <5>1. TurnedDown(r, b, new)
          BY <3>4, <4>6, <4>7, <4>8, <4>9 DEF TurnedDown
        <5> QED
          BY <3>3, <4>6, <5>1, RefusedStep
    <3>5. CASE ~(Len(Pruned(bucket[b], second)) >= Limit)
      <4>1. Len(Pruned(bucket[b], second)) < Limit
        <5>1. Tracks(bucket[b], admissions[b], second)
          BY <3>3 DEF AccessInv
        <5>2. Tracks(Pruned(bucket[b], second), admissions[b], second)
          BY <1>0, <5>1, TracksPruned
        <5> QED
          BY <3>5, <5>2, TrackedAreNaturals, LimiterConstants
      <4> QED
        BY <3>2, <3>3, <3>5, <4>1, AdmittedStep DEF Consume
    <3> QED
      BY <3>4, <3>5
  <2> QED
    BY <2>1, <2>2
<1>10. ASSUME NEW r \in Arrivals, RequireRole(r)
       PROVE  AccessInv'
  BY <1>3, <1>8, <1>10 DEF RequireRole
<1>11. ASSUME NEW r \in Arrivals, DelegateTask(r)
       PROVE  AccessInv'
  <2>1. PICK code \in {200, 400, 403, 422} : TurnedAway(r, code)
    BY <1>11 DEF DelegateTask
  <2> QED
    BY <1>3, <1>11, <2>1 DEF DelegateTask
<1>12. CASE UNCHANGED accessVars
  BY <1>12 DEF accessVars, AccessInv, AccessTypeOK, CallOK, Tracks
<1> QED
  BY <1>1, <1>2, <1>4, <1>6, <1>7, <1>9, <1>10, <1>11, <1>12 DEF AccessNext

\* The invariant contains what the runs check.
LEMMA AccessInvIsEnough == AccessInv => LimiterIsExact
<1> SUFFICES ASSUME AccessInv PROVE LimiterIsExact
  OBVIOUS
<1>1. WindowHolds
  BY DEF AccessInv, Tracks, WindowHolds
<1>2. RetryAfterIsEnough
  <2> SUFFICES ASSUME NEW r \in Arrivals, req[r].answer = 429, HasWaited(req[r]),
                      \A i \in DOMAIN admissions[BucketOf(req[r])] :
                        admissions[BucketOf(req[r])][i] <= req[r].since
               PROVE  Len(Pruned(bucket[BucketOf(req[r])], second)) < Limit
    BY DEF RetryAfterIsEnough
  <2>1. PICK b : b = BucketOf(req[r])
    OBVIOUS
  <2>2. /\ req[r] \in Calls /\ second \in Nat /\ b \in Buckets
        /\ RoomPromised(req[r], admissions[b])
    BY <2>1 DEF AccessInv, AccessTypeOK, CallOK
  <2>3. Tracks(bucket[b], admissions[b], second)
    BY <2>2 DEF AccessInv
  <2>4. \A i \in 1 .. Len(admissions[b]) : admissions[b][i] <= req[r].since
    BY <2>1, <2>3, TrackedAreNaturals
  <2>5. req[r].since \in Nat /\ req[r].retryAt \in Int
    BY <2>2 DEF Calls
  <2>6. 2 * (second - req[r].retryAt) >= Slack(req[r])
    BY <2>2, <2>5 DEF HasWaited, Slack
  <2> QED
    BY <2>1, <2>2, <2>3, <2>4, <2>5, <2>6, PromisedRoom
<1> QED
  BY <1>1, <1>2 DEF LimiterIsExact

\* For every limit and window and any interleaving of requests: no window holds more admissions
\* than the limit, and whoever waits as long as it was told, up to the digits it was told it with,
\* finds room unless others took it.
THEOREM LimiterHolds == AccessSpec => []LimiterIsExact
BY AccessInitial, AccessStep, AccessInvIsEnough, PTL DEF AccessSpec

-----------------------------------------------------------------------------
(* The cache of quick forecasts.                                            *)

\* The types of an entry, and whether a key has one.
Entries == [key : CacheKeys, expires : Nat, tells : SUBSET Requests]

InList(q, k) == \E i \in 1 .. Len(q) : q[i].key = k

\* A list of entries, the least recently used first, each with the expiry of its last use.
InUseOrder(q, u, now) ==
  /\ q \in Seq(Entries)
  /\ \A i \in 1 .. Len(q) :
       0 < u[q[i].key].last /\ u[q[i].key].last < now /\ u[q[i].key].expires = q[i].expires
  /\ \A i, j \in 1 .. Len(q) : i < j => u[q[i].key].last < u[q[j].key].last

\* When each key was last used, and until when its entry lasts.
Uses == [CacheKeys -> [last : Nat, expires : Nat]]

\* The keys used after k.
LaterUsed(u, k) == {l \in CacheKeys : u[l].last > u[k].last}

\* The keys used at all.
EverUsed(u) == {l \in CacheKeys : u[l].last > 0}

\* Why a key that was used may have no entry: it expired, or MaxSize others were used since.
Dropped(u, now, k) == now > u[k].expires \/ Cardinality(LaterUsed(u, k)) >= MaxSize

\* The constants of the cache.
LEMMA CacheConstants == MaxSize \in Nat \ {0} /\ Ttl \in Nat /\ Requests \subseteq Nat
BY CacheAssumption

\* RemoveAt leaves out one entry and moves the later ones up.
LEMMA RemovedAt ==
  ASSUME NEW q \in Seq(Entries), NEW n \in 1 .. Len(q)
  PROVE  /\ RemoveAt(q, n) \in Seq(Entries) /\ Len(RemoveAt(q, n)) = Len(q) - 1
         /\ \A i \in 1 .. Len(q) - 1 : RemoveAt(q, n)[i] = IF i < n THEN q[i] ELSE q[i + 1]
<1>1. Len(q) \in Nat /\ \A i \in 1 .. Len(q) : q[i] \in Entries
  BY ElementOfSeq, LenProperties
<1>2. PICK m \in Nat : m = Len(q) /\ n \in Nat /\ 1 <= n /\ n <= m
  BY <1>1
<1>3. PICK left, right : left = SubSeq(q, 1, n - 1) /\ right = SubSeq(q, n + 1, m)
  OBVIOUS
<1>4. /\ left \in Seq(Entries) /\ Len(left) = n - 1
      /\ \A i \in 1 .. n - 1 : left[i] = q[i]
  <2>1. /\ \A i \in 1 .. n - 1 : q[i] \in Entries
        /\ 1 \in Int /\ n - 1 \in Int
    BY <1>1, <1>2
  <2>2. /\ SubSeq(q, 1, n - 1) \in Seq(Entries)
        /\ Len(SubSeq(q, 1, n - 1)) = IF 1 <= n - 1 THEN n - 1 - 1 + 1 ELSE 0
        /\ \A i \in 1 .. n - 1 - 1 + 1 : SubSeq(q, 1, n - 1)[i] = q[1 + i - 1]
    BY <2>1, SubSeqProperties
  <2>3. \A i \in 1 .. n - 1 : i \in 1 .. n - 1 - 1 + 1 /\ 1 + i - 1 = i
    BY <1>2
  <2> QED
    BY <1>2, <1>3, <2>2, <2>3
<1>5. /\ right \in Seq(Entries) /\ Len(right) = m - n
      /\ \A i \in 1 .. m - n : right[i] = q[n + i]
  <2>1. /\ \A i \in n + 1 .. m : q[i] \in Entries
        /\ n + 1 \in Int /\ m \in Int
    BY <1>1, <1>2
  <2>2. /\ SubSeq(q, n + 1, m) \in Seq(Entries)
        /\ Len(SubSeq(q, n + 1, m)) = IF n + 1 <= m THEN m - (n + 1) + 1 ELSE 0
        /\ \A i \in 1 .. m - (n + 1) + 1 : SubSeq(q, n + 1, m)[i] = q[(n + 1) + i - 1]
    BY <2>1, SubSeqProperties
  <2>3. \A i \in 1 .. m - n : i \in 1 .. m - (n + 1) + 1 /\ (n + 1) + i - 1 = n + i
    BY <1>2
  <2> QED
    BY <1>2, <1>3, <2>2, <2>3
<1>6. RemoveAt(q, n) = left \o right
  BY <1>2, <1>3 DEF RemoveAt
<1>7. /\ left \o right \in Seq(Entries) /\ Len(left \o right) = Len(left) + Len(right)
      /\ \A i \in 1 .. Len(left) + Len(right) :
           (left \o right)[i] = IF i <= Len(left) THEN left[i] ELSE right[i - Len(left)]
  BY <1>4, <1>5, ConcatProperties
<1>8. ASSUME NEW i \in 1 .. m - 1
      PROVE  (left \o right)[i] = IF i < n THEN q[i] ELSE q[i + 1]
  <2>1. i \in 1 .. Len(left) + Len(right)
    BY <1>2, <1>4, <1>5
  <2>2. CASE i < n
    <3>1. i \in 1 .. n - 1 /\ i <= Len(left)
      BY <1>2, <1>4, <2>2
    <3> QED
      BY <1>4, <1>7, <2>1, <2>2, <3>1
  <2>3. CASE ~(i < n)
    <3>1. i - (n - 1) \in 1 .. m - n /\ n + (i - (n - 1)) = i + 1 /\ ~(i <= Len(left))
      BY <1>2, <1>4, <2>3
    <3>2. right[i - (n - 1)] = q[n + (i - (n - 1))]
      BY <1>5, <3>1
    <3>3. (left \o right)[i] = right[i - Len(left)]
      BY <1>7, <2>1, <3>1
    <3> QED
      BY <1>4, <2>3, <3>1, <3>2, <3>3
  <2> QED
    BY <2>2, <2>3
<1> QED
  BY <1>2, <1>4, <1>5, <1>6, <1>7, <1>8

\* A list r without the entry of k.
OneLess(r, q, k) ==
  /\ Len(r) = Len(q) - 1
  /\ \A l : InList(r, l) <=> InList(q, l) /\ l # k
  /\ \A i \in 1 .. Len(q) - 1 : \E j \in 1 .. Len(q) : r[i] = q[j]

\* Dropping an entry keeps the order of use.
LEMMA RemovedListed ==
  ASSUME NEW q, NEW u \in Uses, NEW now \in Nat, InUseOrder(q, u, now), NEW n \in 1 .. Len(q)
  PROVE  InUseOrder(RemoveAt(q, n), u, now) /\ OneLess(RemoveAt(q, n), q, q[n].key)
<1>0. PICK r : r = RemoveAt(q, n)
  OBVIOUS
<1>l. PICK l \in Nat : l = Len(q)
  BY LenProperties DEF InUseOrder
<1>1. r = RemoveAt(q, n) /\ l = Len(q)
  BY <1>0, <1>l
<1>2. /\ r \in Seq(Entries) /\ Len(r) = l - 1
      /\ \A i \in 1 .. l - 1 : r[i] = IF i < n THEN q[i] ELSE q[i + 1]
  <2>1. q \in Seq(Entries)
    BY DEF InUseOrder
  <2>2. /\ RemoveAt(q, n) \in Seq(Entries) /\ Len(RemoveAt(q, n)) = Len(q) - 1
        /\ \A i \in 1 .. Len(q) - 1 : RemoveAt(q, n)[i] = IF i < n THEN q[i] ELSE q[i + 1]
    BY <2>1, RemovedAt
  <2> QED
    BY <1>1, <2>2
<1>3. n \in Nat /\ 1 <= n /\ n <= l
  BY <1>1
<1> DEFINE at(i) == IF i < n THEN i ELSE i + 1
<1>4. \A i \in 1 .. l - 1 : at(i) \in 1 .. l /\ at(i) # n /\ r[i] = q[at(i)]
  BY <1>2, <1>3
<1>5. \A i, j \in 1 .. l - 1 : i < j => at(i) < at(j)
  BY <1>3
<1>6. \A j \in 1 .. l : j # n => \E i \in 1 .. l - 1 : at(i) = j
  <2> TAKE j \in 1 .. l
  <2>1. CASE j < n
    <3>1. j \in 1 .. l - 1 /\ at(j) = j
      BY <1>3, <2>1
    <3> QED
      BY <3>1
  <2>2. CASE j > n
    <3>1. j - 1 \in 1 .. l - 1 /\ at(j - 1) = j
      BY <1>3, <2>2
    <3> QED
      BY <3>1
  <2> QED
    BY <1>3, <2>1, <2>2
<1> HIDE DEF at
<1>7. /\ \A i \in 1 .. l :
           0 < u[q[i].key].last /\ u[q[i].key].last < now /\ u[q[i].key].expires = q[i].expires
      /\ \A i, j \in 1 .. l : i < j => u[q[i].key].last < u[q[j].key].last
  BY <1>1 DEF InUseOrder
<1>8. InUseOrder(r, u, now)
  <2>1. \A i \in 1 .. l - 1 :
          0 < u[r[i].key].last /\ u[r[i].key].last < now /\ u[r[i].key].expires = r[i].expires
    BY <1>4, <1>7
  <2>2. ASSUME NEW i \in 1 .. l - 1, NEW j \in 1 .. l - 1, i < j
        PROVE  u[r[i].key].last < u[r[j].key].last
    <3>1. at(i) < at(j) /\ at(i) \in 1 .. l /\ at(j) \in 1 .. l
      BY <1>4, <1>5, <2>2
    <3>2. u[q[at(i)].key].last < u[q[at(j)].key].last
      BY <1>7, <3>1
    <3> QED
      BY <1>4, <3>2
  <2> QED
    BY <1>2, <2>1, <2>2 DEF InUseOrder
<1>9. \A k : InList(r, k) <=> InList(q, k) /\ k # q[n].key
  <2>1. \A j \in 1 .. l : j # n => q[j].key # q[n].key
    <3> TAKE j \in 1 .. l
    <3>1. \A i \in 1 .. l : q[i].key \in CacheKeys /\ u[q[i].key].last \in Nat
      <4>1. \A i \in 1 .. l : q[i] \in Entries
        BY <1>1, ElementOfSeq DEF InUseOrder
      <4>2. \A i \in 1 .. l : q[i].key \in CacheKeys
        BY <4>1 DEF Entries
      <4> QED
        BY <4>2 DEF Uses
    <3>2. CASE j < n
      BY <1>1, <1>7, <3>1, <3>2
    <3>3. CASE n < j
      BY <1>1, <1>7, <3>1, <3>3
    <3> QED
      BY <1>3, <3>2, <3>3
  <2>2. ASSUME NEW k, InList(r, k)
        PROVE  InList(q, k) /\ k # q[n].key
    <3>1. PICK i \in 1 .. l - 1 : r[i].key = k
      BY <1>2, <2>2 DEF InList
    <3>2. at(i) \in 1 .. l /\ at(i) # n /\ q[at(i)].key = k
      BY <1>4, <3>1
    <3> QED
      BY <1>1, <2>1, <3>2 DEF InList
  <2>3. ASSUME NEW k, InList(q, k), k # q[n].key
        PROVE  InList(r, k)
    <3>1. PICK j \in 1 .. l : q[j].key = k
      BY <1>1, <2>3 DEF InList
    <3>2. PICK i \in 1 .. l - 1 : at(i) = j
      BY <1>6, <2>3, <3>1
    <3>3. r[i].key = k
      BY <1>4, <3>1, <3>2
    <3> QED
      BY <1>2, <3>3 DEF InList
  <2> QED
    BY <2>2, <2>3
<1>10. \A i \in 1 .. l - 1 : \E j \in 1 .. l : r[i] = q[j]
  BY <1>4
<1> QED
  BY <1>1, <1>2, <1>8, <1>9, <1>10 DEF OneLess

\* Key c is used now, and no other.
UseOf(c, expires, u, v, now) ==
  /\ \A k \in CacheKeys : k # c => v[k] = u[k]
  /\ v[c].last = now /\ v[c].expires = expires

\* A list r with an entry of k in addition.
OneMore(r, q, k) ==
  /\ Len(r) = Len(q) + 1
  /\ \A l : InList(r, l) <=> InList(q, l) \/ l = k

\* The entry that is used goes to the end of the list, which keeps the order of use.
LEMMA AppendedListed ==
  ASSUME NEW q, NEW u \in Uses, NEW now \in Nat, InUseOrder(q, u, now), NEW e \in Entries, ~InList(q, e.key),
         NEW v \in Uses, UseOf(e.key, e.expires, u, v, now), now > 0
  PROVE  InUseOrder(Append(q, e), v, now + 1) /\ OneMore(Append(q, e), q, e.key)
<1> USE DEF UseOf
<1>0. PICK r : r = Append(q, e)
  OBVIOUS
<1>l. PICK l \in Nat : l = Len(q)
  BY LenProperties DEF InUseOrder
<1>1. r = Append(q, e) /\ l = Len(q)
  BY <1>0, <1>l
<1>2. /\ r \in Seq(Entries) /\ Len(r) = l + 1 /\ r[l + 1] = e
      /\ \A i \in 1 .. l : r[i] = q[i]
  BY <1>1, AppendProperties DEF InUseOrder
<1>3. /\ \A i \in 1 .. l :
           0 < u[q[i].key].last /\ u[q[i].key].last < now /\ u[q[i].key].expires = q[i].expires
      /\ \A i, j \in 1 .. l : i < j => u[q[i].key].last < u[q[j].key].last
  BY <1>1 DEF InUseOrder
<1>4. \A i \in 1 .. l : q[i].key \in CacheKeys /\ q[i].key # e.key
  <2>1. \A i \in 1 .. l : q[i] \in Entries
    BY <1>1, ElementOfSeq DEF InUseOrder
  <2> QED
    BY <1>1, <2>1 DEF InList, Entries
<1>5. \A i \in 1 .. l : v[r[i].key] = u[q[i].key] /\ r[i].key = q[i].key /\ r[i].expires = q[i].expires
  BY <1>2, <1>4
<1>6. \A i \in 1 .. l : u[q[i].key].last \in Nat
  BY <1>4 DEF Uses
<1>7. \A i \in 1 .. l + 1 : i \in 1 .. l \/ i = l + 1
  OBVIOUS
<1>8. v[r[l + 1].key].last = now /\ v[r[l + 1].key].expires = r[l + 1].expires
  BY <1>2
<1>9. \A i \in 1 .. l + 1 :
        0 < v[r[i].key].last /\ v[r[i].key].last < now + 1 /\ v[r[i].key].expires = r[i].expires
  BY <1>3, <1>5, <1>6, <1>7, <1>8
<1>10. ASSUME NEW i \in 1 .. l + 1, NEW j \in 1 .. l + 1, i < j
       PROVE  v[r[i].key].last < v[r[j].key].last
  <2>1. i \in 1 .. l
    BY <1>10
  <2>2. CASE j \in 1 .. l
    BY <1>3, <1>5, <1>10, <2>1, <2>2
  <2>3. CASE j = l + 1
    BY <1>3, <1>5, <1>8, <2>1, <2>3
  <2> QED
    BY <1>7, <2>2, <2>3
<1>11. InUseOrder(r, v, now + 1)
  BY <1>2, <1>9, <1>10 DEF InUseOrder
<1>12. \A k : InList(r, k) <=> InList(q, k) \/ k = e.key
  <2>1. l + 1 \in 1 .. l + 1 /\ \A i \in 1 .. l : i \in 1 .. l + 1
    OBVIOUS
  <2> QED
    BY <1>1, <1>2, <1>7, <2>1 DEF InList
<1> QED
  BY <1>1, <1>2, <1>11, <1>12 DEF OneMore

\* A use of c adds c, and nothing else, to what was used after the other keys.
LEMMA LaterUsesGrow ==
  ASSUME NEW u \in Uses, NEW v \in Uses, NEW now \in Nat, NEW c \in CacheKeys,
         \A k \in CacheKeys : u[k].last < now,
         \A k \in CacheKeys : k # c => v[k] = u[k],
         v[c].last = now, IsFiniteSet(EverUsed(u))
  PROVE  /\ IsFiniteSet(EverUsed(v))
         /\ \A k \in CacheKeys : k # c => /\ IsFiniteSet(LaterUsed(v, k))
                                          /\ LaterUsed(u, k) \subseteq LaterUsed(v, k)
                                          /\ Cardinality(LaterUsed(u, k)) \in Nat
                                          /\ Cardinality(LaterUsed(u, k)) <= Cardinality(LaterUsed(v, k))
                                          /\ c \in LaterUsed(v, k)
<1>1. \A k \in CacheKeys : u[k].last \in Nat /\ v[k].last \in Nat
  BY DEF Uses
<1>2. IsFiniteSet(EverUsed(v))
  <2>1. EverUsed(v) \subseteq EverUsed(u) \cup {c}
    BY DEF EverUsed
  <2>2. IsFiniteSet(EverUsed(u) \cup {c})
    BY FS_AddElement
  <2> QED
    BY <2>1, <2>2, FS_Subset
<1>3. ASSUME NEW k \in CacheKeys, k # c
      PROVE  /\ IsFiniteSet(LaterUsed(v, k)) /\ LaterUsed(u, k) \subseteq LaterUsed(v, k)
             /\ Cardinality(LaterUsed(u, k)) \in Nat
             /\ Cardinality(LaterUsed(u, k)) <= Cardinality(LaterUsed(v, k)) /\ c \in LaterUsed(v, k)
  <2>1. c \in LaterUsed(v, k) /\ LaterUsed(u, k) \subseteq LaterUsed(v, k)
    BY <1>1, <1>3 DEF LaterUsed
  <2>2. LaterUsed(v, k) \subseteq EverUsed(v)
    BY <1>1 DEF LaterUsed, EverUsed
  <2>3. IsFiniteSet(LaterUsed(v, k))
    BY <1>2, <2>2, FS_Subset
  <2>4. IsFiniteSet(LaterUsed(u, k)) /\ Cardinality(LaterUsed(u, k)) <= Cardinality(LaterUsed(v, k))
    BY <2>1, <2>3, FS_Subset
  <2> QED
    BY <2>1, <2>3, <2>4, FS_CardinalityType
<1> QED
  BY <1>2, <1>3

\* The first of a full list has been overtaken by MaxSize keys once another one is used.
LEMMA EvictedIsOld ==
  ASSUME NEW q, NEW u \in Uses, NEW now \in Nat, InUseOrder(q, u, now), Len(q) >= MaxSize,
         NEW v \in Uses, NEW c \in CacheKeys, ~InList(q, c),
         \A k \in CacheKeys : k # c => v[k] = u[k],
         v[c].last = now, IsFiniteSet(EverUsed(v))
  PROVE  Cardinality(LaterUsed(v, q[1].key)) >= MaxSize
<1>l. PICK l \in Nat : l = Len(q)
  BY LenProperties DEF InUseOrder
<1>1. l >= MaxSize /\ l > 0 /\ 1 \in 1 .. l
  BY <1>l, CacheConstants
<1>2. \A i \in 1 .. l : q[i].key \in CacheKeys /\ q[i].key # c
  <2>1. \A i \in 1 .. l : q[i] \in Entries
    BY <1>l, ElementOfSeq DEF InUseOrder
  <2> QED
    BY <1>l, <2>1 DEF InList, Entries
<1>3. /\ \A i \in 1 .. l : u[q[i].key].last < now /\ u[q[i].key].last \in Nat
      /\ \A i, j \in 1 .. l : i < j => u[q[i].key].last < u[q[j].key].last
  <2>1. \A i \in 1 .. l : u[q[i].key].last \in Nat
    BY <1>2 DEF Uses
  <2> QED
    BY <1>l, <2>1 DEF InUseOrder
<1> DEFINE old == q[1].key
           f == [i \in 1 .. l |-> IF i < l THEN q[i + 1].key ELSE c]
<1>4. \A i \in 1 .. l : i < l => i + 1 \in 1 .. l
  OBVIOUS
<1>5. ASSUME NEW i \in 1 .. l
      PROVE  f[i] \in LaterUsed(v, old)
  <2>1. CASE i < l
    <3>1. PICK j \in 1 .. l : j = i + 1 /\ 1 < j
      BY <1>4, <2>1
    <3>2. f[i] = q[j].key
      BY <2>1, <3>1
    <3>3. u[q[1].key].last < u[q[j].key].last
      BY <1>1, <1>3, <3>1
    <3>4. v[q[1].key] = u[q[1].key] /\ v[q[j].key] = u[q[j].key] /\ q[j].key \in CacheKeys
      BY <1>1, <1>2
    <3> QED
      BY <1>1, <1>3, <3>2, <3>3, <3>4 DEF LaterUsed
  <2>2. CASE ~(i < l)
    <3>1. f[i] = c
      BY <2>2
    <3> QED
      BY <1>1, <1>2, <1>3, <3>1 DEF LaterUsed
  <2> QED
    BY <2>1, <2>2
<1>6. ASSUME NEW i \in 1 .. l, NEW j \in 1 .. l, i < j
      PROVE  f[i] # f[j]
  <2>1. PICK m \in 1 .. l : m = i + 1
    BY <1>4, <1>6
  <2>2. f[i] = q[m].key
    BY <1>6, <2>1
  <2>3. CASE j < l
    <3>1. PICK n \in 1 .. l : n = j + 1 /\ m < n
      BY <1>4, <1>6, <2>1, <2>3
    <3>2. f[j] = q[n].key
      BY <2>3, <3>1
    <3> QED
      BY <1>3, <2>2, <3>1, <3>2
  <2>4. CASE ~(j < l)
    BY <1>2, <2>2, <2>4
  <2> QED
    BY <2>3, <2>4
<1>7. f \in Injection(1 .. l, LaterUsed(v, old))
  <2>1. f \in [1 .. l -> LaterUsed(v, old)]
    BY <1>5
  <2>2. \A i, j \in 1 .. l : f[i] = f[j] => i = j
    BY <1>6
  <2> HIDE DEF f
  <2> QED
    BY <2>1, <2>2 DEF Injection, IsInjective
<1>8. IsFiniteSet(LaterUsed(v, old)) /\ Cardinality(LaterUsed(v, old)) \in Nat
  <2>1. LaterUsed(v, old) \subseteq EverUsed(v)
    <3>1. v[old].last \in Nat /\ \A k \in CacheKeys : v[k].last \in Nat
      BY <1>1, <1>2 DEF Uses
    <3> QED
      BY <3>1 DEF LaterUsed, EverUsed
  <2> QED
    BY <2>1, FS_Subset, FS_CardinalityType
<1>9. Cardinality(1 .. l) = l
  <2>1. 1 \in Int /\ l \in Int /\ ~(1 > l) /\ l - 1 + 1 = l
    BY <1>1
  <2>2. Cardinality(1 .. l) = IF 1 > l THEN 0 ELSE l - 1 + 1
    BY <2>1, FS_Interval
  <2> QED
    BY <2>1, <2>2
<1>10. Cardinality(1 .. l) <= Cardinality(LaterUsed(v, old))
  <2> HIDE DEF f, old
  <2> QED
    BY <1>7, <1>8, FS_Injection
<1> QED
  BY <1>1, <1>8, <1>9, <1>10, CacheConstants

\* The types of a request.
Asks == [phase : {"off", "list", "compute", "set", "told", "error"}, key : CacheKeys \cup {NoKey},
         tells : SUBSET Requests]

\* The type invariant.
CacheTypeOK ==
  /\ tick \in Nat \ {0} /\ stored \subseteq Requests
  /\ used \in Uses /\ ask \in [Requests -> Asks]

\* What the cache tells is stored.
EntriesTold == \A i \in 1 .. Len(cache) : cache[i].tells \subseteq stored

\* What a request was told is stored, and it knows its key once it was computed.
AskTold ==
  \A r \in Requests : /\ ask[r].phase \in {"set", "told"} => ask[r].tells \subseteq stored
                      /\ ask[r].phase \in {"list", "compute", "set"} => ask[r].key \in CacheKeys

\* The cache is a list in the order of use, within its size, and misses no entry without reason.
UsesHold(q, u, now) ==
  /\ InUseOrder(q, u, now) /\ Len(q) <= MaxSize
  /\ \A k \in CacheKeys : u[k].last < now
  /\ IsFiniteSet(EverUsed(u))
  /\ \A k \in CacheKeys : u[k].last > 0 /\ ~InList(q, k) => Dropped(u, now, k)

\* The inductive invariant of the cache.
CacheInv == CacheTypeOK /\ EntriesTold /\ AskTold /\ UsesHold(cache, used, tick)

(* The entries that stay when c is about to be used.                        *)
MakesRoom(rest, c) ==
  /\ InUseOrder(rest, used, tick) /\ ~InList(rest, c) /\ Len(rest) \in Nat /\ Len(rest) < MaxSize
  /\ \A k \in CacheKeys : InList(cache, k) /\ ~InList(rest, k) =>
       k = c \/ (Len(cache) >= MaxSize /\ ~InList(cache, c) /\ k = cache[1].key)

\* An empty cache satisfies the invariant.
LEMMA CacheInitial == CacheInit => CacheInv
<1> SUFFICES ASSUME CacheInit PROVE CacheInv
  OBVIOUS
<1>1. << >> \in Seq(Entries) /\ Len(<< >>) = 0
  OBVIOUS
<1>2. CacheTypeOK
  BY DEF CacheInit, CacheTypeOK, Uses, Asks
<1>3. EntriesTold /\ InUseOrder(cache, used, tick) /\ Len(cache) <= MaxSize
  BY <1>1, CacheConstants DEF CacheInit, EntriesTold, InUseOrder
<1>4. AskTold
  BY DEF CacheInit, AskTold
<1>5. \A k \in CacheKeys : used[k].last = 0 /\ used[k].last < tick
  BY DEF CacheInit
<1>6. EverUsed(used) = {}
  BY <1>5 DEF EverUsed
<1> QED
  BY <1>2, <1>3, <1>4, <1>5, <1>6, FS_EmptySet DEF CacheInv, UsesHold

\* A key is cached when an entry of the list is its own.
LEMMA CachedIsListed ==
  ASSUME cache \in Seq(Entries)
  PROVE  /\ \A k : Cached(k) = {} <=> ~InList(cache, k)
         /\ \A k : \A e \in Cached(k) : \E i \in 1 .. Len(cache) : cache[i] = e /\ e.key = k
         /\ \A i \in 1 .. Len(cache) : cache[i] \in Cached(cache[i].key)
<1>1. DOMAIN cache = 1 .. Len(cache)
  OBVIOUS
<1> QED
  BY <1>1 DEF Cached, ToSet, InList

\* The list without a key keeps its order.
LEMMA WithoutListed ==
  ASSUME CacheInv, NEW k \in CacheKeys
  PROVE  /\ InUseOrder(Without(k), used, tick) /\ Len(Without(k)) \in Nat /\ Len(Without(k)) <= Len(cache)
         /\ InList(cache, k) => Len(Without(k)) + 1 = Len(cache)
         /\ \A l : InList(Without(k), l) <=> InList(cache, l) /\ l # k
         /\ \A i \in 1 .. Len(Without(k)) : Without(k)[i].tells \subseteq stored
<1>1. cache \in Seq(Entries) /\ InUseOrder(cache, used, tick) /\ used \in Uses /\ tick \in Nat
  BY DEF CacheInv, UsesHold, InUseOrder, CacheTypeOK
<1>2. DOMAIN cache = 1 .. Len(cache) /\ Len(cache) \in Nat
  BY <1>1
<1>3. CASE ~InList(cache, k)
  <2>1. Cached(k) = {}
    BY <1>1, <1>3, CachedIsListed
  <2>2. Without(k) = cache
    BY <2>1 DEF Without
  <2>3. \A l : InList(cache, l) <=> InList(cache, l) /\ l # k
    BY <1>3
  <2>4. \A i \in 1 .. Len(cache) : cache[i].tells \subseteq stored
    BY DEF CacheInv, EntriesTold
  <2>5. Len(cache) <= Len(cache)
    BY <1>2
  <2> QED
    BY <1>1, <1>2, <1>3, <2>2, <2>3, <2>4, <2>5
<1>4. CASE InList(cache, k)
  <2>1. Cached(k) # {}
    BY <1>1, <1>4, CachedIsListed
  <2> DEFINE n == CHOOSE i \in DOMAIN cache : cache[i].key = k
  <2>2. n \in 1 .. Len(cache) /\ cache[n].key = k
    BY <1>2, <1>4 DEF InList
  <2>3. Without(k) = RemoveAt(cache, n)
    BY <2>1 DEF Without
  <2> HIDE DEF n
  <2>4. /\ InUseOrder(RemoveAt(cache, n), used, tick) /\ Len(RemoveAt(cache, n)) = Len(cache) - 1
        /\ \A l : InList(RemoveAt(cache, n), l) <=> InList(cache, l) /\ l # cache[n].key
        /\ \A i \in 1 .. Len(cache) - 1 : \E j \in 1 .. Len(cache) : RemoveAt(cache, n)[i] = cache[j]
    <3>1. InUseOrder(RemoveAt(cache, n), used, tick) /\ OneLess(RemoveAt(cache, n), cache, cache[n].key)
      BY <1>1, <2>2, RemovedListed
    <3> QED
      BY <3>1 DEF OneLess
  <2>5. Len(cache) - 1 \in Nat /\ Len(cache) - 1 <= Len(cache) /\ (Len(cache) - 1) + 1 = Len(cache)
    BY <1>2, <2>2
  <2>6. \A i \in 1 .. Len(cache) - 1 : RemoveAt(cache, n)[i].tells \subseteq stored
    <3>1. \A i \in 1 .. Len(cache) : cache[i].tells \subseteq stored
      BY DEF CacheInv, EntriesTold
    <3> QED
      BY <2>4, <3>1
  <2>7. \A l : InList(RemoveAt(cache, n), l) <=> InList(cache, l) /\ l # k
    BY <2>2, <2>4
  <2>8. PICK w : w = Without(k) /\ w = RemoveAt(cache, n)
    BY <2>3
  <2>9. Len(w) \in Nat /\ Len(w) <= Len(cache) /\ Len(w) + 1 = Len(cache)
    BY <2>4, <2>5, <2>8
  <2>10. InUseOrder(w, used, tick) /\ \A l : InList(w, l) <=> InList(cache, l) /\ l # k
    BY <2>4, <2>7, <2>8
  <2>11. \A i \in 1 .. Len(w) : w[i].tells \subseteq stored
    BY <2>4, <2>6, <2>8
  <2> QED
    BY <2>8, <2>9, <2>10, <2>11
<1> QED
  BY <1>3, <1>4

(* What an operation that uses key c at this instant makes of the invariant. *)
LEMMA UsedNow ==
  ASSUME CacheInv, NEW rest, NEW e \in Entries, MakesRoom(rest, e.key),
         used' \in Uses, UseOf(e.key, e.expires, used, used', tick)
  PROVE  UsesHold(Append(rest, e), used', tick + 1)
<1> USE DEF MakesRoom, UseOf
<1>9. PICK c \in CacheKeys : c = e.key
  BY DEF Entries
<1>11. PICK next : next = Append(rest, e)
  OBVIOUS
<1>0. c = e.key /\ next = Append(rest, e)
  BY <1>9, <1>11
<1>1. PICK u \in Uses, v \in Uses, now \in Nat : u = used /\ v = used' /\ now = tick /\ now > 0
  BY DEF CacheInv, CacheTypeOK
<1>2. /\ \A k \in CacheKeys : u[k].last < now
      /\ \A k \in CacheKeys : k # c => v[k] = u[k]
      /\ v[c].last = now /\ v[c].expires = e.expires /\ IsFiniteSet(EverUsed(u))
      /\ InUseOrder(rest, u, now) /\ InUseOrder(cache, u, now)
  BY <1>0, <1>1 DEF CacheInv, UsesHold
<1>3. /\ InUseOrder(next, v, now + 1) /\ Len(next) = Len(rest) + 1
      /\ \A k : InList(next, k) <=> InList(rest, k) \/ k = c
  <2>1. /\ InUseOrder(Append(rest, e), v, now + 1) /\ Len(Append(rest, e)) = Len(rest) + 1
        /\ \A k : InList(Append(rest, e), k) <=> InList(rest, k) \/ k = e.key
    <3>1. UseOf(e.key, e.expires, u, v, now)
      BY <1>0, <1>2 DEF UseOf
    <3>2. InUseOrder(Append(rest, e), v, now + 1) /\ OneMore(Append(rest, e), rest, e.key)
      BY <1>1, <1>2, <3>1, AppendedListed
    <3> QED
      BY <3>2 DEF OneMore
  <2> QED
    BY <1>0, <2>1
<1>4. /\ IsFiniteSet(EverUsed(v))
      /\ \A k \in CacheKeys : k # c => /\ Cardinality(LaterUsed(u, k)) \in Nat
                                       /\ IsFiniteSet(LaterUsed(v, k))
                                       /\ Cardinality(LaterUsed(u, k)) <= Cardinality(LaterUsed(v, k))
  BY <1>1, <1>2, LaterUsesGrow
<1>5. \A k \in CacheKeys : v[k].last < now + 1
  <2>1. \A k \in CacheKeys : u[k].last \in Nat /\ v[k].last \in Nat
    BY DEF Uses
  <2> QED
    BY <1>2, <2>1
<1>6. ASSUME NEW k \in CacheKeys, v[k].last > 0, ~InList(next, k)
      PROVE  Dropped(v, now + 1, k)
  <2>1. k # c /\ ~InList(rest, k) /\ v[k] = u[k] /\ u[k].last > 0
    BY <1>2, <1>3, <1>6
  <2>2. CASE InList(cache, k)
    <3>1. Len(cache) >= MaxSize /\ ~InList(cache, c) /\ k = cache[1].key
      BY <1>0, <2>1, <2>2
    <3>2. Cardinality(LaterUsed(v, cache[1].key)) >= MaxSize
      BY <1>2, <1>4, <3>1, EvictedIsOld
    <3> QED
      BY <3>1, <3>2 DEF Dropped
  <2>3. CASE ~InList(cache, k)
    <3>1. Dropped(u, now, k)
      BY <1>1, <2>1, <2>3 DEF CacheInv, UsesHold
    <3>2. u[k].expires \in Nat
      BY DEF Uses
    <3>3. CASE now > u[k].expires
      BY <2>1, <3>2, <3>3 DEF Dropped
    <3>4. CASE Cardinality(LaterUsed(u, k)) >= MaxSize
      <4>1. Cardinality(LaterUsed(v, k)) \in Nat
        BY <1>4, <2>1, FS_CardinalityType
      <4> QED
        BY <1>4, <2>1, <3>4, <4>1, CacheConstants DEF Dropped
    <3> QED
      BY <3>1, <3>3, <3>4 DEF Dropped
  <2> QED
    BY <2>2, <2>3
<1>7. Len(next) <= MaxSize
  BY <1>3, CacheConstants
<1>8. UsesHold(next, v, now + 1)
  BY <1>3, <1>4, <1>5, <1>6, <1>7 DEF UsesHold
<1> QED
  BY <1>0, <1>1, <1>8

\* Time passes: no entry is dropped, and none is used.
LEMMA ClockAdvances ==
  ASSUME CacheInv
  PROVE  UsesHold(cache, used, tick + 1)
<1>1. tick \in Nat /\ \A k \in CacheKeys : used[k].last \in Nat /\ used[k].expires \in Nat /\ used[k].last < tick
  BY DEF CacheInv, UsesHold, CacheTypeOK, Uses
<1>2. \A i \in 1 .. Len(cache) : cache[i].key \in CacheKeys
  <2>1. \A i \in 1 .. Len(cache) : cache[i] \in Entries
    BY ElementOfSeq DEF CacheInv, UsesHold, InUseOrder
  <2> QED
    BY <2>1 DEF Entries
<1>3. InUseOrder(cache, used, tick + 1)
  BY <1>1, <1>2 DEF CacheInv, UsesHold, InUseOrder
<1>4. \A k \in CacheKeys : tick > used[k].expires => tick + 1 > used[k].expires
  BY <1>1
<1>5. \A k \in CacheKeys : used[k].last < tick + 1
  BY <1>1
<1>6. \A k \in CacheKeys : Dropped(used, tick, k) => Dropped(used, tick + 1, k)
  BY <1>4 DEF Dropped
<1> QED
  BY <1>3, <1>5, <1>6 DEF CacheInv, UsesHold

\* One more entry that tells what is stored.
LEMMA ToldAppended ==
  ASSUME NEW q \in Seq(Entries), NEW e \in Entries, NEW S,
         \A i \in 1 .. Len(q) : q[i].tells \subseteq S, e.tells \subseteq S
  PROVE  \A i \in 1 .. Len(Append(q, e)) : Append(q, e)[i].tells \subseteq S
<1>1. PICK l \in Nat : l = Len(q)
  BY LenProperties
<1>2. /\ Len(Append(q, e)) = l + 1 /\ Append(q, e)[l + 1] = e
      /\ \A i \in 1 .. l : Append(q, e)[i] = q[i]
  BY <1>1, AppendProperties
<1>3. \A i \in 1 .. l + 1 : i \in 1 .. l \/ i = l + 1
  OBVIOUS
<1> QED
  BY <1>1, <1>2, <1>3

(* The least recent entry makes room for a key that has none.               *)
LEMMA LeastRecentGoes ==
  ASSUME CacheInv, NEW c \in CacheKeys, ~InList(cache, c), Len(cache) >= MaxSize
  PROVE  /\ MakesRoom(Tail(cache), c)
         /\ \A i \in 1 .. Len(Tail(cache)) : Tail(cache)[i].tells \subseteq stored
<1>1. cache \in Seq(Entries) /\ InUseOrder(cache, used, tick) /\ used \in Uses /\ tick \in Nat /\ Len(cache) <= MaxSize
  BY DEF CacheInv, UsesHold, InUseOrder, CacheTypeOK
<1>2. PICK l \in Nat : l = Len(cache) /\ l = MaxSize /\ l > 0
  BY <1>1, LenProperties, CacheConstants
<1>3. cache # << >>
  <2> SUFFICES ASSUME cache = << >> PROVE FALSE
    OBVIOUS
  <2>1. Len(cache) = 0
    OBVIOUS
  <2> QED
    BY <1>2, <2>1
<1>4. 1 \in 1 .. Len(cache) /\ cache[1] \in Entries
  <2>1. 1 \in 1 .. Len(cache)
    BY <1>2
  <2> QED
    BY <1>1, <2>1, ElementOfSeq
<1>5. InUseOrder(RemoveAt(cache, 1), used, tick) /\ OneLess(RemoveAt(cache, 1), cache, cache[1].key)
  BY <1>1, <1>4, RemovedListed
<1>6. RemoveAt(cache, 1) = Tail(cache)
  <2>1. /\ RemoveAt(cache, 1) \in Seq(Entries) /\ Len(RemoveAt(cache, 1)) = Len(cache) - 1
        /\ \A i \in 1 .. Len(cache) - 1 : RemoveAt(cache, 1)[i] = IF i < 1 THEN cache[i] ELSE cache[i + 1]
    BY <1>1, <1>4, RemovedAt
  <2>2. /\ Tail(cache) \in Seq(Entries) /\ Len(Tail(cache)) = Len(cache) - 1
        /\ \A i \in 1 .. Len(Tail(cache)) : Tail(cache)[i] = cache[i + 1]
    BY <1>1, <1>3, HeadTailProperties
  <2>3. \A i \in 1 .. Len(cache) - 1 : RemoveAt(cache, 1)[i] = Tail(cache)[i]
    <3> TAKE i \in 1 .. Len(cache) - 1
    <3>1. ~(i < 1) /\ i \in 1 .. Len(Tail(cache))
      BY <1>2, <2>2
    <3> QED
      BY <2>1, <2>2, <3>1
  <2> QED
    BY <2>1, <2>2, <2>3, SeqEqual
<1>7. PICK rest : rest = Tail(cache)
  OBVIOUS
<1>8. InUseOrder(rest, used, tick) /\ OneLess(rest, cache, cache[1].key)
  BY <1>5, <1>6, <1>7
<1>9. /\ Len(rest) = l - 1 /\ Len(rest) \in Nat /\ Len(rest) < MaxSize
      /\ \A k : InList(rest, k) <=> InList(cache, k) /\ k # cache[1].key
      /\ \A i \in 1 .. l - 1 : \E j \in 1 .. l : rest[i] = cache[j]
  <2>1. Len(rest) = l - 1 /\ \A i \in 1 .. l - 1 : \E j \in 1 .. l : rest[i] = cache[j]
    BY <1>2, <1>8 DEF OneLess
  <2>2. l - 1 \in Nat /\ l - 1 < MaxSize
    BY <1>2
  <2>3. \A k : InList(rest, k) <=> InList(cache, k) /\ k # cache[1].key
    BY <1>8 DEF OneLess
  <2> QED
    BY <2>1, <2>2, <2>3
<1>10. MakesRoom(rest, c)
  BY <1>8, <1>9 DEF MakesRoom
<1>11. \A i \in 1 .. l : cache[i].tells \subseteq stored
  BY <1>2 DEF CacheInv, EntriesTold
<1> QED
  BY <1>7, <1>9, <1>10, <1>11

\* The entry of the key itself makes room, or there was room.
LEMMA WithoutMakesRoom ==
  ASSUME CacheInv, NEW c \in CacheKeys, InList(cache, c) \/ Len(cache) < MaxSize
  PROVE  /\ MakesRoom(Without(c), c)
         /\ \A i \in 1 .. Len(Without(c)) : Without(c)[i].tells \subseteq stored
<1>1. PICK rest : rest = Without(c)
  OBVIOUS
<1>2. /\ InUseOrder(rest, used, tick) /\ Len(rest) \in Nat /\ Len(rest) <= Len(cache)
      /\ InList(cache, c) => Len(rest) + 1 = Len(cache)
      /\ \A l : InList(rest, l) <=> InList(cache, l) /\ l # c
      /\ \A i \in 1 .. Len(rest) : rest[i].tells \subseteq stored
  BY <1>1, WithoutListed
<1>3. Len(cache) <= MaxSize /\ Len(cache) \in Nat
  BY LenProperties DEF CacheInv, UsesHold, InUseOrder
<1>4. Len(rest) < MaxSize
  BY <1>2, <1>3, CacheConstants
<1>5. MakesRoom(rest, c)
  BY <1>2, <1>4 DEF MakesRoom
<1> QED
  BY <1>1, <1>2, <1>5

\* Every step of requests and of the clock keeps the invariant.
LEMMA CacheStep == CacheInv /\ [CacheNext]_cacheVars => CacheInv'
<1> SUFFICES ASSUME CacheInv, [CacheNext]_cacheVars PROVE CacheInv'
  OBVIOUS
<1>0. /\ tick \in Nat \ {0} /\ stored \subseteq Requests
      /\ used \in Uses /\ ask \in [Requests -> Asks] /\ cache \in Seq(Entries)
      /\ UsesHold(cache, used, tick) /\ AskTold /\ EntriesTold
  BY DEF CacheInv, CacheTypeOK, UsesHold, InUseOrder
<1>1. ASSUME UsesHold(cache', used', tick'), CacheTypeOK', EntriesTold', AskTold'
      PROVE  CacheInv'
  BY <1>1 DEF CacheInv, UsesHold, InUseOrder, InList, Dropped, LaterUsed, EverUsed
<1>2. ASSUME NEW r \in Requests, NEW new \in Asks, ask' = [ask EXCEPT ![r] = new],
             new.phase \in {"set", "told"} => new.tells \subseteq stored',
             new.phase \in {"list", "compute", "set"} => new.key \in CacheKeys, stored \subseteq stored'
      PROVE  AskTold' /\ ask' \in [Requests -> Asks]
  <2>1. ask' \in [Requests -> Asks] /\ \A s \in Requests : ask'[s] = IF s = r THEN new ELSE ask[s]
    BY <1>0, <1>2
  <2>2. ASSUME NEW s \in Requests
        PROVE  /\ ask'[s].phase \in {"set", "told"} => ask'[s].tells \subseteq stored'
               /\ ask'[s].phase \in {"list", "compute", "set"} => ask'[s].key \in CacheKeys
    <3>1. CASE s = r
      BY <1>2, <2>1, <3>1
    <3>2. CASE s # r
      <4>1. ask'[s] = ask[s]
        BY <2>1, <3>2
      <4> QED
        BY <1>0, <1>2, <4>1 DEF AskTold
    <3> QED
      BY <3>1, <3>2
  <2> QED
    BY <2>1, <2>2 DEF AskTold
<1>3. ASSUME NEW r \in Requests, Hit(r)
      PROVE  CacheInv'
  <2>1. PICK k \in CacheKeys : \E e \in Cached(k) :
          /\ ask' = [ask EXCEPT ![r] = [phase |-> "told", key |-> NoKey, tells |-> e.tells]]
          /\ Touch(k) /\ cache' = Append(Without(k), e)
    BY <1>3 DEF Hit
  <2>e. PICK e \in Cached(k) :
          /\ ask' = [ask EXCEPT ![r] = [phase |-> "told", key |-> NoKey, tells |-> e.tells]]
          /\ Touch(k) /\ cache' = Append(Without(k), e)
    BY <2>1
  <2>2. tick' = tick + 1 /\ stored' = stored
    BY <1>3 DEF Hit, Tick
  <2>3. PICK i \in 1 .. Len(cache) : cache[i] = e /\ e.key = k
    BY <1>0, CachedIsListed
  <2>4. /\ e \in Entries /\ InList(cache, k) /\ e.tells \subseteq stored /\ used[k].expires = e.expires
        /\ e.expires \in Nat /\ e.tells \subseteq Requests
    <3>1. e \in Entries
      BY <1>0, <2>3, ElementOfSeq
    <3> QED
      BY <1>0, <2>3, <3>1 DEF InList, EntriesTold, UsesHold, InUseOrder, Entries
  <2>5. used' \in Uses /\ UseOf(k, e.expires, used, used', tick)
    BY <1>0, <2>e, <2>4 DEF Touch, Uses, UseOf
  <2>6. MakesRoom(Without(k), k) /\ \A j \in 1 .. Len(Without(k)) : Without(k)[j].tells \subseteq stored
    BY <2>4, WithoutMakesRoom
  <2>7. UsesHold(cache', used', tick')
    BY <2>e, <2>2, <2>3, <2>4, <2>5, <2>6, UsedNow
  <2>8. EntriesTold'
    <3>1. Without(k) \in Seq(Entries)
      BY <2>6 DEF MakesRoom, InUseOrder
    <3>2. \A j \in 1 .. Len(cache') : cache'[j].tells \subseteq stored
      BY <2>e, <2>4, <2>6, <3>1, ToldAppended
    <3> QED
      BY <2>2, <3>2 DEF EntriesTold
  <2> DEFINE new == [phase |-> "told", key |-> NoKey, tells |-> e.tells]
  <2>9. new \in Asks /\ new.phase = "told" /\ new.tells \subseteq stored'
    BY <2>2, <2>4 DEF Asks
  <2> HIDE DEF new
  <2>10. AskTold' /\ ask' \in [Requests -> Asks]
    <3>1. ask' = [ask EXCEPT ![r] = new]
      BY <2>e DEF new
    <3> QED
      BY <1>2, <2>2, <2>9, <3>1
  <2>11. CacheTypeOK'
    BY <1>0, <2>2, <2>5, <2>10 DEF CacheTypeOK
  <2> QED
    BY <1>1, <2>7, <2>8, <2>10, <2>11
<1>4. ASSUME NEW r \in Requests, Miss(r)
      PROVE  CacheInv'
  <2>1. PICK k \in CacheKeys :
          /\ \A e \in Cached(k) : Expired(e)
          /\ cache' = Without(k)
          /\ ask' = [ask EXCEPT ![r].key = k, ![r].phase = IF k \in TrendKeys THEN "list" ELSE "compute"]
    BY <1>4 DEF Miss
  <2>2. tick' = tick /\ stored' = stored /\ used' = used
    BY <1>4 DEF Miss
  <2>3. PICK rest : rest = Without(k)
    OBVIOUS
  <2>4. /\ InUseOrder(rest, used, tick) /\ Len(rest) \in Nat /\ Len(rest) <= Len(cache)
        /\ \A l : InList(rest, l) <=> InList(cache, l) /\ l # k
        /\ \A i \in 1 .. Len(rest) : rest[i].tells \subseteq stored
    BY <2>3, WithoutListed
  <2>5. InList(cache, k) => Dropped(used, tick, k)
    <3> SUFFICES ASSUME InList(cache, k) PROVE Dropped(used, tick, k)
      OBVIOUS
    <3>1. PICK i \in 1 .. Len(cache) : cache[i].key = k
      BY DEF InList
    <3>2. cache[i] \in Cached(k)
      BY <1>0, <3>1, CachedIsListed
    <3>3. used[k].expires = cache[i].expires
      BY <1>0, <3>1 DEF UsesHold, InUseOrder
    <3> QED
      BY <2>1, <3>2, <3>3 DEF Dropped, Expired
  <2>6. UsesHold(rest, used, tick)
    <3>1. Len(rest) <= MaxSize
      BY <1>0, <2>4, LenProperties, CacheConstants DEF UsesHold
    <3> QED
      BY <1>0, <2>4, <2>5, <3>1 DEF UsesHold
  <2>7. EntriesTold'
    BY <2>1, <2>2, <2>3, <2>4 DEF EntriesTold
  <2> DEFINE new == [ask[r] EXCEPT !.key = k, !.phase = IF k \in TrendKeys THEN "list" ELSE "compute"]
  <2>8. new \in Asks /\ new.phase \in {"list", "compute"} /\ new.key \in CacheKeys
    <3>1. ask[r] \in Asks
      BY <1>0
    <3>2. PICK phase \in {"list", "compute"} : phase = IF k \in TrendKeys THEN "list" ELSE "compute"
      OBVIOUS
    <3> QED
      BY <3>1, <3>2 DEF Asks
  <2>9. ask' = [ask EXCEPT ![r] = new]
    BY <1>0, <2>1
  <2> HIDE DEF new
  <2>10. AskTold' /\ ask' \in [Requests -> Asks]
    BY <1>2, <2>2, <2>8, <2>9
  <2>11. CacheTypeOK'
    BY <1>0, <2>2, <2>10 DEF CacheTypeOK
  <2>12. UsesHold(cache', used', tick')
    BY <2>1, <2>2, <2>3, <2>6
  <2> QED
    BY <1>1, <2>7, <2>10, <2>11, <2>12
<1>5. ASSUME NEW r \in Requests, CommitForecast(r) \/ ListRecent(r)
      PROVE  CacheInv'
  <2>1. UNCHANGED <<tick, cache, used>> /\ stored \subseteq stored' /\ stored' \subseteq Requests
    BY <1>0, <1>5 DEF CommitForecast, ListRecent
  <2>2. PICK new \in Asks : /\ ask' = [ask EXCEPT ![r] = new]
                            /\ new.phase \in {"set", "told"} => new.tells \subseteq stored'
                            /\ new.phase \in {"list", "compute", "set"} => new.key \in CacheKeys
    <3>1. ask[r] \in Asks /\ (ask[r].phase \in {"compute", "list"} => ask[r].key \in CacheKeys)
      BY <1>0 DEF AskTold
    <3>2. CASE CommitForecast(r)
      <4>1. CASE stored' = stored \cup {r} /\ ask' = [ask EXCEPT ![r].phase = "set", ![r].tells = {r}]
        <5> DEFINE new == [ask[r] EXCEPT !.phase = "set", !.tells = {r}]
        <5>1. new \in Asks /\ new.tells = {r} /\ new.key = ask[r].key
          BY <3>1 DEF Asks
        <5>2. ask' = [ask EXCEPT ![r] = new]
          BY <1>0, <4>1
        <5> HIDE DEF new
        <5> QED
          BY <3>1, <3>2, <4>1, <5>1, <5>2 DEF CommitForecast
      <4>2. CASE ask' = [ask EXCEPT ![r].phase = "error", ![r].key = NoKey]
        <5> DEFINE new == [ask[r] EXCEPT !.phase = "error", !.key = NoKey]
        <5>1. new \in Asks /\ new.phase = "error"
          BY <3>1 DEF Asks
        <5>2. ask' = [ask EXCEPT ![r] = new]
          BY <1>0, <4>2
        <5> HIDE DEF new
        <5> QED
          BY <5>1, <5>2
      <4> QED
        BY <3>2, <4>1, <4>2 DEF CommitForecast
    <3>3. CASE ListRecent(r)
      <4> DEFINE new == [ask[r] EXCEPT !.phase = "set", !.tells = stored]
      <4>1. new \in Asks /\ new.tells = stored /\ new.key = ask[r].key
        BY <1>0, <3>1 DEF Asks
      <4>2. ask' = [ask EXCEPT ![r] = new]
        BY <1>0, <3>3 DEF ListRecent
      <4> HIDE DEF new
      <4> QED
        BY <2>1, <3>1, <3>3, <4>1, <4>2 DEF ListRecent
    <3> QED
      BY <1>5, <3>2, <3>3
  <2>3. AskTold' /\ ask' \in [Requests -> Asks]
    BY <1>2, <2>1, <2>2
  <2>4. EntriesTold'
    BY <1>0, <2>1 DEF EntriesTold
  <2>5. CacheTypeOK' /\ UsesHold(cache', used', tick')
    BY <1>0, <2>1, <2>3 DEF CacheTypeOK
  <2> QED
    BY <1>1, <2>3, <2>4, <2>5
<1>6. ASSUME NEW r \in Requests, SetEntry(r)
      PROVE  CacheInv'
  <2>1. PICK k \in CacheKeys, e \in Entries :
          k = ask[r].key /\ e = [key |-> k, expires |-> tick + Ttl, tells |-> ask[r].tells]
    <3>1. ask[r].key \in CacheKeys /\ ask[r].tells \subseteq Requests
      BY <1>0, <1>6 DEF SetEntry, AskTold, Asks
    <3>2. tick + Ttl \in Nat
      BY <1>0, CacheConstants
    <3> QED
      BY <3>1, <3>2 DEF Entries
  <2>2. e.key = k /\ e.expires = tick + Ttl /\ e.tells \subseteq stored /\ tick' = tick + 1 /\ stored' = stored
    BY <1>0, <1>6, <2>1 DEF SetEntry, Tick, AskTold
  <2>3. PICK rest : /\ cache' = Append(rest, e)
                    /\ rest = IF Cached(k) = {} /\ Len(cache) >= MaxSize THEN Tail(cache) ELSE Without(k)
    BY <1>6, <2>1 DEF SetEntry
  <2>4. used' \in Uses /\ UseOf(k, e.expires, used, used', tick)
    <3>1. used' = [used EXCEPT ![k] = [last |-> tick, expires |-> tick + Ttl]]
      BY <1>6, <2>1 DEF SetEntry, TouchNew
    <3>2. tick + Ttl \in Nat
      BY <1>0, CacheConstants
    <3> QED
      BY <1>0, <2>2, <3>1, <3>2 DEF Uses, UseOf
  <2>5. MakesRoom(rest, k) /\ \A j \in 1 .. Len(rest) : rest[j].tells \subseteq stored
    <3>1. CASE Cached(k) = {} /\ Len(cache) >= MaxSize
      <4>1. ~InList(cache, k)
        BY <1>0, <3>1, CachedIsListed
      <4> QED
        BY <2>3, <3>1, <4>1, LeastRecentGoes
    <3>2. CASE ~(Cached(k) = {} /\ Len(cache) >= MaxSize)
      <4>1. InList(cache, k) \/ Len(cache) < MaxSize
        BY <1>0, <3>2, CachedIsListed, CacheConstants, LenProperties
      <4> QED
        BY <2>3, <3>2, <4>1, WithoutMakesRoom
    <3> QED
      BY <3>1, <3>2
  <2>6. UsesHold(cache', used', tick')
    BY <2>2, <2>3, <2>4, <2>5, UsedNow
  <2>7. EntriesTold'
    <3>1. rest \in Seq(Entries)
      BY <2>5 DEF MakesRoom, InUseOrder
    <3>2. \A j \in 1 .. Len(cache') : cache'[j].tells \subseteq stored
      BY <2>2, <2>3, <2>5, <3>1, ToldAppended
    <3> QED
      BY <2>2, <3>2 DEF EntriesTold
  <2> DEFINE new == [ask[r] EXCEPT !.phase = "told", !.key = NoKey]
  <2>8. new \in Asks /\ new.phase = "told" /\ new.tells = ask[r].tells
    <3>1. ask[r] \in Asks
      BY <1>0
    <3> QED
      BY <3>1 DEF Asks
  <2>9. ask' = [ask EXCEPT ![r] = new] /\ ask[r].tells \subseteq stored'
    BY <1>0, <1>6, <2>2 DEF SetEntry, AskTold
  <2> HIDE DEF new
  <2>10. AskTold' /\ ask' \in [Requests -> Asks]
    BY <1>2, <2>2, <2>8, <2>9
  <2>11. CacheTypeOK'
    BY <1>0, <2>2, <2>4, <2>10 DEF CacheTypeOK
  <2> QED
    BY <1>1, <2>6, <2>7, <2>10, <2>11
<1>7. CASE Wait
  <2>1. tick' = tick + 1 /\ UNCHANGED <<cache, ask, stored, used>>
    BY <1>7 DEF Wait, Tick
  <2>2. UsesHold(cache, used, tick + 1)
    BY ClockAdvances
  <2> QED
    BY <1>0, <1>1, <2>1, <2>2 DEF CacheTypeOK, EntriesTold, AskTold
<1>8. CASE UNCHANGED cacheVars
  BY <1>0, <1>1, <1>8 DEF cacheVars, CacheTypeOK, EntriesTold, AskTold
<1> QED
  BY <1>3, <1>4, <1>5, <1>6, <1>7, <1>8 DEF CacheNext

\* The invariant contains what the runs check.
LEMMA CacheInvIsEnough == CacheInv => CacheIsSound
<1> SUFFICES ASSUME CacheInv PROVE CacheIsSound
  OBVIOUS
<1>1. cache \in Seq(Entries) /\ DOMAIN cache = 1 .. Len(cache)
  BY DEF CacheInv, UsesHold, InUseOrder
<1>2. TellsStoredForecasts
  BY <1>1 DEF CacheInv, AskTold, EntriesTold, TellsStoredForecasts, ToSet
<1>3. RecentKeysStay
  <2>1. \A k : Cached(k) = {} <=> ~InList(cache, k)
    BY <1>1, CachedIsListed
  <2> QED
    BY <2>1 DEF CacheInv, UsesHold, Dropped, LaterUsed, RecentKeysStay
<1> QED
  BY <1>2, <1>3 DEF CacheIsSound

\* For every size and lifetime and any interleaving of requests: the cache keeps its bound, drops a
\* key only when it expired or as the least recently used, and tells only what is stored.
THEOREM CacheHolds == CacheSpec => []CacheIsSound
BY CacheInitial, CacheStep, CacheInvIsEnough, PTL DEF CacheSpec

-----------------------------------------------------------------------------
(* The streams of events.                                                   *)

\* The numbers of s increase.
InOrder(s) == \A i, j \in DOMAIN s : i < j => s[i] < s[j]

\* A sequence in order repeats nothing: it has as many elements as places.
LEMMA OrderedAreDistinct ==
  ASSUME NEW s \in Seq(Nat), InOrder(s)
  PROVE  IsFiniteSet(ToSet(s)) /\ Cardinality(ToSet(s)) = Len(s)
<1>1. s \in Bijection(1 .. Len(s), ToSet(s))
  <2>1. DOMAIN s = 1 .. Len(s) /\ Len(s) \in Nat
    OBVIOUS
  <2>2. s \in [1 .. Len(s) -> ToSet(s)]
    BY <2>1 DEF ToSet
  <2>3. \A i, j \in 1 .. Len(s) : s[i] = s[j] => i = j
    BY <2>1 DEF InOrder
  <2> QED
    BY <2>1, <2>2, <2>3 DEF ToSet, Bijection, Injection, Surjection, IsInjective
<1>2. IsFiniteSet(1 .. Len(s)) /\ Cardinality(1 .. Len(s)) = Len(s)
  <2>1. Len(s) \in Int /\ 1 \in Int /\ Len(s) >= 0
    OBVIOUS
  <2>2. IsFiniteSet(1 .. Len(s)) /\ Cardinality(1 .. Len(s)) = IF 1 > Len(s) THEN 0 ELSE Len(s) - 1 + 1
    BY <2>1, FS_Interval
  <2> QED
    BY <2>1, <2>2
<1> QED
  BY <1>1, <1>2, FS_Bijection DEF ExistsBijection

\* A sequence has finitely many elements.
LEMMA OrderedFinite ==
  ASSUME NEW s \in Seq(Nat)
  PROVE  IsFiniteSet(ToSet(s))
<1>1. s \in Surjection(1 .. Len(s), ToSet(s))
  BY DEF ToSet, Surjection
<1>2. IsFiniteSet(1 .. Len(s))
  <2>1. Len(s) \in Int /\ 1 \in Int
    OBVIOUS
  <2> QED
    BY <2>1, FS_Interval
<1> QED
  BY <1>1, <1>2, FS_Surjection

\* What Append does, place by place.
LEMMA Appended ==
  ASSUME NEW s \in Seq(Nat), NEW e \in Nat
  PROVE  /\ DOMAIN s = 1 .. Len(s) /\ DOMAIN Append(s, e) = 1 .. Len(s) + 1 /\ Len(s) \in Nat
         /\ \A i \in 1 .. Len(s) : Append(s, e)[i] = s[i]
         /\ Append(s, e)[Len(s) + 1] = e
OBVIOUS

\* What Head and Tail return, place by place.
LEMMA HeadAndTail ==
  ASSUME NEW s \in Seq(Nat), s # << >>
  PROVE  /\ DOMAIN s = 1 .. Len(s) /\ DOMAIN Tail(s) = 1 .. Len(s) - 1 /\ Len(s) \in Nat \ {0}
         /\ \A i \in 1 .. Len(s) - 1 : Tail(s)[i] = s[i + 1]
         /\ Head(s) = s[1] /\ Tail(s) \in Seq(Nat) /\ Len(Tail(s)) = Len(s) - 1
OBVIOUS

\* A greater number may follow a sequence in order.
LEMMA OrderedAppend ==
  ASSUME NEW s \in Seq(Nat), InOrder(s), NEW e \in Nat, \A x \in ToSet(s) : x < e
  PROVE  InOrder(Append(s, e))
<1>1. \A i \in 1 .. Len(s) : s[i] < e
  BY Appended DEF ToSet
<1> QED
  BY <1>1, Appended DEF InOrder

\* The rest of a sequence in order is in order, and follows its head.
LEMMA OrderedTail ==
  ASSUME NEW s \in Seq(Nat), InOrder(s), s # << >>
  PROVE  InOrder(Tail(s)) /\ \A x \in ToSet(Tail(s)) : Head(s) < x
<1>1. InOrder(Tail(s))
  BY HeadAndTail DEF InOrder
<1>2. \A i \in 1 .. Len(s) - 1 : Head(s) < Tail(s)[i]
  BY HeadAndTail DEF InOrder
<1> QED
  BY <1>1, <1>2, HeadAndTail DEF ToSet

\* The elements of a sequence of numbers are numbers.
LEMMA OrderedNaturals == \A s \in Seq(Nat) : ToSet(s) \subseteq Nat
BY DEF ToSet

\* Append adds one element.
LEMMA AppendedSet ==
  ASSUME NEW s \in Seq(Nat), NEW e \in Nat
  PROVE  ToSet(Append(s, e)) = ToSet(s) \cup {e}
<1>1. /\ DOMAIN s = 1 .. Len(s) /\ DOMAIN Append(s, e) = 1 .. Len(s) + 1 /\ Len(s) \in Nat
      /\ \A i \in 1 .. Len(s) : Append(s, e)[i] = s[i]
      /\ Append(s, e)[Len(s) + 1] = e
  OBVIOUS
<1>2. ASSUME NEW x \in ToSet(Append(s, e))
      PROVE  x \in ToSet(s) \cup {e}
  <2>1. PICK i \in 1 .. Len(s) + 1 : x = Append(s, e)[i]
    BY <1>1 DEF ToSet
  <2> QED
    BY <1>1, <2>1 DEF ToSet
<1>3. ASSUME NEW x \in ToSet(s)
      PROVE  x \in ToSet(Append(s, e))
  <2>1. PICK i \in 1 .. Len(s) : x = s[i]
    BY <1>1 DEF ToSet
  <2>2. i \in 1 .. Len(s) + 1 /\ x = Append(s, e)[i]
    BY <1>1, <2>1
  <2> QED
    BY <1>1, <2>2 DEF ToSet
<1>4. e \in ToSet(Append(s, e))
  <2>1. Len(s) + 1 \in 1 .. Len(s) + 1
    BY <1>1
  <2> QED
    BY <1>1, <2>1 DEF ToSet
<1> QED
  BY <1>2, <1>3, <1>4

\* A sequence is made of its head and of its tail.
LEMMA HeadAndTailSet ==
  ASSUME NEW s \in Seq(Nat), s # << >>
  PROVE  ToSet(s) = {Head(s)} \cup ToSet(Tail(s))
<1>1. /\ DOMAIN s = 1 .. Len(s) /\ DOMAIN Tail(s) = 1 .. Len(s) - 1 /\ Len(s) \in Nat \ {0}
      /\ \A i \in 1 .. Len(s) - 1 : Tail(s)[i] = s[i + 1]
      /\ Head(s) = s[1]
  OBVIOUS
<1>2. ASSUME NEW x \in ToSet(s)
      PROVE  x \in {Head(s)} \cup ToSet(Tail(s))
  <2>1. PICK i \in 1 .. Len(s) : x = s[i]
    BY <1>1 DEF ToSet
  <2>2. CASE i = 1
    BY <1>1, <2>1, <2>2
  <2>3. CASE i # 1
    <3>1. i - 1 \in 1 .. Len(s) - 1 /\ x = Tail(s)[i - 1]
      BY <1>1, <2>1, <2>3
    <3> QED
      BY <1>1, <3>1 DEF ToSet
  <2> QED
    BY <2>2, <2>3
<1>3. ASSUME NEW x \in ToSet(Tail(s))
      PROVE  x \in ToSet(s)
  <2>1. PICK i \in 1 .. Len(s) - 1 : x = Tail(s)[i]
    BY <1>1 DEF ToSet
  <2>2. i + 1 \in 1 .. Len(s) /\ x = s[i + 1]
    BY <1>1, <2>1
  <2> QED
    BY <1>1, <2>2 DEF ToSet
<1>4. Head(s) \in ToSet(s)
  <2>1. 1 \in 1 .. Len(s)
    BY <1>1
  <2> QED
    BY <1>1, <2>1 DEF ToSet
<1> QED
  BY <1>2, <1>3, <1>4

\* The types of the state.
Connections == {"off", "granted", "open", "lost", "left"}
ClientRecords == [link: Connections, filter: StreamFilters, queue: Seq(Nat), seen: Seq(Nat), due: Seq(Nat)]

\* A client is due nothing that was not emitted yet.
InTime(k, n) == \A d \in ToSet(k.due) : d <= n

\* What a client read came before what waits for it, each in the order of emission.
OneAfterTheOther(k) ==
  /\ InOrder(k.seen) /\ InOrder(k.queue)
  /\ \A x \in ToSet(k.seen), y \in ToSet(k.queue) : x < y

\* What a client read, or can still read.
GotSet(k) == ToSet(k.seen) \cup ToSet(k.queue)

\* A client misses an event only when QueueMax newer ones were enqueued for it.
MissedForNewer(k) ==
  /\ GotSet(k) \subseteq ToSet(k.due)
  /\ \A e \in ToSet(k.due) \ GotSet(k) : Cardinality({d \in ToSet(k.due) : d > e}) >= QueueMax

\* What the hub owes one client that has not left.
KeepsOrder(k, n) ==
  /\ Len(k.queue) <= QueueMax
  /\ InTime(k, n) /\ OneAfterTheOther(k) /\ MissedForNewer(k)

\* The inductive invariant of the hub.
HubInv ==
  /\ emissions \in Seq(StreamFilters) /\ fanned \in Nat
  /\ client \in [Subscribers -> ClientRecords]
  /\ \A c \in Subscribers : client[c].link # "left" => KeepsOrder(client[c], fanned)

\* A queue has room for one event at least.
LEMMA QueueBound == QueueMax \in Nat \ {0}
BY HubAssumption

\* put_nowait on a queue with room: the event is added at its end.
LEMMA EnqueuedInTheRoom ==
  ASSUME NEW q \in Seq(Nat), InOrder(q), Len(q) < QueueMax, NEW e \in Nat, \A x \in ToSet(q) : x < e
  PROVE  /\ Enqueue(q, e) \in Seq(Nat) /\ Len(Enqueue(q, e)) <= QueueMax
         /\ InOrder(Enqueue(q, e)) /\ ToSet(Enqueue(q, e)) = ToSet(q) \cup {e}
<1>1. Enqueue(q, e) = Append(q, e)
  BY QueueBound DEF Enqueue
<1>2. Append(q, e) \in Seq(Nat) /\ Len(Append(q, e)) <= QueueMax
  BY QueueBound
<1>3. InOrder(Append(q, e))
  BY OrderedAppend
<1>4. ToSet(Append(q, e)) = ToSet(q) \cup {e}
  BY AppendedSet
<1> QED
  BY <1>1, <1>2, <1>3, <1>4

\* put_nowait on a full queue: the oldest event makes room for the newest.
LEMMA EnqueuedForTheOldest ==
  ASSUME NEW q \in Seq(Nat), InOrder(q), Len(q) = QueueMax, NEW e \in Nat, \A x \in ToSet(q) : x < e
  PROVE  /\ Enqueue(q, e) \in Seq(Nat) /\ Len(Enqueue(q, e)) = QueueMax
         /\ InOrder(Enqueue(q, e)) /\ \A x \in ToSet(Enqueue(q, e)) : Head(q) < x
         /\ ToSet(q) \cup {e} = ToSet(Enqueue(q, e)) \cup {Head(q)}
<1>1. Enqueue(q, e) = Append(Tail(q), e)
  BY QueueBound DEF Enqueue
<1>2. q # << >>
  BY QueueBound
<1>3. Tail(q) \in Seq(Nat) /\ Len(Tail(q)) = QueueMax - 1 /\ Head(q) \in Nat
  BY <1>2, QueueBound, HeadTailProperties
<1>4. InOrder(Tail(q)) /\ \A x \in ToSet(Tail(q)) : Head(q) < x
  BY <1>2, OrderedTail
<1>5. ToSet(q) = {Head(q)} \cup ToSet(Tail(q))
  BY <1>2, HeadAndTailSet
<1>6. \A x \in ToSet(Tail(q)) : x < e
  BY <1>5
<1>7. InOrder(Append(Tail(q), e))
  BY <1>3, <1>4, <1>6, OrderedAppend
<1>8. ToSet(Append(Tail(q), e)) = ToSet(Tail(q)) \cup {e}
  BY <1>3, AppendedSet
<1>9. Append(Tail(q), e) \in Seq(Nat) /\ Len(Append(Tail(q), e)) = QueueMax
  BY <1>3, QueueBound
<1>10. Head(q) < e
  BY <1>5
<1> QED
  BY <1>1, <1>4, <1>5, <1>7, <1>8, <1>9, <1>10

\* Events of a client that are newer than e count among the newer ones due to it.
LEMMA LaterCount ==
  ASSUME NEW k \in ClientRecords, NEW e, NEW D \in SUBSET ToSet(k.due), \A d \in D : d > e
  PROVE  Cardinality(D) <= Cardinality({d \in ToSet(k.due) : d > e})
<1>1. IsFiniteSet(ToSet(k.due))
  BY OrderedFinite DEF ClientRecords
<1>2. IsFiniteSet({d \in ToSet(k.due) : d > e})
  BY <1>1, FS_Subset
<1>3. D \in SUBSET {d \in ToSet(k.due) : d > e}
  OBVIOUS
<1> QED
  BY <1>2, <1>3, FS_Subset

\* What was overtaken by QueueMax events stays so when more become due.
LEMMA LaterStay ==
  ASSUME NEW k \in ClientRecords, NEW m \in ClientRecords, ToSet(k.due) \subseteq ToSet(m.due), NEW x,
         Cardinality({d \in ToSet(k.due) : d > x}) >= QueueMax
  PROVE  Cardinality({d \in ToSet(m.due) : d > x}) >= QueueMax
<1>1. {d \in ToSet(k.due) : d > x} \in SUBSET ToSet(m.due)
  OBVIOUS
<1>2. Cardinality({d \in ToSet(k.due) : d > x}) <= Cardinality({d \in ToSet(m.due) : d > x})
  BY <1>1, LaterCount
<1>3. IsFiniteSet(ToSet(k.due)) /\ IsFiniteSet(ToSet(m.due))
  BY OrderedFinite DEF ClientRecords
<1>4. /\ IsFiniteSet({d \in ToSet(k.due) : d > x}) 
      /\ IsFiniteSet({d \in ToSet(m.due) : d > x})
  BY <1>3, FS_Subset
<1>5. /\ Cardinality({d \in ToSet(k.due) : d > x}) \in Nat
      /\ Cardinality({d \in ToSet(m.due) : d > x}) \in Nat
  BY <1>4, FS_CardinalityType
<1> QED
  BY <1>2, <1>5, QueueBound

\* An event fanned out to a client keeps its order, whether the queue is full or not.
LEMMA EventDelivered ==
  ASSUME NEW k \in ClientRecords, NEW n \in Nat, KeepsOrder(k, n), NEW m,
         m = [k EXCEPT !.queue = Enqueue(@, n + 1), !.due = Append(@, n + 1)]
  PROVE  m \in ClientRecords /\ KeepsOrder(m, n + 1)
<1> DEFINE e == n + 1
<1>1. /\ k.queue \in Seq(Nat) /\ k.seen \in Seq(Nat) /\ k.due \in Seq(Nat) /\ e \in Nat
      /\ m.queue = Enqueue(k.queue, e) /\ m.seen = k.seen /\ m.due = Append(k.due, e)
      /\ Append(k.due, e) \in Seq(Nat)
  BY DEF ClientRecords
<1>2. InOrder(k.queue) /\ Len(k.queue) \in Nat /\ Len(k.queue) <= QueueMax
  BY <1>1 DEF KeepsOrder, OneAfterTheOther
<1>3. ToSet(m.due) = ToSet(k.due) \cup {e}
  BY <1>1, AppendedSet
<1>4. \A d \in ToSet(k.due) : d < e
  BY <1>1, OrderedNaturals DEF KeepsOrder, InTime
<1>5. /\ \A x \in ToSet(k.seen) : x < e
      /\ \A x \in ToSet(k.queue) : x < e
  BY <1>4 DEF KeepsOrder, MissedForNewer, GotSet
<1>6. CASE Len(k.queue) < QueueMax
  <2>1. /\ m.queue \in Seq(Nat) /\ Len(m.queue) <= QueueMax
        /\ InOrder(m.queue) /\ ToSet(m.queue) = ToSet(k.queue) \cup {e}
    BY <1>1, <1>2, <1>5, <1>6, EnqueuedInTheRoom
  <2>2. m \in ClientRecords
    <3>1. Enqueue(k.queue, e) \in Seq(Nat)
      BY <1>1, <2>1
    <3> HIDE DEF e
    <3> QED
      BY <1>1, <3>1 DEF ClientRecords, e
  <2>3. InTime(m, e)
    BY <1>1, <1>3, <1>4, OrderedNaturals DEF InTime
  <2>4. OneAfterTheOther(m)
    BY <1>1, <1>5, <2>1 DEF KeepsOrder, OneAfterTheOther
  <2>5. GotSet(m) = GotSet(k) \cup {e}
    BY <1>1, <2>1 DEF GotSet
  <2>6. ASSUME NEW x \in ToSet(m.due) \ GotSet(m)
        PROVE  Cardinality({d \in ToSet(m.due) : d > x}) >= QueueMax
    <3>1. x \in ToSet(k.due) \ GotSet(k)
      BY <1>3, <2>5, <2>6
    <3> QED
      BY <1>3, <2>2, <3>1, LaterStay DEF KeepsOrder, MissedForNewer
  <2> QED
    BY <1>3, <2>1, <2>2, <2>3, <2>4, <2>5, <2>6 DEF KeepsOrder, MissedForNewer
<1>7. CASE Len(k.queue) = QueueMax
  <2>1. /\ m.queue \in Seq(Nat) /\ Len(m.queue) = QueueMax /\ InOrder(m.queue)
        /\ \A x \in ToSet(m.queue) : Head(k.queue) < x
        /\ ToSet(k.queue) \cup {e} = ToSet(m.queue) \cup {Head(k.queue)}
    BY <1>1, <1>2, <1>5, <1>7, EnqueuedForTheOldest
  <2>2. m \in ClientRecords
    <3>1. Enqueue(k.queue, e) \in Seq(Nat)
      BY <1>1, <2>1
    <3> HIDE DEF e
    <3> QED
      BY <1>1, <3>1 DEF ClientRecords, e
  <2>3. InTime(m, e)
    BY <1>1, <1>3, <1>4, OrderedNaturals DEF InTime
  <2>4. OneAfterTheOther(m)
    <3>1. \A y \in ToSet(m.queue) : y \in ToSet(k.queue) \/ y = e
      BY <2>1
    <3> QED
      BY <1>1, <1>5, <2>1, <3>1 DEF KeepsOrder, OneAfterTheOther
  <2>5. GotSet(k) \cup {e} = GotSet(m) \cup {Head(k.queue)}
    BY <1>1, <2>1 DEF GotSet
  <2>6. ASSUME NEW x \in ToSet(m.due) \ GotSet(m)
        PROVE  Cardinality({d \in ToSet(m.due) : d > x}) >= QueueMax
    <3>1. CASE x = Head(k.queue)
      <4>1. ToSet(m.queue) \in SUBSET ToSet(m.due)
        BY <1>3, <2>1 DEF KeepsOrder, MissedForNewer, GotSet
      <4>2. \A d \in ToSet(m.queue) : d > x
        BY <2>1, <3>1
      <4>3. Cardinality(ToSet(m.queue)) = QueueMax
        BY <2>1, OrderedAreDistinct
      <4>4. Cardinality(ToSet(m.queue)) <= Cardinality({d \in ToSet(m.due) : d > x})
        BY <2>2, <4>1, <4>2, LaterCount
      <4> QED
        BY <4>3, <4>4
    <3>2. CASE x # Head(k.queue)
      <4>1. x \in ToSet(k.due) \ GotSet(k)
        BY <1>3, <2>5, <2>6, <3>2
      <4> QED
        BY <1>3, <2>2, <4>1, LaterStay DEF KeepsOrder, MissedForNewer
    <3> QED
      BY <3>1, <3>2
  <2>7. GotSet(m) \subseteq ToSet(m.due)
    BY <1>3, <2>5 DEF KeepsOrder, MissedForNewer
  <2> QED
    BY <2>1, <2>2, <2>3, <2>4, <2>6, <2>7, QueueBound DEF KeepsOrder, MissedForNewer
<1> QED
  BY <1>2, <1>6, <1>7, QueueBound

\* A client that reads its oldest event keeps its order.
LEMMA EventReceived ==
  ASSUME NEW k \in ClientRecords, NEW n \in Nat, KeepsOrder(k, n), k.queue # << >>, NEW m,
         m = [k EXCEPT !.queue = Tail(@), !.seen = Append(@, Head(k.queue))]
  PROVE  m \in ClientRecords /\ KeepsOrder(m, n)
<1>1. /\ k.queue \in Seq(Nat) /\ k.seen \in Seq(Nat) /\ k.due \in Seq(Nat)
      /\ m.queue = Tail(k.queue) /\ m.seen = Append(k.seen, Head(k.queue)) /\ m.due = k.due
  BY DEF ClientRecords
<1>2. /\ Head(k.queue) \in Nat /\ Tail(k.queue) \in Seq(Nat)
      /\ Len(Tail(k.queue)) <= Len(k.queue) /\ Len(k.queue) \in Nat
  BY <1>1, HeadTailProperties
<1>3. Append(k.seen, Head(k.queue)) \in Seq(Nat)
  BY <1>1, <1>2
<1>4. ToSet(m.seen) = ToSet(k.seen) \cup {Head(k.queue)}
  BY <1>1, <1>2, AppendedSet
<1>5. ToSet(k.queue) = {Head(k.queue)} \cup ToSet(m.queue)
  BY <1>1, HeadAndTailSet
<1>6. GotSet(m) = GotSet(k)
  BY <1>4, <1>5 DEF GotSet
<1>7. m \in ClientRecords
  BY <1>1, <1>2, <1>3 DEF ClientRecords
<1>8. OneAfterTheOther(m)
  <2>1. InOrder(m.queue) /\ \A x \in ToSet(m.queue) : Head(k.queue) < x
    BY <1>1, OrderedTail DEF KeepsOrder, OneAfterTheOther
  <2>2. \A x \in ToSet(k.seen) : x < Head(k.queue)
    BY <1>5 DEF KeepsOrder, OneAfterTheOther
  <2>3. InOrder(m.seen)
    BY <1>1, <1>2, <2>2, OrderedAppend DEF KeepsOrder, OneAfterTheOther
  <2> QED
    BY <1>4, <1>5, <2>1, <2>3 DEF KeepsOrder, OneAfterTheOther
<1>9. Len(m.queue) <= QueueMax
  BY <1>1, <1>2, QueueBound DEF KeepsOrder
<1> QED
  BY <1>1, <1>6, <1>7, <1>8, <1>9 DEF KeepsOrder, InTime, MissedForNewer

\* A client whose queue and history stay keeps its order, at the next emission too.
LEMMA SameHistory ==
  ASSUME NEW k \in ClientRecords, NEW n \in Nat, KeepsOrder(k, n), NEW m \in ClientRecords,
         m.queue = k.queue, m.seen = k.seen, m.due = k.due
  PROVE  KeepsOrder(m, n) /\ KeepsOrder(m, n + 1)
<1>1. \A d \in ToSet(k.due) : d <= n + 1
  BY OrderedNaturals DEF KeepsOrder, InTime, ClientRecords
<1> QED
  BY <1>1 DEF KeepsOrder, InTime, OneAfterTheOther, MissedForNewer, GotSet

\* A hub nobody has joined keeps every order.
LEMMA HubInitial == HubInit => HubInv
<1> SUFFICES ASSUME HubInit PROVE HubInv
  OBVIOUS
<1>1. ToSet(<< >>) = {}
  BY DEF ToSet
<1>2. NoClient \in ClientRecords
  BY DEF NoClient, ClientRecords, Connections, StreamFilters
<1>3. KeepsOrder(NoClient, 0)
  BY <1>1, QueueBound DEF NoClient, KeepsOrder, InTime, OneAfterTheOther, MissedForNewer, GotSet, InOrder
<1> QED
  BY <1>2, <1>3 DEF HubInit, HubInv

\* A step that changes one client, and leaves it in order, keeps the invariant.
LEMMA HubChange ==
  ASSUME HubInv, NEW c \in Subscribers, NEW new \in ClientRecords, Change(c, new),
         new.link # "left" => KeepsOrder(new, fanned)
  PROVE  HubInv'
<1>1. client' \in [Subscribers -> ClientRecords]
  BY DEF HubInv, Change
<1>2. ASSUME NEW d \in Subscribers, client'[d].link # "left"
      PROVE  KeepsOrder(client'[d], fanned)
  <2>1. client'[d] = IF d = c THEN new ELSE client[d]
    BY DEF HubInv, Change
  <2> QED
    BY <1>2, <2>1 DEF HubInv
<1> QED
  BY <1>1, <1>2 DEF HubInv, Change

\* Every step of emitters, consumer, transport and clients keeps the invariant.
LEMMA HubStep == HubInv /\ [HubNext]_hubVars => HubInv'
<1> SUFFICES ASSUME HubInv, [HubNext]_hubVars PROVE HubInv'
  OBVIOUS
<1>0. /\ emissions \in Seq(StreamFilters) /\ fanned \in Nat /\ client \in [Subscribers -> ClientRecords]
      /\ \A c \in Subscribers : client[c].link # "left" => KeepsOrder(client[c], fanned)
  BY DEF HubInv
<1>1. CASE HandleDomainEvent
  BY <1>0, <1>1 DEF HandleDomainEvent, HubInv
<1>2. CASE Broadcast
  <2> DEFINE e == fanned + 1
  <2>1. emissions' = emissions /\ fanned' = e
    BY <1>2 DEF Broadcast
  <2>2. ASSUME NEW c \in Subscribers
        PROVE  /\ client'[c] \in ClientRecords
               /\ client'[c].link # "left" => KeepsOrder(client'[c], e)
    <3>1. CASE SubscribedTo(c) /\ Matches(client[c].filter, emissions[e])
      <4>1. client'[c] = [client[c] EXCEPT !.queue = Enqueue(@, e), !.due = Append(@, e)]
        BY <1>2, <3>1 DEF Broadcast
      <4>2. client[c] \in ClientRecords /\ KeepsOrder(client[c], fanned)
        BY <1>0, <3>1 DEF SubscribedTo
      <4> HIDE DEF e
      <4> QED
        BY <1>0, <4>1, <4>2, EventDelivered DEF e
    <3>2. CASE ~(SubscribedTo(c) /\ Matches(client[c].filter, emissions[e]))
      <4>1. client'[c] = client[c]
        BY <1>2, <3>2 DEF Broadcast
      <4> QED
        BY <1>0, <4>1, SameHistory
    <3> QED
      BY <3>1, <3>2
  <2>3. client' \in [Subscribers -> ClientRecords]
    BY <1>2, <2>2 DEF Broadcast
  <2> QED
    BY <1>0, <2>1, <2>2, <2>3 DEF HubInv
<1>3. ASSUME NEW c \in Subscribers, Register(c)
      PROVE  HubInv'
  <2>1. client[c].link = "off" /\ client[c] \in ClientRecords
    BY <1>0, <1>3 DEF Register
  <2>2. CASE \E f \in StreamFilters : Change(c, [client[c] EXCEPT !.link = "granted", !.filter = f])
    <3>1. PICK f \in StreamFilters : Change(c, [client[c] EXCEPT !.link = "granted", !.filter = f])
      BY <2>2
    <3> DEFINE new == [client[c] EXCEPT !.link = "granted", !.filter = f]
    <3>2. /\ new \in ClientRecords
          /\ new.queue = client[c].queue /\ new.seen = client[c].seen /\ new.due = client[c].due
      BY <2>1 DEF ClientRecords, Connections
    <3>3. KeepsOrder(new, fanned)
      BY <1>0, <2>1, <3>2, SameHistory
    <3> QED
      BY <3>1, <3>2, <3>3, HubChange
  <2>3. CASE Change(c, [client[c] EXCEPT !.link = "open"])
    <3> DEFINE new == [client[c] EXCEPT !.link = "open"]
    <3>2. /\ new \in ClientRecords
          /\ new.queue = client[c].queue /\ new.seen = client[c].seen /\ new.due = client[c].due
      BY <2>1 DEF ClientRecords, Connections
    <3>3. KeepsOrder(new, fanned)
      BY <1>0, <2>1, <3>2, SameHistory
    <3> QED
      BY <2>3, <3>2, <3>3, HubChange
  <2> QED
    BY <1>3, <2>2, <2>3 DEF Register
<1>4. ASSUME NEW c \in Subscribers, StartGenerator(c)
      PROVE  HubInv'
  <2> DEFINE new == [client[c] EXCEPT !.link = "open"]
  <2>1. client[c].link = "granted" /\ client[c] \in ClientRecords /\ Change(c, new)
    BY <1>0, <1>4 DEF StartGenerator
  <2>2. /\ new \in ClientRecords
        /\ new.queue = client[c].queue /\ new.seen = client[c].seen /\ new.due = client[c].due
    BY <2>1 DEF ClientRecords, Connections
  <2>3. KeepsOrder(new, fanned)
    BY <1>0, <2>1, <2>2, SameHistory
  <2> QED
    BY <2>1, <2>2, <2>3, HubChange
<1>5. ASSUME NEW c \in Subscribers, Receive(c)
      PROVE  HubInv'
  <2> DEFINE new == [client[c] EXCEPT !.queue = Tail(@), !.seen = Append(@, Head(client[c].queue))]
  <2>1. /\ client[c].link = "open" /\ client[c].queue # << >> /\ client[c] \in ClientRecords
        /\ Change(c, new)
    BY <1>0, <1>5 DEF Receive
  <2>2. KeepsOrder(client[c], fanned)
    BY <1>0, <2>1
  <2>3. new \in ClientRecords /\ KeepsOrder(new, fanned)
    BY <1>0, <2>1, <2>2, EventReceived
  <2> QED
    BY <2>1, <2>3, HubChange
<1>6. ASSUME NEW c \in Subscribers, UpdateFilter(c)
      PROVE  HubInv'
  <2>1. PICK f \in StreamFilters : Change(c, [client[c] EXCEPT !.filter = f])
    BY <1>6 DEF UpdateFilter
  <2> DEFINE new == [client[c] EXCEPT !.filter = f]
  <2>2. client[c].link = "open" /\ client[c] \in ClientRecords
    BY <1>0, <1>6 DEF UpdateFilter
  <2>3. /\ new \in ClientRecords
        /\ new.queue = client[c].queue /\ new.seen = client[c].seen /\ new.due = client[c].due
    BY <2>2 DEF ClientRecords
  <2>4. KeepsOrder(new, fanned)
    BY <1>0, <2>2, <2>3, SameHistory
  <2> QED
    BY <2>1, <2>3, <2>4, HubChange
<1>7. ASSUME NEW c \in Subscribers, Leave(c)
      PROVE  HubInv'
  <2>1. client[c] \in ClientRecords
    BY <1>0
  <2>2. CASE client[c].link = "open" /\ Change(c, [client[c] EXCEPT !.link = "left", !.queue = << >>])
    <3> DEFINE new == [client[c] EXCEPT !.link = "left", !.queue = << >>]
    <3>1. new \in ClientRecords /\ new.link = "left"
      <4>1. << >> \in Seq(Nat)
        OBVIOUS
      <4> QED
        BY <2>1, <4>1 DEF ClientRecords, Connections
    <3> QED
      BY <2>2, <3>1, HubChange
  <2>3. CASE client[c].link = "granted" /\ Change(c, [client[c] EXCEPT !.link = "lost"])
    <3> DEFINE new == [client[c] EXCEPT !.link = "lost"]
    <3>1. /\ new \in ClientRecords
          /\ new.queue = client[c].queue /\ new.seen = client[c].seen /\ new.due = client[c].due
      BY <2>1 DEF ClientRecords, Connections
    <3>2. KeepsOrder(new, fanned)
      BY <1>0, <2>1, <2>3, <3>1, SameHistory
    <3> QED
      BY <2>3, <3>1, <3>2, HubChange
  <2> QED
    BY <1>7, <2>2, <2>3 DEF Leave
<1>8. CASE UNCHANGED hubVars
  BY <1>0, <1>8 DEF hubVars, HubInv
<1> QED
  BY <1>1, <1>2, <1>3, <1>4, <1>5, <1>6, <1>7, <1>8 DEF HubNext

\* What concatenation does, place by place.
LEMMA Concatenated ==
  ASSUME NEW s \in Seq(Nat), NEW q \in Seq(Nat)
  PROVE  /\ Len(s) \in Nat /\ Len(q) \in Nat /\ DOMAIN s = 1 .. Len(s) /\ DOMAIN q = 1 .. Len(q)
         /\ DOMAIN (s \o q) = 1 .. (Len(s) + Len(q))
         /\ \A i \in 1 .. Len(s) : (s \o q)[i] = s[i]
         /\ \A i \in 1 .. Len(q) : (s \o q)[Len(s) + i] = q[i]
<1>1. /\ s \o q \in Seq(Nat) /\ Len(s \o q) = Len(s) + Len(q) /\ Len(s) \in Nat /\ Len(q) \in Nat
      /\ \A i \in 1 .. Len(s) + Len(q) : (s \o q)[i] = IF i <= Len(s) THEN s[i] ELSE q[i - Len(s)]
  BY ConcatProperties
<1>2. DOMAIN s = 1 .. Len(s) /\ DOMAIN q = 1 .. Len(q) /\ DOMAIN (s \o q) = 1 .. (Len(s) + Len(q))
  BY <1>1, LenProperties
<1>3. \A i \in 1 .. Len(s) : (s \o q)[i] = s[i]
  BY <1>1
<1>4. ASSUME NEW i \in 1 .. Len(q)
      PROVE  (s \o q)[Len(s) + i] = q[i]
  <2>1. Len(s) + i \in 1 .. Len(s) + Len(q) /\ ~(Len(s) + i <= Len(s)) /\ (Len(s) + i) - Len(s) = i
    BY <1>1
  <2> QED
    BY <1>1, <2>1
<1> QED
  BY <1>1, <1>2, <1>3, <1>4

\* Concatenation adds no element.
LEMMA ConcatenatedSet ==
  ASSUME NEW s \in Seq(Nat), NEW q \in Seq(Nat)
  PROVE  ToSet(s \o q) = ToSet(s) \cup ToSet(q)
<1>1. PICK got : got = s \o q
  OBVIOUS
<1>2. /\ Len(s) \in Nat /\ Len(q) \in Nat /\ DOMAIN s = 1 .. Len(s) /\ DOMAIN q = 1 .. Len(q)
      /\ DOMAIN got = 1 .. (Len(s) + Len(q))
      /\ \A i \in 1 .. Len(s) : got[i] = s[i]
      /\ \A i \in 1 .. Len(q) : got[Len(s) + i] = q[i]
  BY <1>1, Concatenated
<1>3. ASSUME NEW x \in ToSet(got)
      PROVE  x \in ToSet(s) \cup ToSet(q)
  <2>1. PICK i \in 1 .. (Len(s) + Len(q)) : x = got[i]
    BY <1>2 DEF ToSet
  <2>2. CASE i <= Len(s)
    BY <1>2, <2>1, <2>2 DEF ToSet
  <2>3. CASE i > Len(s)
    <3>1. i - Len(s) \in 1 .. Len(q) /\ Len(s) + (i - Len(s)) = i
      BY <1>2, <2>3
    <3>2. x = q[i - Len(s)]
      BY <1>2, <2>1, <3>1
    <3> QED
      BY <1>2, <3>1, <3>2 DEF ToSet
  <2> QED
    BY <1>2, <2>2, <2>3
<1>4. ASSUME NEW x \in ToSet(s)
      PROVE  x \in ToSet(got)
  <2>1. PICK i \in 1 .. Len(s) : x = s[i]
    BY <1>2 DEF ToSet
  <2>2. i \in 1 .. (Len(s) + Len(q)) /\ x = got[i]
    BY <1>2, <2>1
  <2> QED
    BY <1>2, <2>2 DEF ToSet
<1>5. ASSUME NEW x \in ToSet(q)
      PROVE  x \in ToSet(got)
  <2>1. PICK i \in 1 .. Len(q) : x = q[i]
    BY <1>2 DEF ToSet
  <2>2. Len(s) + i \in 1 .. (Len(s) + Len(q)) /\ x = got[Len(s) + i]
    BY <1>2, <2>1
  <2> QED
    BY <1>2, <2>2 DEF ToSet
<1> QED
  BY <1>1, <1>3, <1>4, <1>5

\* Two sequences in order, one before the other, are in order together.
LEMMA ConcatenatedInOrder ==
  ASSUME NEW s \in Seq(Nat), NEW q \in Seq(Nat), InOrder(s), InOrder(q),
         \A x \in ToSet(s), y \in ToSet(q) : x < y
  PROVE  InOrder(s \o q)
<1>1. PICK got : got = s \o q
  OBVIOUS
<1>2. /\ Len(s) \in Nat /\ Len(q) \in Nat /\ DOMAIN s = 1 .. Len(s) /\ DOMAIN q = 1 .. Len(q)
      /\ DOMAIN got = 1 .. (Len(s) + Len(q))
      /\ \A i \in 1 .. Len(s) : got[i] = s[i]
      /\ \A i \in 1 .. Len(q) : got[Len(s) + i] = q[i]
  BY <1>1, Concatenated
<1>3. ASSUME NEW i \in 1 .. (Len(s) + Len(q)), i > Len(s)
      PROVE  i - Len(s) \in 1 .. Len(q) /\ got[i] = q[i - Len(s)]
  <2>1. i - Len(s) \in 1 .. Len(q) /\ Len(s) + (i - Len(s)) = i
    BY <1>2, <1>3
  <2> QED
    BY <1>2, <2>1
<1>4. ASSUME NEW i \in DOMAIN got, NEW j \in DOMAIN got, i < j
      PROVE  got[i] < got[j]
  <2>1. CASE j <= Len(s)
    BY <1>2, <1>4, <2>1 DEF InOrder
  <2>2. CASE i > Len(s)
    <3>1. /\ i - Len(s) \in DOMAIN q /\ got[i] = q[i - Len(s)]
          /\ j - Len(s) \in DOMAIN q /\ got[j] = q[j - Len(s)] /\ i - Len(s) < j - Len(s)
      BY <1>2, <1>3, <1>4, <2>2
    <3> QED
      BY <3>1 DEF InOrder
  <2>3. CASE i <= Len(s) /\ j > Len(s)
    <3>1. got[i] \in ToSet(s)
      BY <1>2, <2>3 DEF ToSet
    <3>2. j - Len(s) \in DOMAIN q /\ got[j] = q[j - Len(s)]
      BY <1>2, <1>3, <2>3
    <3>3. got[j] \in ToSet(q)
      BY <3>2 DEF ToSet
    <3> QED
      BY <3>1, <3>3
  <2> QED
    BY <1>2, <1>4, <2>1, <2>2, <2>3
<1> QED
  BY <1>1, <1>4 DEF InOrder

\* The invariant contains what the runs check.
LEMMA HubInvIsEnough == HubInv => StreamsInOrder
<1> SUFFICES ASSUME HubInv, NEW c \in Subscribers, client[c].link # "left"
             PROVE  LET got == client[c].seen \o client[c].queue
                        missed == ToSet(client[c].due) \ ToSet(got) IN
                    /\ Len(client[c].queue) <= QueueMax
                    /\ \A i, j \in DOMAIN got : i < j => got[i] < got[j]
                    /\ \A e \in missed : Cardinality({d \in ToSet(client[c].due) : d > e}) >= QueueMax
  BY DEF StreamsInOrder
<1>1. client[c] \in ClientRecords /\ KeepsOrder(client[c], fanned)
  BY DEF HubInv
<1>2. /\ Len(client[c].queue) <= QueueMax /\ OneAfterTheOther(client[c])
      /\ \A e \in ToSet(client[c].due) \ GotSet(client[c]) :
           Cardinality({d \in ToSet(client[c].due) : d > e}) >= QueueMax
  BY <1>1 DEF KeepsOrder, MissedForNewer
<1>3. /\ ToSet(client[c].seen \o client[c].queue) = GotSet(client[c])
      /\ \A i, j \in DOMAIN (client[c].seen \o client[c].queue) :
           i < j => (client[c].seen \o client[c].queue)[i] < (client[c].seen \o client[c].queue)[j]
  <2>1. client[c].seen \in Seq(Nat) /\ client[c].queue \in Seq(Nat)
    BY <1>1 DEF ClientRecords
  <2>2. ToSet(client[c].seen \o client[c].queue) = GotSet(client[c])
    BY <2>1, ConcatenatedSet DEF GotSet
  <2>3. InOrder(client[c].seen \o client[c].queue)
    BY <1>2, <2>1, ConcatenatedInOrder DEF OneAfterTheOther
  <2> QED
    BY <2>2, <2>3 DEF InOrder
<1> QED
  BY <1>2, <1>3

\* Whatever is emitted, whoever joins, reads slowly, is cut off or leaves: a client reads events
\* in the order of emission, none twice, and misses one only for QueueMax newer ones.
THEOREM HubKeepsOrder == HubSpec => []StreamsInOrder
BY HubInitial, HubStep, HubInvIsEnough, PTL DEF HubSpec
=============================================================================
