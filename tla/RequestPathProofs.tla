------------------------- MODULE RequestPathProofs -------------------------
(***************************************************************************)
(* What the limiter keeps for every rate, burst, clock and number of threads: *)
(* its types, the limit it really imposes, and the promise of its            *)
(* retry-after header.  And, in whatever order requests of every kind come,  *)
(* behind the three layers: no handler under /v1 runs beyond that limit,     *)
(* none runs that needs a key it was not shown, and no probe is turned away. *)
(***************************************************************************)
EXTENDS RequestPath, TLAPS

---------------------------------------------------------------------------
(* The limiter *)

\* The tokens that were handed out and those that are left come from the burst
\* and from the time the bucket's clock has covered, forwards only.
Credit ==
    \A ip \in known :
        tokens[ip] + Cost * admitted[ip]
            <= Cost * Burst + Rate * (last[ip] - since[ip] + rewound[ip])

\* No bucket was updated in the future, and no thread read the future.
NoFuture ==
    /\ \A ip \in known : last[ip] <= now
    /\ \A t \in checking : reading[t] <= now

\* What came in since the earliest refusal is still there.
Saved ==
    \A ip \in refused :
        /\ ip \in known
        /\ tokens[ip] < Cost
        /\ tokens[ip] >= Rate * (last[ip] - refusedAt[ip])

\* Without a bucket nothing was admitted.
Fresh == \A ip \in Ips : ip \notin known => admitted[ip] = 0 /\ rewound[ip] = 0

IInv == TypeOK /\ Credit /\ NoFuture /\ Saved /\ Fresh

---------------------------------------------------------------------------
\* The helper that caps a number is between the number and the cap.
LEMMA AtMostBounds ==
    ASSUME NEW b \in Int, NEW x \in Int
    PROVE  /\ AtMost(b, x) \in Int
           /\ AtMost(b, x) <= b
           /\ AtMost(b, x) <= x
           /\ AtMost(b, x) = b \/ AtMost(b, x) = x
BY DEF AtMost

\* The elapsed time is a natural number, and differs from the difference of the
\* instants only where that is negative.
LEMMA ElapsedNat ==
    ASSUME NEW x \in Nat, NEW y \in Nat
    PROVE  /\ Elapsed(x, y) \in Nat
           /\ x >= y => Elapsed(x, y) = x - y
           /\ x < y => Elapsed(x, y) = 0
BY DEF Elapsed

\* Products with the rate are monotone, and distribute over sums.
LEMMA RateTimes ==
    ASSUME NEW x \in Int, NEW y \in Int
    PROVE  /\ Rate * x \in Int
           /\ x * Rate = Rate * x
           /\ Rate * (x + y) = Rate * x + Rate * y
           /\ x >= 0 => Rate * x >= 0
           /\ x <= y => Rate * x <= Rate * y
BY LimiterAssumption

\* The cost of a further request.
LEMMA CostTimes ==
    ASSUME NEW n \in Nat
    PROVE  /\ Cost * n \in Nat
           /\ Cost * (n + 1) = Cost * n + Cost
           /\ Cost * Burst \in Nat
           /\ Burst * Cost = Cost * Burst
           /\ Cost * Burst >= Cost
BY LimiterAssumption

LEMMA Quotient ==
    ASSUME NEW n \in Int, NEW m \in Int, m > 0
    PROVE  n \div m \in Int /\ m * (n \div m) \in Int
           /\ m * (n \div m) <= n /\ n < m * (n \div m) + m
OBVIOUS

\* A wait as long as the header says brings a whole token.
LEMMA RetryAfterBringsToken == RetryAfter \in Int /\ Rate * RetryAfter >= Cost
<1> DEFINE d == Cost + Rate - 1
           q == d \div Rate
<1>1. d \in Int /\ Rate \in Int /\ Rate > 0 /\ Cost \in Int BY LimiterAssumption
<1>2. q \in Int /\ Rate * q \in Int /\ d < Rate * q + Rate
  <2> HIDE DEF d
  <2> QED BY <1>1, Quotient
<1>3. Rate * q >= Cost BY <1>1, <1>2
<1> QED BY <1>2, <1>3 DEF RetryAfter

\* What a bucket is filled to: a number of parts that fits, all that was there
\* and came in if it was there, and it is a full bucket if a cap was needed.
LEMMA RefilledFits ==
    ASSUME TypeOK, NEW ip \in Ips, NEW time \in 0..MaxTime
    PROVE  /\ Refilled(ip, time) \in 0..Burst * Cost
           /\ ip \in known => Refilled(ip, time) <= tokens[ip] + Rate * Elapsed(time, last[ip])
           /\ ip \in known /\ Refilled(ip, time) < Cost
              => Refilled(ip, time) = tokens[ip] + Rate * Elapsed(time, last[ip])
<1> DEFINE e == Elapsed(time, last[ip])
<1>1. tokens[ip] \in 0..Burst * Cost /\ last[ip] \in 0..MaxTime BY DEF TypeOK
<1>2. e \in Nat
  <2>1. time \in Nat /\ last[ip] \in Nat BY <1>1, LimiterAssumption
  <2> QED BY <2>1, ElapsedNat
<1>3. Rate * e \in Int /\ e * Rate = Rate * e /\ Rate * e >= 0 BY <1>2, RateTimes
<1>4. Burst * Cost \in Nat /\ Burst * Cost >= Cost BY CostTimes
<1>5. AtMost(Burst * Cost, tokens[ip] + e * Rate) \in 0..Burst * Cost
      /\ AtMost(Burst * Cost, tokens[ip] + e * Rate) <= tokens[ip] + Rate * e
      /\ (AtMost(Burst * Cost, tokens[ip] + e * Rate) < Cost
          => AtMost(Burst * Cost, tokens[ip] + e * Rate) = tokens[ip] + Rate * e)
  <2> HIDE DEF e
  <2> QED BY <1>1, <1>2, <1>3, <1>4, LimiterAssumption DEF AtMost
<1> QED BY <1>4, <1>5 DEF Refilled

LEMMA InitTypeOK == Init => TypeOK
<1>1. Burst * Cost \in Nat BY LimiterAssumption
<1>2. 0 \in 0..Burst * Cost /\ 0 \in 0..MaxTime BY <1>1, LimiterAssumption
<1> QED BY <1>2 DEF Init, TypeOK

LEMMA StepTypeOK == TypeOK /\ [Next]_vars => TypeOK'
<1> SUFFICES ASSUME TypeOK, [Next]_vars PROVE TypeOK'
    OBVIOUS
<1>1. CASE Tick BY <1>1, LimiterAssumption DEF TypeOK, Tick
<1>2. ASSUME NEW t \in Threads, ReadClock(t) PROVE TypeOK'
    BY <1>2, LimiterAssumption DEF TypeOK, ReadClock
<1>3. ASSUME NEW t \in Threads, Check(t) PROVE TypeOK'
  <2> DEFINE ip == from[t]
             time == reading[t]
             filled == Refilled(ip, time)
  <2>1. ip \in Ips /\ time \in 0..MaxTime BY DEF TypeOK
  <2>2. filled \in 0..Burst * Cost BY <2>1, RefilledFits
  <2>3. tokens' \in [Ips -> 0..Burst * Cost]
    <3>1. (IF filled >= Cost THEN filled - Cost ELSE filled) \in 0..Burst * Cost
      <4> HIDE DEF filled
      <4> QED BY <2>2, CostTimes, LimiterAssumption
    <3> QED BY <3>1, <1>3 DEF TypeOK, Check
  <2>4. /\ known' \subseteq Ips /\ last' \in [Ips -> 0..MaxTime]
        /\ checking' \subseteq Threads
        /\ UNCHANGED <<now, from, reading>>
    BY <2>1, <1>3 DEF TypeOK, Check
  <2>5. Record(ip, time, filled >= Cost) BY <1>3 DEF Check
  <2>6. Elapsed(last[ip], time) \in Nat
    BY <2>1, ElapsedNat, LimiterAssumption DEF TypeOK
  <2>7. /\ since' \in [Ips -> 0..MaxTime] /\ rewound' \in [Ips -> Nat]
        /\ admitted' \in [Ips -> Nat]
        /\ refused' \subseteq Ips /\ refusedAt' \in [Ips -> 0..MaxTime]
    <3> HIDE DEF ip, time, filled
    <3>1. AtMost(since[ip], time) \in 0..MaxTime /\ AtMost(refusedAt[ip], time) \in 0..MaxTime
      BY <2>1, LimiterAssumption DEF TypeOK, AtMost
    <3>2. since' \in [Ips -> 0..MaxTime] BY <2>1, <2>5, <3>1 DEF TypeOK, Record
    <3>3. rewound' \in [Ips -> Nat]
      BY <2>1, <2>5, <2>6 DEF TypeOK, Record
    <3>4. admitted' \in [Ips -> Nat] BY <2>1, <2>5 DEF TypeOK, Record
    <3>5. refused' \subseteq Ips BY <2>1, <2>5 DEF TypeOK, Record
    <3>6. refusedAt' \in [Ips -> 0..MaxTime] BY <2>1, <2>5, <3>1 DEF TypeOK, Record
    <3> QED BY <3>2, <3>3, <3>4, <3>5, <3>6
  <2> QED BY <2>3, <2>4, <2>7 DEF TypeOK
<1>4. CASE UNCHANGED vars BY <1>4 DEF TypeOK, vars
<1> QED BY <1>1, <1>2, <1>3, <1>4 DEF Next

LEMMA InitIInv == Init => IInv
<1> SUFFICES ASSUME Init PROVE Credit /\ NoFuture /\ Saved /\ Fresh
    BY InitTypeOK DEF IInv
<1> QED BY DEF Init, Credit, NoFuture, Saved, Fresh

\* An update keeps the credit of its bucket and of the others.
LEMMA CheckCredit ==
    ASSUME IInv, TypeOK', NEW t \in Threads, Check(t)
    PROVE  Credit'
<1> DEFINE ip == from[t]
           time == reading[t]
           filled == Refilled(ip, time)
<1> USE DEF IInv
<1>1. ip \in Ips /\ time \in 0..MaxTime /\ time \in Nat /\ last[ip] \in Nat /\ tokens[ip] \in Nat
      /\ admitted[ip] \in Nat /\ since[ip] \in Nat /\ rewound[ip] \in Nat
    BY LimiterAssumption, CostTimes DEF TypeOK
<1>2. ASSUME NEW i \in known', i # ip
      PROVE  tokens'[i] + Cost * admitted'[i]
                 <= Cost * Burst + Rate * (last'[i] - since'[i] + rewound'[i])
  <2>1. i \in known /\ tokens'[i] = tokens[i] /\ last'[i] = last[i]
    BY <1>1, <1>2 DEF Check, TypeOK
  <2>2. since'[i] = since[i] /\ rewound'[i] = rewound[i] /\ admitted'[i] = admitted[i]
    <3>1. Record(ip, time, filled >= Cost) BY DEF Check
    <3>2. i \in Ips BY <2>1 DEF TypeOK
    <3> HIDE DEF ip, time, filled
    <3> QED BY <1>2, <3>1, <3>2 DEF Record, TypeOK
  <2> QED BY <2>1, <2>2 DEF Credit
<1>3. tokens'[ip] + Cost * admitted'[ip]
          <= Cost * Burst + Rate * (last'[ip] - since'[ip] + rewound'[ip])
  <2>1. /\ last'[ip] = time
        /\ tokens'[ip] = IF filled >= Cost THEN filled - Cost ELSE filled
        /\ Record(ip, time, filled >= Cost)
    BY <1>1 DEF Check, TypeOK
  <2>2. /\ filled \in Nat
        /\ ip \in known => filled <= tokens[ip] + Rate * Elapsed(time, last[ip])
        /\ ip \notin known => filled = Cost * Burst
    BY <1>1, RefilledFits, CostTimes DEF Refilled
  <2> HIDE DEF ip, time, filled
  <2>3. admitted'[ip] = IF filled >= Cost THEN admitted[ip] + 1 ELSE admitted[ip]
    BY <1>1, <2>1 DEF Record, TypeOK
  <2>4. tokens'[ip] + Cost * admitted'[ip] = filled + Cost * admitted[ip]
    <3>1. Cost * admitted[ip] \in Nat /\ Cost * (admitted[ip] + 1) = Cost * admitted[ip] + Cost
      BY <1>1, CostTimes
    <3>2. CASE filled >= Cost
      <4>1. tokens'[ip] = filled - Cost /\ admitted'[ip] = admitted[ip] + 1
        BY <2>1, <2>3, <3>2
      <4> QED BY <2>2, <3>1, <4>1, LimiterAssumption
    <3>3. CASE ~(filled >= Cost) BY <2>1, <2>3, <3>3
    <3> QED BY <3>2, <3>3
  <2>5. CASE ip \in known
    <3>1. since'[ip] = AtMost(since[ip], time) BY <1>1, <2>1, <2>5 DEF Record, TypeOK
    <3>2. since'[ip] \in Nat /\ since'[ip] <= since[ip] BY <1>1, <3>1 DEF AtMost
    <3>3. rewound'[ip] = rewound[ip] + Elapsed(last[ip], time)
      BY <1>1, <2>1, <2>5 DEF Record, TypeOK
    <3> DEFINE before == last[ip] - since[ip] + rewound[ip]
               e == Elapsed(time, last[ip])
               after == last'[ip] - since'[ip] + rewound'[ip]
    <3>4. e \in Nat /\ before \in Int /\ after \in Int /\ before + e <= after
      <4>1. /\ e \in Nat /\ (time >= last[ip] => e = time - last[ip])
            /\ (time < last[ip] => e = 0)
        BY <1>1, ElapsedNat
      <4>2. /\ Elapsed(last[ip], time) \in Nat
            /\ last[ip] >= time => Elapsed(last[ip], time) = last[ip] - time
        BY <1>1, ElapsedNat
      <4> HIDE DEF e
      <4> QED BY <1>1, <2>1, <3>2, <3>3, <4>1, <4>2
    <3>5. tokens[ip] + Cost * admitted[ip] <= Cost * Burst + Rate * before
      BY <2>5 DEF Credit
    <3>6. Rate * (before + e) = Rate * before + Rate * e /\ Rate * (before + e) <= Rate * after
          /\ Rate * before \in Int /\ Rate * e \in Int /\ Rate * after \in Int
      <4> HIDE DEF before, e, after
      <4> QED BY <3>4, RateTimes
    <3>7. filled <= tokens[ip] + Rate * e BY <2>2, <2>5
    <3>8. Cost * admitted[ip] \in Nat /\ Cost * Burst \in Nat BY <1>1, CostTimes
    <3>9. filled + Cost * admitted[ip] <= Cost * Burst + Rate * after
      <4> HIDE DEF before, e, after
      <4> QED BY <1>1, <2>2, <3>5, <3>6, <3>7, <3>8
    <3> QED BY <2>4, <3>9
  <2>6. CASE ip \notin known
    <3>1. since'[ip] = time /\ rewound'[ip] = rewound[ip]
      BY <1>1, <2>1, <2>6 DEF Record, TypeOK
    <3>2. admitted[ip] = 0 /\ rewound[ip] = 0 BY <1>1, <2>6 DEF Fresh
    <3>3. last'[ip] - since'[ip] + rewound'[ip] = 0 BY <1>1, <2>1, <3>1, <3>2
    <3> QED BY <2>2, <2>4, <2>6, <3>2, <3>3, CostTimes, LimiterAssumption
  <2> QED BY <2>5, <2>6
<1> QED BY <1>2, <1>3 DEF Credit

\* An update keeps what was saved since the earliest refusal, or ends the wait.
LEMMA CheckSaved ==
    ASSUME IInv, TypeOK', NEW t \in Threads, Check(t)
    PROVE  Saved'
<1> DEFINE ip == from[t]
           time == reading[t]
           filled == Refilled(ip, time)
           e == Elapsed(time, last[ip])
<1> USE DEF IInv
<1>1. ip \in Ips /\ time \in 0..MaxTime /\ time \in Nat /\ last[ip] \in Nat
      /\ tokens[ip] \in Nat /\ refusedAt[ip] \in Nat
    BY LimiterAssumption, CostTimes DEF TypeOK
<1>2. /\ last'[ip] = time
      /\ tokens'[ip] = IF filled >= Cost THEN filled - Cost ELSE filled
      /\ Record(ip, time, filled >= Cost)
      /\ known' = known \union {ip}
    BY <1>1 DEF Check, TypeOK
<1>3. /\ filled \in Nat
      /\ ip \in known /\ filled < Cost => filled = tokens[ip] + Rate * e
      /\ ip \notin known => filled >= Cost
    BY <1>1, RefilledFits, CostTimes DEF Refilled
<1>4. e \in Nat /\ (time >= last[ip] => e = time - last[ip]) BY <1>1, ElapsedNat
<1>5. ASSUME NEW i \in refused', i # ip
      PROVE  i \in known' /\ tokens'[i] < Cost /\ tokens'[i] >= Rate * (last'[i] - refusedAt'[i])
  <2>1. i \in refused /\ i \in Ips /\ refusedAt'[i] = refusedAt[i]
    <3> HIDE DEF ip, time, filled
    <3> QED BY <1>2, <1>5 DEF Record, TypeOK
  <2>2. tokens'[i] = tokens[i] /\ last'[i] = last[i]
    BY <1>1, <1>5, <2>1 DEF Check, TypeOK
  <2> QED BY <1>2, <2>1, <2>2 DEF Saved
<1>6. ASSUME ip \in refused'
      PROVE  ip \in known' /\ tokens'[ip] < Cost /\ tokens'[ip] >= Rate * (last'[ip] - refusedAt'[ip])
  <2> HIDE DEF ip, time, filled, e
  <2>1. filled < Cost /\ ip \in known
    BY <1>1, <1>2, <1>3, <1>6, LimiterAssumption DEF Record
  <2>2. tokens'[ip] = tokens[ip] + Rate * e /\ tokens'[ip] < Cost
    BY <1>2, <1>3, <2>1, LimiterAssumption
  <2>3. refusedAt'[ip] = IF ip \in refused THEN AtMost(refusedAt[ip], time) ELSE time
    <3>1. ~(filled >= Cost) BY <1>3, <2>1, LimiterAssumption
    <3> QED BY <1>1, <1>2, <3>1 DEF Record, TypeOK
  <2>4. Rate * e \in Int /\ Rate * e >= 0 BY <1>4, RateTimes
  <2>5. CASE refusedAt'[ip] = time
    <3>1. last'[ip] - refusedAt'[ip] = 0 BY <1>1, <1>2, <2>5
    <3> QED BY <1>1, <1>2, <2>1, <2>2, <2>4, <3>1, LimiterAssumption
  <2>6. CASE refusedAt'[ip] # time
    <3>1. ip \in refused /\ refusedAt'[ip] = refusedAt[ip] BY <2>3, <2>6 DEF AtMost
    <3>2. tokens[ip] >= Rate * (last[ip] - refusedAt[ip]) BY <3>1 DEF Saved
    <3> DEFINE waited == last[ip] - refusedAt[ip]
               waits == time - refusedAt[ip]
    <3>3. waited \in Int /\ waits \in Int /\ waits <= waited + e
      BY <1>1, <1>4
    <3>4. /\ Rate * waited \in Int /\ Rate * waits \in Int
          /\ Rate * (waited + e) = Rate * waited + Rate * e
          /\ Rate * waits <= Rate * (waited + e)
      <4> HIDE DEF waited, waits
      <4> QED BY <1>4, <3>3, RateTimes
    <3>5. tokens'[ip] >= Rate * waits
      <4> HIDE DEF waits
      <4> QED BY <1>1, <2>2, <2>4, <3>2, <3>4
    <3> QED BY <1>2, <2>1, <2>2, <3>1, <3>5
  <2> QED BY <2>5, <2>6
<1> QED BY <1>5, <1>6 DEF Saved

LEMMA StepIInv == IInv /\ [Next]_vars => IInv'
<1> SUFFICES ASSUME IInv, [Next]_vars PROVE IInv'
    OBVIOUS
<1> USE DEF IInv
<1>0. TypeOK' BY StepTypeOK
<1>1. CASE Tick
  BY <1>0, <1>1, LimiterAssumption DEF Tick, TypeOK, Credit, NoFuture, Saved, Fresh
<1>2. ASSUME NEW t \in Threads, ReadClock(t) PROVE IInv'
  <2>1. NoFuture' BY <1>2, LimiterAssumption DEF ReadClock, TypeOK, NoFuture
  <2> QED BY <1>0, <1>2, <2>1 DEF ReadClock, Credit, Saved, Fresh
<1>3. ASSUME NEW t \in Threads, Check(t) PROVE IInv'
  <2>1. Credit' BY <1>0, <1>3, CheckCredit
  <2>2. Saved' BY <1>0, <1>3, CheckSaved
  <2>3. NoFuture' BY <1>3 DEF Check, TypeOK, NoFuture
  <2>4. Fresh'
    <3> DEFINE ip == from[t]
               admits == Refilled(ip, reading[t]) >= Cost
    <3>1. ip \in Ips /\ known' = known \union {ip} /\ Record(ip, reading[t], admits)
      BY <1>3 DEF Check, TypeOK
    <3> HIDE DEF ip, admits
    <3> QED BY <3>1 DEF Fresh, Record, TypeOK
  <2> QED BY <1>0, <2>1, <2>2, <2>3, <2>4
<1>4. CASE UNCHANGED vars
  BY <1>0, <1>4 DEF vars, Credit, NoFuture, Saved, Fresh
<1> QED BY <1>1, <1>2, <1>3, <1>4 DEF Next

THEOREM Invariant == Spec => []IInv
BY InitIInv, StepIInv, PTL DEF Spec

LEMMA WithinLimit == IInv => BoundedByReadings
<1> SUFFICES ASSUME IInv, NEW ip \in known
             PROVE  Cost * admitted[ip] <= Cost * Burst + Rate * (now - since[ip] + rewound[ip])
    BY DEF BoundedByReadings
<1> DEFINE old == last[ip] - since[ip] + rewound[ip]
           new == now - since[ip] + rewound[ip]
<1>1. ip \in Ips /\ tokens[ip] \in Nat /\ Cost * admitted[ip] \in Nat /\ Cost * Burst \in Nat
  BY LimiterAssumption, CostTimes DEF IInv, TypeOK
<1>2. old \in Int /\ new \in Int /\ old <= new
  BY <1>1, LimiterAssumption DEF IInv, TypeOK, NoFuture
<1>3. tokens[ip] + Cost * admitted[ip] <= Cost * Burst + Rate * old BY DEF IInv, Credit
<1>4. Rate * old <= Rate * new /\ Rate * old \in Int /\ Rate * new \in Int
  <2> HIDE DEF old, new
  <2> QED BY <1>2, RateTimes
<1>5. Cost * admitted[ip] <= Cost * Burst + Rate * new
  <2> HIDE DEF old, new
  <2> QED BY <1>1, <1>3, <1>4
<1> QED BY <1>5

\* The limit that is kept: the requests let through since the first one cost no
\* more than a full bucket and what the rate brings in the time since then and,
\* once more, in the time by which late readings set the bucket's clock back.
THEOREM LimitKept == Spec => []BoundedByReadings
BY WithinLimit, Invariant, PTL

\* Waiting as long as the retry-after header says is enough.
THEOREM RetryAfterHolds == Spec => []RetryAfterSuffices
<1>1. IInv => RetryAfterSuffices
  <2> SUFFICES ASSUME IInv, NEW t \in checking, from[t] \in refused,
                      reading[t] >= refusedAt[from[t]] + RetryAfter
               PROVE  Refilled(from[t], reading[t]) >= Cost
      BY DEF RetryAfterSuffices
  <2> DEFINE ip == from[t]
             time == reading[t]
             e == Elapsed(time, last[ip])
             waited == last[ip] - refusedAt[ip]
             filled == Refilled(ip, time)
  <2>1. ip \in Ips /\ ip \in known /\ time \in 0..MaxTime /\ time \in Nat /\ last[ip] \in Nat
        /\ tokens[ip] \in Nat /\ refusedAt[ip] \in Nat /\ tokens[ip] >= Rate * waited
    BY LimiterAssumption, CostTimes DEF IInv, TypeOK, Saved
  <2>2. e \in Nat /\ (time >= last[ip] => e = time - last[ip]) BY <2>1, ElapsedNat
  <2>3. RetryAfter <= waited + e /\ waited \in Int /\ RetryAfter \in Int
    BY <2>1, <2>2, RetryAfterBringsToken
  <2>4. Rate * waited + Rate * e >= Cost /\ Rate * waited \in Int /\ Rate * e \in Int
    <3> HIDE DEF waited, e
    <3>1. /\ Rate * RetryAfter <= Rate * (waited + e)
          /\ Rate * (waited + e) = Rate * waited + Rate * e
          /\ Rate * waited \in Int /\ Rate * e \in Int /\ Rate * RetryAfter \in Int
      <4>1. e \in Int /\ waited + e \in Int BY <2>2, <2>3
      <4>2. Rate * RetryAfter \in Int /\ Rate * RetryAfter <= Rate * (waited + e)
        BY <2>3, <4>1, RateTimes
      <4>3. Rate * (waited + e) = Rate * waited + Rate * e BY <2>3, <4>1, RateTimes
      <4> QED BY <2>3, <4>1, <4>2, <4>3, RateTimes
    <3> QED BY <3>1, RetryAfterBringsToken, LimiterAssumption
  <2>5. filled \in Nat /\ (filled < Cost => filled = tokens[ip] + Rate * e)
    BY <2>1, RefilledFits, CostTimes DEF IInv
  <2>6. filled >= Cost
    <3> HIDE DEF waited, e, filled
    <3> QED BY <2>1, <2>4, <2>5, LimiterAssumption
  <2> QED BY <2>6
<1> QED BY <1>1, Invariant, PTL

---------------------------------------------------------------------------
(* The layers *)

\* What the checks of the start have seen to.
LEMMA StartChecks ==
  ASSUME NEW pol \in Policies
  PROVE  /\ pol.keys \subseteq {"key"}
         /\ pol.public /\ ~pol.optOut => pol.keys = {"key"}
<1>1. PICK cli \in CommandLines : pol = Policy(cli) /\ EnsureAuthAllowed(cli)
  BY DEF Policies
<1>2. NormalizeApiKeys(cli.apiKeys) \subseteq {"key"}
  BY DEF CommandLines, NormalizeApiKeys
<1>3. /\ pol.keys = NormalizeApiKeys(cli.apiKeys)
      /\ pol.public => ~IsLoopbackHost(cli.host)
      /\ pol.optOut = cli.optOut
  BY <1>1 DEF Policy
<1>4. IsLoopbackHost(cli.host) \/ NormalizeApiKeys(cli.apiKeys) # {} \/ cli.optOut
  BY <1>1 DEF EnsureAuthAllowed
<1> QED
  BY <1>2, <1>3, <1>4

\* The layers let no request without the key through to a handler.
LEMMA KeyDecides ==
  ASSUME NEW pol \in Policies, pol.keys = {"key"},
         NEW req \in Requests, NEW admits \in BOOLEAN,
         Answer(pol, req, admits) = "handler", ~Probe(req)
  PROVE  "key" \in {req.xApiKey, req.bearer}
<1>1. req.method # "OPTIONS"
  BY DEF Answer
<1>2. AuthRequired(pol, req)
  BY <1>1 DEF AuthRequired, Probe
<1>3. RequestIsAuthorized(pol, req)
  BY <1>2 DEF Answer
<1> QED
  BY <1>3 DEF RequestIsAuthorized, ExtractApiKey

---------------------------------------------------------------------------
(* The steps of requests *)

\* A handler under /v1 costs a token, and what the start accepts leaves neither a
\* handler open that needs a key nor a probe closed.
LEMMA OutcomeFacts ==
  ASSUME NEW pol \in Policies, NEW admits \in BOOLEAN, NEW outcome \in Outcomes[pol][admits]
  PROVE  /\ outcome.keyless \in BOOLEAN /\ outcome.turnedAway \in BOOLEAN
         /\ outcome.served => outcome.charged /\ admits
         /\ pol.public /\ ~pol.optOut => ~outcome.keyless
         /\ ~outcome.turnedAway
<1>1. PICK req \in Requests : outcome = Outcome(pol, req, admits)
  BY DEF Outcomes
<1>2. outcome.keyless \in BOOLEAN /\ outcome.turnedAway \in BOOLEAN
  BY <1>1 DEF Outcome
<1>3. outcome.served => outcome.charged /\ admits
  <2> SUFFICES ASSUME outcome.served PROVE Charged(req) /\ admits
    BY <1>1 DEF Outcome
  <2>1. Answer(pol, req, admits) = "handler" /\ req.path = "/v1"
    BY <1>1 DEF Outcome
  <2>2. req.method # "OPTIONS"
    BY <2>1 DEF Answer
  <2> QED
    BY <2>1, <2>2 DEF Answer, Charged
<1>4. pol.public /\ ~pol.optOut => ~outcome.keyless
  BY <1>1, StartChecks, KeyDecides DEF Outcome
<1>5. ASSUME req.origin \in {"none", "listed"}
      PROVE  /\ req.method = "OPTIONS" => Answer(pol, req, admits) = "preflight"
             /\ Probe(req) => Answer(pol, req, admits) = "handler"
  <2>1. OriginIsAllowed(pol, req)
    BY <1>5 DEF OriginIsAllowed
  <2>2. CASE req.method = "OPTIONS"
    BY <2>1, <2>2 DEF Answer, Charged, AuthRequired, Probe
  <2>3. CASE req.method # "OPTIONS" /\ req.path \in {"/health", "/ready"}
    BY <2>1, <2>3 DEF Answer, Charged, AuthRequired, Probe
  <2> QED
    BY <2>2, <2>3 DEF Probe
<1>6. ~outcome.turnedAway
  BY <1>1, <1>5 DEF Outcome
<1> QED
  BY <1>2, <1>3, <1>4, <1>6

PathInv ==
    /\ IInv
    /\ PathTypeOK
    /\ \A ip \in Ips : served[ip] <= admitted[ip]
    /\ PublicNeedsKey
    /\ NeverTurnedAway

\* The parts of it that an answer may disturb.
LEMMA RespondKeeps ==
  ASSUME PathInv, NEW ip \in Ips, NEW admits \in BOOLEAN,
         NEW outcome \in Outcomes[policy][admits], Respond(ip, outcome)
  PROVE  /\ policy' \in Policies /\ served' \in [Ips -> Nat]
         /\ keyless' \in BOOLEAN /\ turnedAway' \in BOOLEAN
         /\ PublicNeedsKey' /\ NeverTurnedAway'
         /\ \A i \in Ips : served'[i] =
              IF outcome.served /\ i = ip THEN served[i] + 1 ELSE served[i]
<1>1. policy \in Policies
  BY DEF PathInv, PathTypeOK
<1>2. /\ outcome.keyless \in BOOLEAN /\ outcome.turnedAway \in BOOLEAN
      /\ policy.public /\ ~policy.optOut => ~outcome.keyless
      /\ ~outcome.turnedAway
  BY <1>1, OutcomeFacts
<1>3. policy' = policy
  BY DEF Respond
<1>4. keyless' = (keyless \/ outcome.keyless) /\ turnedAway' = (turnedAway \/ outcome.turnedAway)
  BY DEF Respond
<1>5. keyless' \in BOOLEAN /\ turnedAway' \in BOOLEAN /\ PublicNeedsKey' /\ NeverTurnedAway'
  BY <1>2, <1>3, <1>4, Zenon DEF PathInv, PathTypeOK, PublicNeedsKey, NeverTurnedAway
<1>6. /\ served' \in [Ips -> Nat]
      /\ \A i \in Ips : served'[i] =
           IF outcome.served /\ i = ip THEN served[i] + 1 ELSE served[i]
  BY DEF Respond, PathInv, PathTypeOK
<1> QED
  BY <1>1, <1>3, <1>5, <1>6

\* The limiter's update, and what a request that passes it costs.
LEMMA CheckAdmits ==
  ASSUME TypeOK, NEW t \in Threads, Check(t)
  PROVE  \A ip \in Ips : admitted'[ip] =
           IF Refilled(from[t], reading[t]) >= Cost /\ ip = from[t]
           THEN admitted[ip] + 1 ELSE admitted[ip]
<1> DEFINE admits == Refilled(from[t], reading[t]) >= Cost
<1>1. Record(from[t], reading[t], admits)
  BY DEF Check
<1>2. admitted' = IF admits THEN [admitted EXCEPT ![from[t]] = @ + 1] ELSE admitted
  <2> HIDE DEF admits
  <2> QED
    BY <1>1 DEF Record
<1> HIDE DEF admits
<1>3. \A ip \in Ips : admitted'[ip] =
        IF admits /\ ip = from[t] THEN admitted[ip] + 1 ELSE admitted[ip]
  BY <1>2 DEF TypeOK
<1> QED
  BY <1>3 DEF admits

\* The layers take nothing from the limiter and add nothing to it.
LEMMA PathImplementsLimiter ==
  /\ PathInit => Init
  /\ [PathNext]_pathVars => [Next]_vars
BY DEF PathInit, PathNext, pathVars, Next, Limited, Unlimited

LEMMA PathInitInv == PathInit => PathInv
<1> SUFFICES ASSUME PathInit PROVE PathInv
  OBVIOUS
<1>1. IInv /\ TypeOK
  BY InitIInv, PathImplementsLimiter DEF IInv
<1>2. served \in [Ips -> Nat] /\ \A ip \in Ips : served[ip] <= admitted[ip]
  BY DEF PathInit, Init
<1>3. policy \in Policies /\ keyless = FALSE /\ turnedAway = FALSE
  BY DEF PathInit
<1> QED
  BY <1>1, <1>2, <1>3 DEF PathInv, PathTypeOK, PublicNeedsKey, NeverTurnedAway

LEMMA PathStepInv == PathInv /\ [PathNext]_pathVars => PathInv'
<1> SUFFICES ASSUME PathInv, [PathNext]_pathVars PROVE PathInv'
  OBVIOUS
<1>1. IInv' /\ TypeOK' /\ TypeOK
  BY StepIInv, PathImplementsLimiter DEF PathInv, IInv
<1>2. ASSUME UNCHANGED <<policy, served, keyless, turnedAway, admitted>> PROVE PathInv'
  BY <1>1, <1>2 DEF PathInv, PathTypeOK, PublicNeedsKey, NeverTurnedAway
<1>3. CASE /\ Tick \/ \E t \in Threads : ReadClock(t)
           /\ UNCHANGED <<policy, served, keyless, turnedAway>>
  <2>1. UNCHANGED admitted
    BY <1>3 DEF Tick, ReadClock
  <2> QED
    BY <1>2, <1>3, <2>1
<1>4. ASSUME NEW t \in Threads, Limited(t) PROVE PathInv'
  <2> DEFINE admits == Refilled(from[t], reading[t]) >= Cost
  <2>1. from[t] \in Ips /\ policy \in Policies
    BY <1>1 DEF TypeOK, PathInv, PathTypeOK
  <2>2. PICK outcome \in Outcomes[policy][admits] : Respond(from[t], outcome)
    BY <1>4 DEF Limited
  <2>3. \A ip \in Ips : admitted'[ip] =
          IF admits /\ ip = from[t] THEN admitted[ip] + 1 ELSE admitted[ip]
    BY <1>1, <1>4, CheckAdmits DEF Limited
  <2>4. admits \in BOOLEAN
    OBVIOUS
  <2> HIDE DEF admits
  <2>5. outcome.served => admits
    BY <2>1, <2>4, OutcomeFacts
  <2>6. /\ policy' \in Policies /\ served' \in [Ips -> Nat]
        /\ keyless' \in BOOLEAN /\ turnedAway' \in BOOLEAN
        /\ PublicNeedsKey' /\ NeverTurnedAway'
        /\ \A i \in Ips : served'[i] =
             IF outcome.served /\ i = from[t] THEN served[i] + 1 ELSE served[i]
    BY <2>1, <2>2, <2>4, RespondKeeps
  <2>7. \A ip \in Ips : served'[ip] <= admitted'[ip]
    BY <1>1, <2>3, <2>5, <2>6 DEF PathInv, PathTypeOK, TypeOK
  <2> QED
    BY <1>1, <2>6, <2>7 DEF PathInv, PathTypeOK
<1>5. ASSUME NEW ip \in Ips, Unlimited(ip) PROVE PathInv'
  <2>1. policy \in Policies
    BY DEF PathInv, PathTypeOK
  <2>2. PICK outcome \in Outcomes[policy][TRUE] : ~outcome.charged /\ Respond(ip, outcome)
    BY <1>5 DEF Unlimited
  <2>3. ~outcome.served
    BY <2>1, <2>2, OutcomeFacts
  <2>4. /\ policy' \in Policies /\ served' \in [Ips -> Nat]
        /\ keyless' \in BOOLEAN /\ turnedAway' \in BOOLEAN
        /\ PublicNeedsKey' /\ NeverTurnedAway'
        /\ \A i \in Ips : served'[i] = served[i]
    BY <2>2, <2>3, RespondKeeps
  <2>5. UNCHANGED admitted
    BY <1>5 DEF Unlimited, vars
  <2> QED
    BY <1>1, <2>4, <2>5 DEF PathInv, PathTypeOK
<1>6. CASE UNCHANGED pathVars
  BY <1>2, <1>6 DEF pathVars, vars
<1> QED
  BY <1>3, <1>4, <1>5, <1>6 DEF PathNext

LEMMA PathInvariant == PathSpec => []PathInv
BY PathInitInv, PathStepInv, PTL DEF PathSpec

---------------------------------------------------------------------------
(* Theorems *)

\* The variables of the limiter and of the layers keep their types.
THEOREM TypeCorrect == PathSpec => []PathTypeOK
BY PathInvariant, PTL DEF PathInv

\* Whatever requests come and whichever layers answer them, the handlers under
\* /v1 that ran for an address are no more than its tokens: a burst, and the rate
\* over the time that passed and that late readings set back.
THEOREM HandlersAreLimited == PathSpec => []HandlersLimited
<1>1. PathInv => HandlersLimited
  <2> SUFFICES ASSUME PathInv, NEW ip \in Ips
               PROVE  /\ served[ip] <= admitted[ip]
                      /\ IF ip \in known
                         THEN Cost * served[ip]
                                  <= Cost * Burst + Rate * (now - since[ip] + rewound[ip])
                         ELSE served[ip] = 0
    BY DEF HandlersLimited
  <2>1. served[ip] <= admitted[ip] /\ served[ip] \in Nat /\ admitted[ip] \in Nat
    BY DEF PathInv, PathTypeOK, TypeOK
  <2>2. ip \notin known => served[ip] = 0
    BY <2>1 DEF PathInv, IInv, Fresh
  <2>3. ASSUME ip \in known
        PROVE  Cost * served[ip] <= Cost * Burst + Rate * (now - since[ip] + rewound[ip])
    <3> DEFINE bound == Cost * Burst + Rate * (now - since[ip] + rewound[ip])
    <3>1. Cost * admitted[ip] <= bound
      BY <2>3, WithinLimit DEF PathInv, BoundedByReadings
    <3>2. bound \in Int
      BY LimiterAssumption DEF PathInv, IInv, TypeOK
    <3>3. Cost * served[ip] <= Cost * admitted[ip] /\ Cost * served[ip] \in Int
          /\ Cost * admitted[ip] \in Int
      BY <2>1, LimiterAssumption
    <3> HIDE DEF bound
    <3>4. Cost * served[ip] <= bound
      BY <3>1, <3>2, <3>3
    <3> QED
      BY <3>4 DEF bound
  <2> QED
    BY <2>1, <2>2, <2>3
<1> QED
  BY <1>1, PathInvariant, PTL

\* On an address that others can reach, no handler but a probe's runs for a
\* request without the operator's key, unless the operator opted out of keys.
THEOREM PublicIsKeyed == PathSpec => []PublicNeedsKey
BY PathInvariant, PTL DEF PathInv

\* Probes, and preflights of allowed origins, are answered whatever keys they
\* carry and however empty their bucket is.
THEOREM ProbesAnswered == PathSpec => []NeverTurnedAway
BY PathInvariant, PTL DEF PathInv
=============================================================================
