----------------------------- MODULE RateLimiter -----------------------------
(***************************************************************************)
(* The token bucket per client address (server/rate_limit.rs), used by       *)
(* rate_limit_layer (server/http.rs) for all requests but the probes and the *)
(* preflights.                                                               *)
(*                                                                         *)
(* A thread reads the clock before it takes the lock of the buckets, so the  *)
(* readings can come to a bucket in another order than they were made in.   *)
(* Time is counted in ticks and tokens in parts: a tick brings Rate parts,   *)
(* Cost of them are the token of a request.  With a tick of one second Cost  *)
(* is 60 and Rate is --rate-limit-per-minute; no limiter is made if that is  *)
(* 0.  The parts are exact, the code's are of type f64.                      *)
(***************************************************************************)
EXTENDS Integers

CONSTANTS
    Ips,        \* client addresses
    Threads,    \* threads that serve requests
    Rate,       \* parts that a tick brings
    Cost,       \* parts of a token
    Burst,      \* tokens of a full bucket
    MaxTime     \* bound on the clock

ASSUME LimiterAssumption ==
    /\ Rate \in Nat \ {0}
    /\ Cost \in Nat \ {0}
    /\ Burst \in Nat \ {0}
    /\ MaxTime \in Nat

VARIABLES
    now,        \* the monotonic clock
    known,      \* the addresses that have a bucket
    tokens,     \* the parts in each bucket
    last,       \* when it was last updated
    checking,   \* the threads that have read the clock and wait for the lock
    from,       \* the address whose request each thread serves
    reading,    \* what it read
    since,      \* history: the earliest reading that came to each bucket
    admitted,   \* history: requests let through, by address
    rewound,    \* history: by how many ticks its clock was set back
    refused,    \* history: the addresses refused since they were last admitted
    refusedAt   \* history: the earliest reading of these refusals

vars == <<now, known, tokens, last, checking, from, reading,
          since, admitted, rewound, refused, refusedAt>>

AtMost(bound, x) == IF x > bound THEN bound ELSE x

\* Instant::duration_since gives 0 for a later instant.
Elapsed(later, earlier) == IF later > earlier THEN later - earlier ELSE 0

Init ==
    /\ now = 0
    /\ known = {}
    /\ tokens = [ip \in Ips |-> 0]
    /\ last = [ip \in Ips |-> 0]
    /\ checking = {}
    /\ from \in [Threads -> Ips]
    /\ reading = [t \in Threads |-> 0]
    /\ admitted = [ip \in Ips |-> 0]
    /\ since = [ip \in Ips |-> 0]
    /\ rewound = [ip \in Ips |-> 0]
    /\ refused = {}
    /\ refusedAt = [ip \in Ips |-> 0]

Tick ==
    /\ now < MaxTime
    /\ now' = now + 1
    /\ UNCHANGED <<known, tokens, last, checking, from, reading,
                   admitted, since, rewound, refused, refusedAt>>

\* A request: its thread reads the clock.
ReadClock(t) ==
    /\ t \notin checking
    /\ checking' = checking \union {t}
    /\ \E ip \in Ips : from' = [from EXCEPT ![t] = ip]
    /\ reading' = [reading EXCEPT ![t] = now]
    /\ UNCHANGED <<now, known, tokens, last, admitted, since, rewound,
                   refused, refusedAt>>

\* Mutation: more than a full bucket.
Refilled_Uncapped(ip, time) ==
    IF ip \in known THEN tokens[ip] + Elapsed(time, last[ip]) * Rate ELSE Burst * Cost

\* What a bucket holds for a request of that time; a new one is full.
Refilled(ip, time) ==
    IF ip \in known
    THEN AtMost(Burst * Cost, tokens[ip] + Elapsed(time, last[ip]) * Rate)
    ELSE Burst * Cost

\* The history of an update.
Record(ip, time, admits) ==
    /\ since' = [since EXCEPT ![ip] = IF ip \in known THEN AtMost(@, time) ELSE time]
    /\ rewound' = IF ip \in known
                  THEN [rewound EXCEPT ![ip] = @ + Elapsed(last[ip], time)]
                  ELSE rewound
    /\ IF admits
       THEN /\ admitted' = [admitted EXCEPT ![ip] = @ + 1]
            /\ refused' = refused \ {ip}
            /\ UNCHANGED refusedAt
       ELSE /\ refused' = refused \union {ip}
            /\ refusedAt' = [refusedAt EXCEPT ![ip] =
                                 IF ip \in refused THEN AtMost(@, time) ELSE time]
            /\ UNCHANGED admitted

\* Mutation: the time of the update is only kept when a token was taken.
Check_KeepsTime(t) ==
    LET ip == from[t]
        time == reading[t]
        filled == Refilled(ip, time)
    IN
    /\ t \in checking
    /\ checking' = checking \ {t}
    /\ known' = known \union {ip}
    /\ last' = IF filled < Cost THEN last ELSE [last EXCEPT ![ip] = time]
    /\ tokens' = [tokens EXCEPT ![ip] = IF filled >= Cost THEN filled - Cost ELSE filled]
    /\ Record(ip, time, filled >= Cost)
    /\ UNCHANGED <<now, from, reading>>

\* The lock is held for the whole update: the bucket is refilled, its time is
\* set to the reading, and a token is taken if there is one.
Check(t) ==
    LET ip == from[t]
        time == reading[t]
        filled == Refilled(ip, time)
    IN
    /\ t \in checking
    /\ checking' = checking \ {t}
    /\ known' = known \union {ip}
    /\ last' = [last EXCEPT ![ip] = time]
    /\ tokens' = [tokens EXCEPT ![ip] = IF filled >= Cost THEN filled - Cost ELSE filled]
    /\ Record(ip, time, filled >= Cost)
    /\ UNCHANGED <<now, from, reading>>

Next == Tick \/ \E t \in Threads : ReadClock(t) \/ Check(t)

Spec == Init /\ [][Next]_vars

---------------------------------------------------------------------------
\* Mutation: rounded down.
RetryAfter_Floor == Cost \div Rate

\* The retry-after header of a refusal, in ticks: ceil(60 / rate).
RetryAfter == (Cost + Rate - 1) \div Rate

---------------------------------------------------------------------------
(* Properties *)

TypeOK ==
    /\ now \in 0..MaxTime
    /\ known \subseteq Ips
    /\ tokens \in [Ips -> 0..Burst * Cost]
    /\ last \in [Ips -> 0..MaxTime]
    /\ checking \subseteq Threads
    /\ from \in [Threads -> Ips]
    /\ reading \in [Threads -> 0..MaxTime]
    /\ admitted \in [Ips -> Nat]
    /\ since \in [Ips -> 0..MaxTime]
    /\ rewound \in [Ips -> Nat]
    /\ refused \subseteq Ips
    /\ refusedAt \in [Ips -> 0..MaxTime]

\* The limit the code keeps: a burst, and the rate over the time since the first
\* request and, once more, over the time by which late readings set it back.
BoundedByReadings ==
    \A ip \in known :
        Cost * admitted[ip] <= Cost * Burst + Rate * (now - since[ip] + rewound[ip])

\* Who was refused and waits for as long as the header says is admitted, unless
\* another request of the same address came first and was: whatever the order
\* in which the threads update the bucket.
RetryAfterSuffices ==
    \A t \in checking :
        from[t] \in refused /\ reading[t] >= refusedAt[from[t]] + RetryAfter
        => Refilled(from[t], reading[t]) >= Cost
=============================================================================
