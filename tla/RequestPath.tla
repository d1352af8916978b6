----------------------------- MODULE RequestPath -----------------------------
(***************************************************************************)
(* The way of a request to its handler (server/http.rs), behind the checks  *)
(* of `serve` before it listens (main.rs).  create_router puts three layers *)
(* around the handlers: the rate limiter, the API keys, the origins.  Only  *)
(* the limiter (RateLimiter) has a state; what the other two decide is a    *)
(* function of the request and of what the command line made of itself.     *)
(*                                                                         *)
(* A request that costs a token is read and checked like RateLimiter says,  *)
(* and only then goes on to the other layers; one that does not goes past   *)
(* the limiter, at any moment.  The limiter looks at nothing of a request   *)
(* but its address, so that which request it was may be chosen behind it.   *)
(*                                                                         *)
(* A key, a header or an origin is one of a few values that the code tells  *)
(* apart; "key" is the operator's, and "blank" any text of spaces.          *)
(***************************************************************************)
EXTENDS RateLimiter

VARIABLES
    policy,     \* what a command line that passed the checks made of itself
    served,     \* history: requests under /v1 that a handler ran for, by address
    keyless,    \* history: did a handler run that is no probe's, without the key
    turnedAway  \* history: was a probe or an allowed preflight turned away

pathVars == <<vars, policy, served, keyless, turnedAway>>

---------------------------------------------------------------------------
(* The start of serve *)

\* bindAll is the flag or NIHOSTT_ALLOW_BIND_ANY, optOut the flag
\* --allow-unauthenticated-public.
CommandLines ==
    [host : {"127.0.0.1", "localhost", "0.0.0.0"}, bindAll : BOOLEAN,
     apiKeys : SUBSET {"blank", "key"}, optOut : BOOLEAN, anyOrigin : BOOLEAN]

IsLoopbackHost(host) == host \in {"127.0.0.1", "localhost"}

NormalizeApiKeys(values) == values \ {"blank"}

EnsureBindAllowed(cli) == IsLoopbackHost(cli.host) \/ cli.bindAll

\* Mutation: the keys are counted as they were given.
EnsureAuthAllowed_Raw(cli) ==
    IsLoopbackHost(cli.host) \/ cli.apiKeys # {} \/ cli.optOut

EnsureAuthAllowed(cli) ==
    IsLoopbackHost(cli.host) \/ NormalizeApiKeys(cli.apiKeys) # {} \/ cli.optOut

\* The host and the port have to parse as a socket address, which a name does
\* not, although the checks before accept it.
Binds(cli) == cli.host # "localhost"

Policy(cli) ==
    [public |-> ~IsLoopbackHost(cli.host), keys |-> NormalizeApiKeys(cli.apiKeys),
     optOut |-> cli.optOut, anyOrigin |-> cli.anyOrigin]

Policies ==
    {Policy(cli) : cli \in {c \in CommandLines :
                       EnsureBindAllowed(c) /\ EnsureAuthAllowed(c) /\ Binds(c)}}

---------------------------------------------------------------------------
(* The layers, from the outside to the inside *)

Requests ==
    [method : {"OPTIONS", "other"}, path : {"/health", "/ready", "/metrics", "/v1"},
     xApiKey : {"none", "blank", "wrong", "key"}, bearer : {"none", "wrong", "key"},
     origin : {"none", "garbled", "listed", "other"}]

\* rate_limit_layer: the requests that cost a token.
Charged(req) == req.method # "OPTIONS" /\ req.path = "/v1"

\* Mutation: a preflight has to show a key.
AuthRequired_Preflights(pol, req) ==
    pol.keys # {} /\ req.path \notin {"/health", "/ready"}

AuthRequired(pol, req) ==
    pol.keys # {} /\ req.method # "OPTIONS" /\ req.path \notin {"/health", "/ready"}

\* A key in x-api-key is the one that counts, if it is not blank.
ExtractApiKey(req) ==
    IF req.xApiKey \in {"none", "blank"} THEN req.bearer ELSE req.xApiKey

RequestIsAuthorized(pol, req) == ExtractApiKey(req) \in pol.keys

\* A request without an origin passes, an origin that is no text never.
OriginIsAllowed(pol, req) ==
    req.origin \in {"none", "listed"} \/ (req.origin = "other" /\ pol.anyOrigin)

\* Who answers a request, if the bucket had a token for it or had none.
Answer(pol, req, admits) ==
    CASE Charged(req) /\ ~admits -> "rate_limited"
      [] OTHER ->
           IF AuthRequired(pol, req) /\ ~RequestIsAuthorized(pol, req) THEN "unauthorized"
           ELSE IF ~OriginIsAllowed(pol, req) THEN "origin_forbidden"
           ELSE IF req.method = "OPTIONS" THEN "preflight" ELSE "handler"

Probe(req) == req.method # "OPTIONS" /\ req.path \in {"/health", "/ready"}

\* What the steps and the histories tell apart of a request and its answer.
Outcome(pol, req, admits) ==
    LET answer == Answer(pol, req, admits) IN
    [charged    |-> Charged(req),
     served     |-> answer = "handler" /\ req.path = "/v1",
     keyless    |-> /\ answer = "handler" /\ ~Probe(req)
                    /\ "key" \notin {req.xApiKey, req.bearer},
     turnedAway |-> /\ req.origin \in {"none", "listed"}
                    /\ \/ req.method = "OPTIONS" /\ answer # "preflight"
                       \/ Probe(req) /\ answer # "handler"]

Outcomes ==
    [pol \in Policies |-> [admits \in BOOLEAN |->
        {Outcome(pol, req, admits) : req \in Requests}]]

---------------------------------------------------------------------------
(* The steps *)

PathInit ==
    /\ Init
    /\ policy \in Policies
    /\ served = [ip \in Ips |-> 0]
    /\ keyless = FALSE
    /\ turnedAway = FALSE

\* A request of that address is answered.
Respond(ip, outcome) ==
    /\ served' = IF outcome.served THEN [served EXCEPT ![ip] = @ + 1] ELSE served
    /\ keyless' = (keyless \/ outcome.keyless)
    /\ turnedAway' = (turnedAway \/ outcome.turnedAway)
    /\ UNCHANGED policy

\* A request that costs a token: it passes the limiter, or does not.
Limited(t) ==
    /\ Check(t)
    /\ \E outcome \in Outcomes[policy][Refilled(from[t], reading[t]) >= Cost] :
         outcome.charged /\ Respond(from[t], outcome)

\* A request that no limit applies to.
Unlimited(ip) ==
    /\ \E outcome \in Outcomes[policy][TRUE] :
         ~outcome.charged /\ Respond(ip, outcome)
    /\ UNCHANGED vars

PathNext ==
    \/ /\ Tick \/ \E t \in Threads : ReadClock(t)
       /\ UNCHANGED <<policy, served, keyless, turnedAway>>
    \/ \E t \in Threads : Limited(t)
    \/ \E ip \in Ips : Unlimited(ip)

PathSpec == PathInit /\ [][PathNext]_pathVars

---------------------------------------------------------------------------
(* Properties *)

PathTypeOK ==
    /\ TypeOK
    /\ policy \in Policies
    /\ served \in [Ips -> Nat]
    /\ keyless \in BOOLEAN
    /\ turnedAway \in BOOLEAN

\* On an address that others can reach no handler but the two probes' runs for
\* a request without the operator's key, unless the operator opted out of
\* keys: the checks of the start and the layers agree on what a key is.
PublicNeedsKey == policy.public /\ ~policy.optOut => ~keyless

\* Probes, and the preflights of browsers whose origin is allowed, are answered
\* whatever keys they carry and however empty the bucket of their address is.
NeverTurnedAway == ~turnedAway

\* Behind the layers a token was paid for whatever runs under /v1, so that what
\* the limiter keeps bounds the handlers: the work a client can start is a burst,
\* and the rate over the time that passed and that late readings set back.
HandlersLimited ==
    \A ip \in Ips :
        /\ served[ip] <= admitted[ip]
        /\ IF ip \in known
           THEN Cost * served[ip]
                    <= Cost * Burst + Rate * (now - since[ip] + rewound[ip])
           ELSE served[ip] = 0
=============================================================================
