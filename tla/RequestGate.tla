---------------------------- MODULE RequestGate ----------------------------
(***************************************************************************)
(* What a request of a browser passes before its handler: the CSRF check   *)
(* (internal/middlewares/csrf.go) and, on /auth and /otp, the limit on     *)
(* requests per minute (ratelimit.go).  Both keep their state in Redis,    *)
(* whose commands fail, are executed although their answer is lost, and    *)
(* are then sent again by the client library.  Browsers, whose tabs share  *)
(* a cookie but not a header, are modelled by what docs/setup.md asks of   *)
(* them: a tab sends the token it was last given.                          *)
(***************************************************************************)
EXTENDS Naturals, Sequences, FiniteSets

CONSTANTS
    Clients,    \* the browsers; each has an address and a cookie jar
    Tabs,       \* tabs; each has at most one request in flight
    ClientOf,   \* [Tabs -> Clients]
    Configs,    \* the environments the server may be started in
    Limit,      \* RATE_LIMIT_REQUESTS_PER_MINUTE
    TokenTTL,   \* CSRFTokenTTL, in minutes
    MaxMinutes, \* bound: minutes
    MaxTokens,  \* bound: tokens issued
    MaxHits,    \* bound: requests to /auth or /otp of a client in a minute
    MaxFaults   \* bound: commands of Redis that fail or are repeated

(* connected: whether there is a Redis client; production does not start without. *)
Config == [production: BOOLEAN, connected: BOOLEAN, csrf: BOOLEAN, limited: BOOLEAN]

ASSUME GateAssumption ==
    /\ ClientOf \in [Tabs -> Clients]
    /\ Configs \subseteq {c \in Config : c.production => c.connected}
    /\ Limit \in Nat \ {0} /\ TokenTTL \in Nat \ {0}
    /\ {MaxMinutes, MaxTokens, MaxHits, MaxFaults} \subseteq Nat

VARIABLES
    config,   \* the environment of the server
    minute,   \* the clock
    counters, \* the keys "rl:<client>:<minute>" in Redis
    tokens,   \* the keys "csrf:<token>", by order of issue
    cookie,   \* per client, the cookie csrf_token
    held,     \* per tab, the token of the last response
    pc,       \* per tab, what the server does next for its request
    req,      \* per tab, the request in flight
    answer,   \* the answer that the last step has given, if any
    faults,   \* failures so far, for MaxFaults
    forgot,   \* Redis has been restarted; compose gives it no volume
    giver,    \* history: per client, the tab whose response set the cookie
    hits,     \* history: how often a client has been counted in a minute
    passed    \* history: how often a client was let through in a minute by the limiter

clientVars == <<cookie, held, giver>>
history == <<hits, passed>>
vars == <<config, minute, counters, tokens, clientVars, pc, req, answer, faults, forgot, history>>

None == 0   \* no token
Minutes == 0 .. MaxMinutes
Forever == MaxMinutes + 3   \* until: a key without expiry
Key == Clients \X Minutes
Counter == [n: Nat, until: Nat]
NoRequest == [auth |-> FALSE, token |-> None, cookie |-> None, at |-> 0]
Silence == <<>>
Codes == {"none", "ok", "required", "mismatch", "invalid", "limited", "unavailable"}

TypeOK ==
    /\ config \in Configs /\ minute \in Minutes
    /\ DOMAIN counters \subseteq Key
    /\ \A k \in DOMAIN counters : counters[k] \in Counter
    /\ tokens \in Seq([at: Minutes, kept: BOOLEAN])
    /\ {cookie[c] : c \in Clients} \cup {held[t] : t \in Tabs} \subseteq 0 .. Len(tokens)
    /\ pc \in [Tabs -> {"idle", "receive", "check", "count", "incr", "expire"}]
    /\ req \in [Tabs -> [auth: BOOLEAN, token: Nat, cookie: Nat, at: Minutes]]
    /\ answer \in [tab: Tabs, code: Codes] \cup {Silence}
    /\ faults \in 0 .. MaxFaults /\ forgot \in BOOLEAN
    /\ \A t \in Tabs : pc[t] \in {"incr", "expire"} => minute <= req[t].at + 1

-----------------------------------------------------------------------------
(* Redis *)

Stored(k) == k \in DOMAIN counters /\ minute < counters[k].until

Good(token) == token \in DOMAIN tokens /\ tokens[token].kept /\ minute < tokens[token].at + TokenTTL

(* Without a fault a command is executed once and answered. *)
Sound == UNCHANGED faults
Fault == faults < MaxFaults /\ faults' = faults + 1

(* The key after n more executions of INCR, which leaves its expiry alone. *)
Incremented(k, n) ==
    LET old == IF Stored(k) THEN counters[k] ELSE [n |-> 0, until |-> Forever]
        new == [old EXCEPT !.n = @ + n]
    IN  [x \in DOMAIN counters \cup {k} |-> IF x = k THEN new ELSE counters[x]]

(* Mutant of Window: the bucket is named after the minute alone, not the date. *)
Window_OfTheHour(m) == m % 2

(* The bucket of a minute: its name holds the date and the time. *)
Window(m) == m

(* The key that counts the request of t, named when the clock was read. *)
KeyOf(t) == <<ClientOf[t], Window(req[t].at)>>

Counts(t, n) ==
    /\ counters' = IF n = 0 THEN counters ELSE Incremented(KeyOf(t), n)
    /\ hits' = [hits EXCEPT ![ClientOf[t]][req[t].at] = @ + n]

-----------------------------------------------------------------------------
(* Answers *)

GoesTo(t, next) ==
    /\ pc' = [pc EXCEPT ![t] = next]
    /\ answer' = Silence

Answers(t, code) ==
    /\ pc' = [pc EXCEPT ![t] = "idle"]
    /\ req' = [req EXCEPT ![t] = NoRequest]
    /\ answer' = [tab |-> t, code |-> code]

(* The request ends here, before the handlers that the limit guards. *)
Turn(t, code) ==
    /\ Answers(t, code)
    /\ UNCHANGED passed

(* The middleware at hand is passed. *)
Continue(t, next) ==
    /\ GoesTo(t, next)
    /\ UNCHANGED <<req, passed>>

(* The limiter lets the request through to the handler. *)
Admit(t) ==
    /\ Answers(t, "ok")
    /\ passed' = [passed EXCEPT ![ClientOf[t]][req[t].at] = @ + 1]

-----------------------------------------------------------------------------
(* GET requests *)

(* Mutant of IssueCSRFToken: the error of SET is dropped. *)
IssueCSRFToken_Unchecked(t) ==
    /\ pc[t] = "idle"
    /\ config.csrf
    /\ Len(tokens) < MaxTokens
    /\ \/ Sound /\ tokens' = Append(tokens, [at |-> minute, kept |-> TRUE])
       \/ Fault /\ UNCHANGED tokens
    /\ req' = [req EXCEPT ![t].token = Len(tokens) + 1]
    /\ GoesTo(t, "receive")
    /\ UNCHANGED <<config, minute, counters, clientVars, forgot, history>>

(* A GET gives its tab a new token: without Redis 503, and 500 when SET fails. *)
IssueCSRFToken(t) ==
    LET token == Append(tokens, [at |-> minute, kept |-> TRUE])
    IN  /\ pc[t] = "idle"
        /\ config.csrf
        /\ \/ /\ ~config.connected
              /\ Turn(t, "unavailable")
              /\ UNCHANGED <<tokens, faults>>
           \/ /\ config.connected
              /\ Len(tokens) < MaxTokens
              /\ Sound
              /\ tokens' = token
              /\ req' = [req EXCEPT ![t].token = Len(token)]
              /\ GoesTo(t, "receive") /\ UNCHANGED passed
           \/ /\ config.connected
              /\ Fault
              /\ tokens' = tokens \/ (Len(tokens) < MaxTokens /\ tokens' = token)
              /\ Turn(t, "unavailable")
    /\ UNCHANGED <<config, minute, counters, clientVars, forgot, hits>>

(* The response arrives: the cookie of the browser and the header for the tab. *)
Receive(t) ==
    LET c == ClientOf[t]
    IN  /\ pc[t] = "receive"
        /\ cookie' = [cookie EXCEPT ![c] = req[t].token]
        /\ held' = [held EXCEPT ![t] = req[t].token]
        /\ giver' = [giver EXCEPT ![c] = t]
        /\ Turn(t, "ok")
        /\ UNCHANGED <<config, minute, counters, tokens, faults, forgot, hits>>

-----------------------------------------------------------------------------
(* A mutating request *)

(* A browser drops the cookie CSRFTokenTTL after it has received it. *)
CookiesSent(c) ==
    IF cookie[c] # None /\ tokens[cookie[c]].at + TokenTTL <= minute
    THEN {cookie[c], None}
    ELSE {cookie[c]}

(* auth: a route of /auth or /otp, which the limit guards. *)
Post(t) ==
    /\ pc[t] = "idle"
    /\ \E auth \in BOOLEAN, sent \in CookiesSent(ClientOf[t]) :
          /\ auth => hits[ClientOf[t]][minute] < MaxHits
          /\ req' = [req EXCEPT ![t] =
                [auth |-> auth, token |-> held[t], cookie |-> sent, at |-> 0]]
    /\ GoesTo(t, "check")
    /\ UNCHANGED <<config, minute, counters, tokens, clientVars, faults, forgot, history>>

(* The check is passed: the limiter, or the handler. *)
PassesCheck(t) ==
    IF req[t].auth THEN Continue(t, "count") ELSE Turn(t, "ok")

(* Mutant of CSRFMiddleware: a token is burned by the request that it admits. *)
CSRFMiddleware_Burns(t) ==
    /\ pc[t] = "check"
    /\ \/ ~config.csrf /\ PassesCheck(t) /\ UNCHANGED <<tokens, faults>>
       \/ /\ config.csrf /\ Good(req[t].token) /\ Sound
          /\ tokens' = [tokens EXCEPT ![req[t].token].kept = FALSE]
          /\ PassesCheck(t)
       \/ /\ config.csrf /\ ~Good(req[t].token)
          /\ Turn(t, IF req[t].token = None THEN "required" ELSE "invalid")
          /\ UNCHANGED <<tokens, faults>>
    /\ UNCHANGED <<config, minute, counters, clientVars, forgot, hits>>

(***************************************************************************)
(* The header, the header against the cookie, and the token in Redis.  An  *)
(* error of GET leaves the value empty, which the test for a wrong value   *)
(* meets first: the answer is 403, and the branch for 503 is never taken.  *)
(***************************************************************************)
CSRFMiddleware(t) ==
    LET r == req[t]
        mismatch == r.cookie # None /\ r.cookie # r.token
    IN  /\ pc[t] = "check"
        /\ \/ ~config.csrf /\ PassesCheck(t) /\ Sound
           \/ config.csrf /\ r.token = None /\ Turn(t, "required") /\ Sound
           \/ /\ config.csrf /\ r.token # None
              /\ \/ mismatch /\ Turn(t, "mismatch") /\ Sound
                 \/ ~mismatch /\ Good(r.token) /\ PassesCheck(t) /\ Sound
                 \/ /\ ~mismatch /\ ~Good(r.token) /\ Sound
                    /\ Turn(t, IF config.connected THEN "invalid" ELSE "unavailable")
                 \/ ~mismatch /\ config.connected /\ Fault /\ Turn(t, "invalid")
        /\ UNCHANGED <<config, minute, counters, tokens, clientVars, forgot, hits>>

(* RateLimitMiddleware, up to the name of the key, which is kept over the INCR. *)
ReadClock(t) ==
    /\ pc[t] = "count"
    /\ IF config.limited /\ config.connected
       THEN /\ req' = [req EXCEPT ![t].at = minute]
            /\ GoesTo(t, "incr") /\ UNCHANGED passed
       ELSE Turn(t, IF config.limited /\ config.production THEN "unavailable" ELSE "ok")
    /\ UNCHANGED <<config, minute, counters, tokens, clientVars, faults, forgot, hits>>

Decide(t, n) == IF n > Limit THEN Turn(t, "limited") ELSE Admit(t)

(* How often the client library sends a command at most: MaxRetries is 3. *)
Tries == 4

(* INCR answers, perhaps only after the library has sent it again. *)
Incr(t) ==
    /\ pc[t] = "incr"
    /\ \/ Sound /\ Counts(t, 1)
       \/ Fault /\ \E n \in 2 .. Tries : Counts(t, n)
    /\ LET n == counters'[KeyOf(t)].n
       IN  IF n = 1 THEN Continue(t, "expire") ELSE Decide(t, n)
    /\ UNCHANGED <<config, minute, tokens, clientVars, forgot>>

(* INCR fails, however often it was executed: production turns the request away. *)
IncrFails(t) ==
    /\ pc[t] = "incr"
    /\ Fault
    /\ \E n \in 0 .. Tries : Counts(t, n)
    /\ IF config.production THEN Turn(t, "unavailable") ELSE Admit(t)
    /\ UNCHANGED <<config, minute, tokens, clientVars, forgot>>

(* Mutant of KeyLife: the key of a minute is kept for one minute. *)
KeyLife_One == 1

KeyLife == 2

(* EXPIRE by the request that has created the key; its failure is only logged. *)
Expire(t) ==
    /\ pc[t] = "expire"
    /\ \/ /\ Sound
          /\ counters' = IF Stored(KeyOf(t))
                         THEN [counters EXCEPT ![KeyOf(t)].until = minute + KeyLife]
                         ELSE counters
       \/ Fault /\ UNCHANGED counters
    /\ Decide(t, 1)
    /\ UNCHANGED <<config, minute, tokens, clientVars, forgot, hits>>

-----------------------------------------------------------------------------
(* The process ends, or the connection breaks: the tab gets no answer. *)
Breaks(t) ==
    /\ pc[t] # "idle"
    /\ Turn(t, "none")
    /\ UNCHANGED <<config, minute, counters, tokens, clientVars, faults, forgot, hits>>

(* Of the minutes before the last one nothing is told any more. *)
Recent(told) ==
    [c \in Clients |-> [m \in Minutes |-> IF m < minute THEN 0 ELSE told[c][m]]]

(* A minute passes.  The library gives a command up within seconds. *)
Tick ==
    /\ minute < MaxMinutes
    /\ \A t \in Tabs : pc[t] \in {"incr", "expire"} => req[t].at = minute
    /\ minute' = minute + 1
    /\ counters' = [k \in {x \in DOMAIN counters : minute' < counters[x].until} |-> counters[k]]
    /\ answer' = Silence
    /\ hits' = Recent(hits) /\ passed' = Recent(passed)
    /\ UNCHANGED <<config, tokens, clientVars, pc, req, faults, forgot>>

(* Redis is restarted and has lost what it held. *)
Forget ==
    /\ ~forgot
    /\ config.connected
    /\ forgot' = TRUE
    /\ counters' = <<>>
    /\ tokens' = [i \in DOMAIN tokens |-> [tokens[i] EXCEPT !.kept = FALSE]]
    /\ answer' = Silence
    /\ UNCHANGED <<config, minute, clientVars, pc, req, faults, history>>

Init ==
    /\ config \in Configs
    /\ minute = 0 /\ faults = 0 /\ forgot = FALSE
    /\ counters = <<>> /\ tokens = <<>>
    /\ cookie = [c \in Clients |-> None]
    /\ held = [t \in Tabs |-> None]
    /\ pc = [t \in Tabs |-> "idle"]
    /\ req = [t \in Tabs |-> NoRequest]
    /\ answer = Silence
    /\ giver \in [Clients -> Tabs]
    /\ hits = [c \in Clients |-> [m \in Minutes |-> 0]]
    /\ passed = hits

Next ==
    \/ \E t \in Tabs :
          \/ IssueCSRFToken(t) \/ Receive(t)
          \/ Post(t) \/ CSRFMiddleware(t)
          \/ ReadClock(t) \/ Incr(t) \/ IncrFails(t) \/ Expire(t) \/ Breaks(t)
    \/ Tick \/ Forget

Spec == Init /\ [][Next]_vars

-----------------------------------------------------------------------------
(* Properties *)

(***************************************************************************)
(* In production no more requests of a client get through in one minute    *)
(* than the limit, however late the INCR comes after the clock was read    *)
(* and whatever commands fail; only a restart of Redis forgets some.       *)
(***************************************************************************)
MinuteHolds ==
    config.production /\ config.limited /\ ~forgot =>
        \A c \in Clients, m \in Minutes : passed[c][m] <= Limit

(***************************************************************************)
(* A client is turned away only because of that very minute: its requests  *)
(* were counted more often than the limit allows.  A key whose EXPIRE was  *)
(* lost (the process ended, the command failed, or the first INCR was      *)
(* repeated and none answered 1) stays in Redis and blocks nobody.         *)
(***************************************************************************)
LimitedForThatMinute ==
    [][\A t \in Tabs : pc[t] # "idle" /\ answer' = [tab |-> t, code |-> "limited"] =>
          hits'[ClientOf[t]][req[t].at] > Limit]_vars

(***************************************************************************)
(* "Token remains valid for TTL (not burned per request)": a tab that      *)
(* sends the token it was last given is told that it is not valid only     *)
(* when its time is over, when Redis has failed, or when Redis has lost    *)
(* it; and that it does not match the cookie only when another tab has     *)
(* been given a token since.                                               *)
(***************************************************************************)
TokenStaysGood ==
    [][\A t \in Tabs : pc[t] = "check" /\ pc'[t] = "idle" =>
          /\ answer'.code = "invalid" =>
                tokens[req[t].token].at + TokenTTL <= minute \/ faults' # faults \/ forgot
          /\ answer'.code = "mismatch" => giver[ClientOf[t]] # t]_vars
=============================================================================
