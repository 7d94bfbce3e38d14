------------------------ MODULE RequestGate_proofs ------------------------
(***************************************************************************)
(* Proofs about RequestGate: for every limit, lifetime of tokens, number   *)
(* of browsers and tabs, and number of faults, the types, the limit of     *)
(* requests per minute, the reason of an answer 429, and the reasons for   *)
(* which a token is refused.  They rest on three inductive invariants:     *)
(* TokenInv (cookies, headers and tokens agree), HitsInv (no key holds     *)
(* more than was counted) and CountInv (a key holds at least what was let  *)
(* through).                                                               *)
(***************************************************************************)
EXTENDS RequestGate, SequenceTheorems, TLAPS

PC == {"idle", "receive", "check", "count", "incr", "expire"}

(* The parts of the state that TypeOK leaves untyped, and the bounds of the   *)
(* token numbers and minutes that a request holds.                            *)
Numbers ==
    /\ counters = [k \in DOMAIN counters |-> counters[k]]
    /\ hits \in [Clients -> [Minutes -> Nat]]
    /\ passed \in [Clients -> [Minutes -> Nat]]
    /\ cookie \in [Clients -> Nat] /\ held \in [Tabs -> Nat]
    /\ giver \in [Clients -> Tabs]
    /\ \A t \in Tabs : req[t].token <= Len(tokens) /\ req[t].cookie <= Len(tokens)
    /\ \A t \in Tabs : req[t].at <= minute
    /\ \A t \in Tabs : pc[t] \in {"incr", "expire"} => config.connected /\ config.limited

TypeInv == TypeOK /\ Numbers

(* A token is only missing in Redis after a restart of it; the cookie of a    *)
(* browser is what the tab holds whose response has set it; and a request of  *)
(* that tab has sent the two alike.                                           *)
TokenInv ==
    /\ \A i \in DOMAIN tokens : ~tokens[i].kept => forgot
    /\ \A c \in Clients : cookie[c] # None =>
          ClientOf[giver[c]] = c /\ held[giver[c]] = cookie[c]
    /\ \A t \in Tabs : pc[t] = "check" /\ req[t].cookie # None /\ giver[ClientOf[t]] = t =>
          req[t].cookie = req[t].token

(* A request that has got the answer 1 and is not yet let through. *)
Waits(t, c, m) == pc[t] = "expire" /\ ClientOf[t] = c /\ req[t].at = m

Due(c, m) == IF \E t \in Tabs : Waits(t, c, m) THEN passed[c][m] + 1 ELSE passed[c][m]

(* A key lives as long as a request for its minute can come. *)
KeysLive == \A k \in DOMAIN counters : counters[k].until >= k[2] + KeyLife

(* The requests that were let through, or are about to be, are in the key. *)
Guarded == config.production /\ config.limited /\ ~forgot

Accounted(c, m) ==
    /\ Due(c, m) <= Limit
    /\ Due(c, m) > 0 => <<c, m>> \in DOMAIN counters /\ Due(c, m) <= counters[<<c, m>>].n
    /\ \A t, u \in Tabs : Waits(t, c, m) /\ Waits(u, c, m) => t = u

CountInv ==
    /\ KeysLive
    /\ Guarded =>
        /\ \A c \in Clients, m \in Minutes : minute <= m + 1 => Accounted(c, m)
        /\ \A c \in Clients, m \in Minutes : m + 1 < minute => passed[c][m] = 0

(* The key of a minute that is not over holds no more than was counted. *)
HitsInv ==
    \A k \in DOMAIN counters : minute <= k[2] + 1 => counters[k].n <= hits[k[1]][k[2]]

-----------------------------------------------------------------------------
(* What TypeInv says of the tabs, of Redis and of the history. *)
TabsTyped ==
    /\ pc \in [Tabs -> PC]
    /\ req \in [Tabs -> [auth: BOOLEAN, token: Nat, cookie: Nat, at: Minutes]]
    /\ answer \in [tab: Tabs, code: Codes] \cup {Silence}
    /\ \A t \in Tabs :
        /\ req[t].token <= Len(tokens) /\ req[t].cookie <= Len(tokens)
        /\ req[t].at <= minute
        /\ pc[t] \in {"incr", "expire"} =>
              minute <= req[t].at + 1 /\ config.connected /\ config.limited

CountersTyped ==
    /\ DOMAIN counters \subseteq Key
    /\ \A k \in DOMAIN counters : counters[k] \in Counter
    /\ counters = [k \in DOMAIN counters |-> counters[k]]

HistoryTyped ==
    /\ hits \in [Clients -> [Minutes -> Nat]]
    /\ passed \in [Clients -> [Minutes -> Nat]]

TokensTyped ==
    /\ tokens \in Seq([at: Minutes, kept: BOOLEAN])
    /\ cookie \in [Clients -> 0 .. Len(tokens)]
    /\ held \in [Tabs -> 0 .. Len(tokens)]
    /\ giver \in [Clients -> Tabs]

RestTyped ==
    /\ config \in Configs /\ minute \in Minutes
    /\ faults \in 0 .. MaxFaults /\ forgot \in BOOLEAN

LEMMA TypeParts ==
    TypeInv <=> TabsTyped /\ CountersTyped /\ HistoryTyped /\ TokensTyped /\ RestTyped
<1>1. ASSUME TypeInv
      PROVE  TabsTyped /\ CountersTyped /\ HistoryTyped /\ TokensTyped /\ RestTyped
  <2>1. TabsTyped
    BY <1>1 DEF TypeInv, TypeOK, Numbers, TabsTyped, PC
  <2>2. CountersTyped /\ HistoryTyped /\ RestTyped
    BY <1>1 DEF TypeInv, TypeOK, Numbers, CountersTyped, HistoryTyped, RestTyped
  <2>3. TokensTyped
    BY <1>1 DEF TypeInv, TypeOK, Numbers, TokensTyped
  <2> QED
    BY <2>1, <2>2, <2>3
<1>2. ASSUME TabsTyped, CountersTyped, HistoryTyped, TokensTyped, RestTyped
      PROVE  TypeInv
  <2>1. Len(tokens) \in Nat
    BY <1>2 DEF TokensTyped
  <2>2. TypeOK
    BY <1>2, <2>1 DEF TypeOK, TabsTyped, CountersTyped, TokensTyped, RestTyped, PC
  <2>3. Numbers
    BY <1>2, <2>1 DEF Numbers, TabsTyped, CountersTyped, HistoryTyped, TokensTyped
  <2> QED
    BY <2>2, <2>3 DEF TypeInv
<1> QED
  BY <1>1, <1>2

LEMMA TypePartsNext ==
    TypeInv' <=> TabsTyped' /\ CountersTyped' /\ HistoryTyped' /\ TokensTyped' /\ RestTyped'
BY TypeParts, PTL

LEMMA SettingsAreConfigs ==
    ASSUME TypeInv
    PROVE  /\ config \in Config
           /\ config.production \in BOOLEAN /\ config.connected \in BOOLEAN
           /\ config.csrf \in BOOLEAN /\ config.limited \in BOOLEAN
           /\ config.production => config.connected
<1>1. config \in Configs
  BY DEF TypeInv, TypeOK
<1> QED
  BY <1>1, GateAssumption DEF Config

-----------------------------------------------------------------------------
(* What the ways to end or to continue a request leave of the tabs. *)

(* No other token number and no other minute of a tab gets out of range. *)
Grows == Len(tokens') \in Nat /\ Len(tokens) <= Len(tokens') /\ UNCHANGED <<config, minute>>

LEMMA AnswersTabs ==
    ASSUME TypeInv, NEW t \in Tabs, NEW code \in Codes, Answers(t, code), Grows
    PROVE  TabsTyped'
<1>1. TabsTyped /\ Len(tokens) \in Nat /\ minute \in Nat
  BY TypeParts, GateAssumption DEF TokensTyped, RestTyped, Minutes
<1>2. /\ pc' = [pc EXCEPT ![t] = "idle"]
      /\ req' = [req EXCEPT ![t] = NoRequest]
      /\ answer' = [tab |-> t, code |-> code]
  BY DEF Answers
<1>3. NoRequest \in [auth: BOOLEAN, token: Nat, cookie: Nat, at: Minutes]
  BY GateAssumption DEF NoRequest, None, Minutes
<1>4. /\ pc' \in [Tabs -> PC]
      /\ req' \in [Tabs -> [auth: BOOLEAN, token: Nat, cookie: Nat, at: Minutes]]
      /\ answer' \in [tab: Tabs, code: Codes] \cup {Silence}
  BY <1>1, <1>2, <1>3 DEF TabsTyped, PC
<1>5. ASSUME NEW u \in Tabs
      PROVE  /\ req'[u].token <= Len(tokens') /\ req'[u].cookie <= Len(tokens')
             /\ req'[u].at <= minute'
             /\ pc'[u] \in {"incr", "expire"} =>
                   minute' <= req'[u].at + 1 /\ config'.connected /\ config'.limited
  <2>1. CASE u = t
    BY <1>1, <1>2, <2>1 DEF TabsTyped, NoRequest, None, Grows
  <2>2. CASE u # t
    <3>1. req'[u] = req[u] /\ pc'[u] = pc[u]
      BY <1>1, <1>2, <2>2 DEF TabsTyped
    <3> QED
      BY <1>1, <3>1 DEF TabsTyped, Grows
  <2> QED
    BY <2>1, <2>2
<1> QED
  BY <1>4, <1>5 DEF TabsTyped

LEMMA GoesToTabs ==
    ASSUME TypeInv, NEW t \in Tabs, NEW next \in PC, GoesTo(t, next), Grows,
           req' \in [Tabs -> [auth: BOOLEAN, token: Nat, cookie: Nat, at: Minutes]],
           \A u \in Tabs \ {t} : req'[u] = req[u],
           req'[t].token <= Len(tokens'), req'[t].cookie <= Len(tokens'),
           req'[t].at <= minute,
           next \in {"incr", "expire"} =>
              minute <= req'[t].at + 1 /\ config.connected /\ config.limited
    PROVE  TabsTyped'
<1>1. TabsTyped /\ Len(tokens) \in Nat /\ minute \in Nat
  BY TypeParts, GateAssumption DEF TokensTyped, RestTyped, Minutes
<1>2. pc' = [pc EXCEPT ![t] = next] /\ answer' = Silence
  BY DEF GoesTo
<1>3. pc' \in [Tabs -> PC]
  BY <1>1, <1>2 DEF TabsTyped
<1>5. ASSUME NEW u \in Tabs
      PROVE  /\ req'[u].token <= Len(tokens') /\ req'[u].cookie <= Len(tokens')
             /\ req'[u].at <= minute'
             /\ pc'[u] \in {"incr", "expire"} =>
                   minute' <= req'[u].at + 1 /\ config'.connected /\ config'.limited
  <2>1. CASE u = t
    BY <1>1, <1>2, <2>1 DEF TabsTyped, Grows
  <2>2. CASE u # t
    <3>1. req'[u] = req[u] /\ pc'[u] = pc[u]
      BY <1>1, <1>2, <2>2 DEF TabsTyped
    <3> QED
      BY <1>1, <3>1 DEF TabsTyped, Grows
  <2> QED
    BY <2>1, <2>2
<1> QED
  BY <1>2, <1>3, <1>5 DEF TabsTyped

LEMMA TurnTabs ==
    ASSUME TypeInv, NEW t \in Tabs, NEW code \in Codes, Turn(t, code), Grows
    PROVE  TabsTyped' /\ passed' = passed
BY AnswersTabs DEF Turn

LEMMA ContinueTabs ==
    ASSUME TypeInv, NEW t \in Tabs, NEW next \in PC, Continue(t, next), Grows,
           next \in {"incr", "expire"} => pc[t] \in {"incr", "expire"}
    PROVE  TabsTyped' /\ passed' = passed
<1>1. TabsTyped /\ Len(tokens) \in Nat /\ minute \in Nat
  BY TypeParts, GateAssumption DEF TokensTyped, RestTyped, Minutes
<1>2. GoesTo(t, next) /\ req' = req /\ passed' = passed
  BY DEF Continue
<1>3. /\ req[t].token <= Len(tokens') /\ req[t].cookie <= Len(tokens')
  BY <1>1 DEF TabsTyped, Grows
<1> QED
  BY <1>1, <1>2, <1>3, GoesToTabs DEF TabsTyped

LEMMA AdmitTabs ==
    ASSUME TypeInv, NEW t \in Tabs, Admit(t), Grows
    PROVE  /\ TabsTyped'
           /\ passed' = [passed EXCEPT ![ClientOf[t]][req[t].at] = @ + 1]
           /\ passed' \in [Clients -> [Minutes -> Nat]]
<1>1. TabsTyped /\ HistoryTyped
  BY TypeParts
<1>2. ClientOf[t] \in Clients /\ req[t].at \in Minutes
  BY <1>1, GateAssumption DEF TabsTyped
<1>3. TabsTyped'
  BY AnswersTabs DEF Admit, Codes
<1>4. passed' = [passed EXCEPT ![ClientOf[t]][req[t].at] = @ + 1]
  BY DEF Admit
<1> QED
  BY <1>1, <1>2, <1>3, <1>4 DEF HistoryTyped

LEMMA DecideTabs ==
    ASSUME TypeInv, NEW t \in Tabs, NEW n, Decide(t, n), Grows
    PROVE  TabsTyped' /\ passed' \in [Clients -> [Minutes -> Nat]]
<1>1. CASE n > Limit
  BY <1>1, TurnTabs, TypeParts DEF Decide, Codes, HistoryTyped
<1>2. CASE ~(n > Limit)
  BY <1>2, AdmitTabs DEF Decide
<1> QED
  BY <1>1, <1>2

-----------------------------------------------------------------------------
(* Each action preserves the types. *)

LEMMA IssueTypes ==
    ASSUME TypeInv, NEW t \in Tabs, IssueCSRFToken(t)
    PROVE  TypeInv'
<1> DEFINE T == [at: Minutes, kept: BOOLEAN]
           token == Append(tokens, [at |-> minute, kept |-> TRUE])
<1>1. TabsTyped /\ CountersTyped /\ HistoryTyped /\ TokensTyped /\ RestTyped
  BY TypeParts
<1>2. Len(tokens) \in Nat /\ minute \in Nat /\ minute \in Minutes /\ tokens \in Seq(T)
  BY <1>1, GateAssumption DEF TokensTyped, RestTyped, Minutes
<1>3. token \in Seq(T) /\ Len(token) = Len(tokens) + 1
  BY <1>2
<1>4. /\ UNCHANGED <<config, minute, counters, clientVars, forgot, hits>>
      /\ \/ Turn(t, "unavailable") /\ tokens' \in {tokens, token}
            /\ faults' \in {faults, faults + 1} /\ (faults' # faults => faults < MaxFaults)
         \/ /\ faults' = faults /\ tokens' = token
            /\ req' = [req EXCEPT ![t].token = Len(token)]
            /\ GoesTo(t, "receive") /\ UNCHANGED passed
  BY <1>1 DEF IssueCSRFToken, Sound, Fault
<1> HIDE DEF T, token
<1>5. tokens' \in Seq(T) /\ Len(tokens') \in Nat /\ Len(tokens) <= Len(tokens')
  BY <1>2, <1>3, <1>4
<1>6. Grows
  BY <1>4, <1>5 DEF Grows
<1>7. TabsTyped' /\ passed' = passed
  <2>1. CASE Turn(t, "unavailable")
    BY <1>6, <2>1, TurnTabs DEF Codes
  <2>2. CASE /\ tokens' = token /\ req' = [req EXCEPT ![t].token = Len(token)]
             /\ GoesTo(t, "receive") /\ UNCHANGED passed
    <3> DEFINE number == Len(token)
    <3>1. number \in Nat /\ req' = [req EXCEPT ![t].token = number]
      BY <1>2, <1>3, <2>2
    <3> HIDE DEF number
    <3>2. /\ req' \in [Tabs -> [auth: BOOLEAN, token: Nat, cookie: Nat, at: Minutes]]
          /\ \A u \in Tabs \ {t} : req'[u] = req[u]
          /\ req'[t].token = number /\ req'[t].cookie = req[t].cookie
          /\ req'[t].at = req[t].at
      BY <1>1, <3>1 DEF TabsTyped
    <3>3. /\ req' \in [Tabs -> [auth: BOOLEAN, token: Nat, cookie: Nat, at: Minutes]]
          /\ \A u \in Tabs \ {t} : req'[u] = req[u]
          /\ req'[t].token = Len(token) /\ req'[t].cookie = req[t].cookie
          /\ req'[t].at = req[t].at
      BY <3>2 DEF number
    <3>4. /\ req'[t].token <= Len(tokens') /\ req'[t].cookie <= Len(tokens')
          /\ req'[t].at <= minute
      BY <1>1, <1>2, <1>3, <2>2, <3>3 DEF TabsTyped
    <3> QED
      BY <1>6, <2>2, <3>3, <3>4, GoesToTabs DEF PC
  <2> QED
    BY <1>4, <2>1, <2>2
<1>8. RestTyped'
  BY <1>1, <1>4, GateAssumption DEF RestTyped
<1>9. TokensTyped'
  BY <1>1, <1>2, <1>4, <1>5 DEF TokensTyped, clientVars, T
<1>10. CountersTyped' /\ HistoryTyped'
  BY <1>1, <1>4, <1>7 DEF CountersTyped, HistoryTyped
<1> QED
  BY <1>7, <1>8, <1>9, <1>10, TypePartsNext

(* An action that leaves tokens, counters, clock and settings alone. *)
LEMMA RestStays ==
    ASSUME TypeInv, UNCHANGED <<config, minute, counters, tokens, forgot, hits>>,
           faults' \in {faults, faults + 1}, faults' # faults => faults < MaxFaults
    PROVE  /\ CountersTyped' /\ RestTyped' /\ Grows
           /\ passed' \in [Clients -> [Minutes -> Nat]] => HistoryTyped'
<1>1. TabsTyped /\ CountersTyped /\ HistoryTyped /\ TokensTyped /\ RestTyped
  BY TypeParts
<1>2. Len(tokens) \in Nat
  BY <1>1 DEF TokensTyped
<1>3. Grows
  BY <1>2 DEF Grows
<1>4. RestTyped'
  BY <1>1, GateAssumption DEF RestTyped
<1> QED
  BY <1>1, <1>3, <1>4 DEF CountersTyped, HistoryTyped

LEMMA ReceiveTypes ==
    ASSUME TypeInv, NEW t \in Tabs, Receive(t)
    PROVE  TypeInv'
<1>1. TabsTyped /\ HistoryTyped /\ TokensTyped
  BY TypeParts
<1>2. /\ UNCHANGED <<config, minute, counters, tokens, faults, forgot, hits>>
      /\ Turn(t, "ok")
      /\ cookie' = [cookie EXCEPT ![ClientOf[t]] = req[t].token]
      /\ held' = [held EXCEPT ![t] = req[t].token]
      /\ giver' = [giver EXCEPT ![ClientOf[t]] = t]
  BY DEF Receive
<1>3. CountersTyped' /\ RestTyped' /\ Grows
      /\ (passed' \in [Clients -> [Minutes -> Nat]] => HistoryTyped')
  BY <1>2, RestStays
<1>4. TabsTyped' /\ passed' = passed
  BY <1>2, <1>3, TurnTabs DEF Codes
<1>5. req[t].token \in 0 .. Len(tokens)
  BY <1>1 DEF TabsTyped, TokensTyped
<1>6. TokensTyped'
  BY <1>1, <1>2, <1>5 DEF TokensTyped
<1> QED
  BY <1>1, <1>3, <1>4, <1>6, TypePartsNext DEF HistoryTyped

LEMMA PostTypes ==
    ASSUME TypeInv, NEW t \in Tabs, Post(t)
    PROVE  TypeInv'
<1>1. TabsTyped /\ HistoryTyped /\ TokensTyped /\ RestTyped
  BY TypeParts
<1>2. /\ UNCHANGED <<config, minute, counters, tokens, faults, forgot, hits>>
      /\ UNCHANGED clientVars /\ UNCHANGED passed
      /\ GoesTo(t, "check")
  BY DEF Post, history
<1>3. PICK auth \in BOOLEAN, sent \in CookiesSent(ClientOf[t]) :
         req' = [req EXCEPT ![t] =
            [auth |-> auth, token |-> held[t], cookie |-> sent, at |-> 0]]
  BY DEF Post
<1>4. CountersTyped' /\ RestTyped' /\ Grows
      /\ (passed' \in [Clients -> [Minutes -> Nat]] => HistoryTyped')
  BY <1>2, RestStays
<1>5. /\ Len(tokens) \in Nat /\ minute \in Nat /\ 0 \in Minutes
      /\ held[t] \in 0 .. Len(tokens) /\ cookie[ClientOf[t]] \in 0 .. Len(tokens)
  BY <1>1, GateAssumption DEF TokensTyped, RestTyped, Minutes
<1>6. sent \in 0 .. Len(tokens)
  BY <1>3, <1>5 DEF CookiesSent, None
<1>7. /\ req' \in [Tabs -> [auth: BOOLEAN, token: Nat, cookie: Nat, at: Minutes]]
      /\ \A u \in Tabs \ {t} : req'[u] = req[u]
      /\ req'[t] = [auth |-> auth, token |-> held[t], cookie |-> sent, at |-> 0]
  BY <1>1, <1>3, <1>5, <1>6 DEF TabsTyped
<1>8. /\ req'[t].token <= Len(tokens') /\ req'[t].cookie <= Len(tokens')
      /\ req'[t].at <= minute
  BY <1>2, <1>5, <1>6, <1>7
<1>9. TabsTyped'
  BY <1>2, <1>4, <1>7, <1>8, GoesToTabs DEF PC
<1>10. TokensTyped'
  BY <1>1, <1>2 DEF TokensTyped, clientVars
<1> QED
  BY <1>1, <1>2, <1>4, <1>9, <1>10, TypePartsNext DEF HistoryTyped

(* What the check of the token comes to. *)
LEMMA CheckOutcome ==
    ASSUME NEW t \in Tabs, CSRFMiddleware(t)
    PROVE  /\ UNCHANGED <<config, minute, counters, tokens, clientVars, forgot, hits>>
           /\ faults' \in {faults, faults + 1} /\ (faults' # faults => faults < MaxFaults)
           /\ (\E code \in Codes : Turn(t, code)) \/ Continue(t, "count")
<1>1. PassesCheck(t) => (\E code \in Codes : Turn(t, code)) \/ Continue(t, "count")
  BY DEF PassesCheck, Codes
<1>2. \A code \in Codes : Turn(t, code) => \E x \in Codes : Turn(t, x)
  OBVIOUS
<1>3. {"required", "mismatch", "invalid", "unavailable"} \subseteq Codes
  BY DEF Codes
<1> QED
  BY <1>1, <1>2, <1>3 DEF CSRFMiddleware, Sound, Fault

LEMMA CheckTypes ==
    ASSUME TypeInv, NEW t \in Tabs, CSRFMiddleware(t)
    PROVE  TypeInv'
<1>1. HistoryTyped /\ TokensTyped
  BY TypeParts
<1>2. /\ UNCHANGED <<config, minute, counters, tokens, clientVars, forgot, hits>>
      /\ faults' \in {faults, faults + 1} /\ (faults' # faults => faults < MaxFaults)
      /\ (\E code \in Codes : Turn(t, code)) \/ Continue(t, "count")
  BY CheckOutcome
<1>3. CountersTyped' /\ RestTyped' /\ Grows
      /\ (passed' \in [Clients -> [Minutes -> Nat]] => HistoryTyped')
  BY <1>2, RestStays
<1>4. TabsTyped' /\ passed' = passed
  BY <1>2, <1>3, TurnTabs, ContinueTabs DEF PC
<1>5. TokensTyped'
  BY <1>1, <1>2 DEF TokensTyped, clientVars
<1> QED
  BY <1>1, <1>3, <1>4, <1>5, TypePartsNext DEF HistoryTyped

LEMMA ReadClockTypes ==
    ASSUME TypeInv, NEW t \in Tabs, ReadClock(t)
    PROVE  TypeInv'
<1>1. TabsTyped /\ HistoryTyped /\ TokensTyped /\ RestTyped
  BY TypeParts
<1>2. UNCHANGED <<config, minute, counters, tokens, clientVars, faults, forgot, hits>>
  BY DEF ReadClock
<1>3. CountersTyped' /\ RestTyped' /\ Grows
      /\ (passed' \in [Clients -> [Minutes -> Nat]] => HistoryTyped')
  BY <1>2, RestStays
<1>4. TabsTyped' /\ passed' = passed
  <2>1. CASE config.limited /\ config.connected
    <3>1. /\ req' = [req EXCEPT ![t].at = minute]
          /\ GoesTo(t, "incr") /\ passed' = passed
      BY <2>1 DEF ReadClock
    <3>2. Len(tokens) \in Nat /\ minute \in Nat /\ minute \in Minutes
      BY <1>1, GateAssumption DEF TokensTyped, RestTyped, Minutes
    <3>3. /\ req' \in [Tabs -> [auth: BOOLEAN, token: Nat, cookie: Nat, at: Minutes]]
          /\ \A u \in Tabs \ {t} : req'[u] = req[u]
          /\ req'[t].token = req[t].token /\ req'[t].cookie = req[t].cookie
          /\ req'[t].at = minute
      BY <1>1, <3>1, <3>2 DEF TabsTyped
    <3>4. /\ req'[t].token <= Len(tokens') /\ req'[t].cookie <= Len(tokens')
          /\ req'[t].at <= minute /\ minute <= req'[t].at + 1
      BY <1>1, <1>2, <3>2, <3>3 DEF TabsTyped
    <3> QED
      BY <1>3, <2>1, <3>1, <3>3, <3>4, GoesToTabs DEF PC
  <2>2. CASE ~(config.limited /\ config.connected)
    <3>1. Turn(t, IF config.limited /\ config.production THEN "unavailable" ELSE "ok")
      BY <2>2 DEF ReadClock
    <3> QED
      BY <1>3, <3>1, TurnTabs DEF Codes
  <2> QED
    BY <2>1, <2>2
<1>5. TokensTyped'
  BY <1>1, <1>2 DEF TokensTyped, clientVars
<1> QED
  BY <1>1, <1>3, <1>4, <1>5, TypePartsNext DEF HistoryTyped

-----------------------------------------------------------------------------
(* The counters. *)

LEMMA KeyTypes ==
    ASSUME TypeInv, NEW t \in Tabs
    PROVE  /\ ClientOf[t] \in Clients /\ req[t].at \in Minutes
           /\ KeyOf(t) = <<ClientOf[t], req[t].at>> /\ KeyOf(t) \in Key
           /\ req[t].at \in Nat /\ minute \in Nat /\ Forever \in Nat
           /\ req[t].at <= MaxMinutes /\ minute <= MaxMinutes /\ MaxMinutes \in Nat
<1>1. TabsTyped /\ RestTyped
  BY TypeParts
<1>2. ClientOf[t] \in Clients /\ req[t].at \in Minutes
  BY <1>1, GateAssumption DEF TabsTyped
<1> QED
  BY <1>1, <1>2, GateAssumption DEF KeyOf, Window, Key, Minutes, RestTyped, Forever

(* The key after INCR: it is there, with what it held before when it was    *)
(* stored, and with no expiry when it was not; no other key is touched.     *)
LEMMA IncrementedKey ==
    ASSUME TypeInv, NEW k \in Key, NEW n \in Nat
    PROVE  /\ DOMAIN Incremented(k, n) = DOMAIN counters \cup {k}
           /\ Incremented(k, n) = [x \in DOMAIN Incremented(k, n) |-> Incremented(k, n)[x]]
           /\ Incremented(k, n)[k] \in Counter
           /\ Stored(k) => /\ Incremented(k, n)[k].n = counters[k].n + n
                           /\ Incremented(k, n)[k].until = counters[k].until
           /\ ~Stored(k) => /\ Incremented(k, n)[k].n = n
                            /\ Incremented(k, n)[k].until = Forever
           /\ \A x \in DOMAIN counters \ {k} : Incremented(k, n)[x] = counters[x]
<1> DEFINE old == IF Stored(k) THEN counters[k] ELSE [n |-> 0, until |-> Forever]
           new == [old EXCEPT !.n = @ + n]
<1>1. CountersTyped /\ Forever \in Nat
  BY TypeParts, GateAssumption DEF Forever
<1>2. old \in Counter
  BY <1>1 DEF CountersTyped, Stored, Counter
<1>3. /\ Stored(k) => old = counters[k]
      /\ ~Stored(k) => old.n = 0 /\ old.until = Forever
  OBVIOUS
<1>4. Incremented(k, n) = [x \in DOMAIN counters \cup {k} |-> IF x = k THEN new ELSE counters[x]]
  BY DEF Incremented
<1> HIDE DEF old
<1>5. new \in Counter /\ new.n = old.n + n /\ new.until = old.until
  BY <1>2 DEF Counter
<1>6. old.n + n = n + old.n /\ (old.n = 0 => old.n + n = n)
  BY <1>2 DEF Counter
<1> HIDE DEF new
<1> QED
  BY <1>3, <1>4, <1>5, <1>6

LEMMA CountsTypes ==
    ASSUME TypeInv, NEW t \in Tabs, NEW n \in Nat, Counts(t, n)
    PROVE  /\ CountersTyped'
           /\ hits' = [hits EXCEPT ![ClientOf[t]][req[t].at] = @ + n]
           /\ hits' \in [Clients -> [Minutes -> Nat]]
           /\ n > 0 => /\ KeyOf(t) \in DOMAIN counters'
                       /\ counters' = Incremented(KeyOf(t), n)
                       /\ counters'[KeyOf(t)].n \in Nat
<1> DEFINE k == KeyOf(t)
<1>1. CountersTyped /\ HistoryTyped
  BY TypeParts
<1>2. k \in Key /\ ClientOf[t] \in Clients /\ req[t].at \in Minutes
  BY KeyTypes
<1> HIDE DEF k
<1>3. CASE n = 0
  <2>1. counters' = counters
    BY <1>3 DEF Counts
  <2> QED
    BY <1>1, <1>2, <1>3, <2>1 DEF CountersTyped, HistoryTyped, Counts, k
<1>4. CASE n > 0
  <2> DEFINE new == Incremented(k, n)
  <2>1. counters' = new
    BY <1>4 DEF Counts, k
  <2>2. /\ DOMAIN new = DOMAIN counters \cup {k}
        /\ new = [x \in DOMAIN new |-> new[x]]
        /\ new[k] \in Counter
        /\ \A x \in DOMAIN counters \ {k} : new[x] = counters[x]
    BY <1>2, IncrementedKey
  <2> HIDE DEF new
  <2>3. CountersTyped'
    BY <1>1, <1>2, <2>1, <2>2 DEF CountersTyped
  <2>4. new[k].n \in Nat
    BY <2>2 DEF Counter
  <2>5. hits' = [hits EXCEPT ![ClientOf[t]][req[t].at] = @ + n]
    BY DEF Counts
  <2>6. hits' \in [Clients -> [Minutes -> Nat]]
    BY <1>1, <1>2, <2>5 DEF HistoryTyped
  <2> QED
    BY <2>1, <2>2, <2>3, <2>4, <2>5, <2>6 DEF k, new
<1> QED
  BY <1>3, <1>4

LEMMA IncrOutcome ==
    ASSUME TypeInv, NEW t \in Tabs, Incr(t)
    PROVE  /\ UNCHANGED <<config, minute, tokens, clientVars, forgot>>
           /\ faults' \in {faults, faults + 1} /\ (faults' # faults => faults < MaxFaults)
           /\ pc[t] = "incr"
           /\ \E n \in 1 .. Tries : Counts(t, n)
           /\ IF counters'[KeyOf(t)].n = 1 THEN Continue(t, "expire")
              ELSE Decide(t, counters'[KeyOf(t)].n)
BY DEF Incr, Sound, Fault, Tries

(* As RestStays, for an action that counts. *)
LEMMA CountsRest ==
    ASSUME TypeInv, UNCHANGED <<config, minute, tokens, clientVars, forgot>>,
           faults' \in {faults, faults + 1}, faults' # faults => faults < MaxFaults
    PROVE  TokensTyped' /\ RestTyped' /\ Grows
<1>1. TokensTyped /\ RestTyped
  BY TypeParts
<1>2. Len(tokens) \in Nat
  BY <1>1 DEF TokensTyped
<1>3. Grows
  BY <1>2 DEF Grows
<1>4. RestTyped'
  BY <1>1, GateAssumption DEF RestTyped
<1> QED
  BY <1>1, <1>3, <1>4 DEF TokensTyped, clientVars

LEMMA IncrTypes ==
    ASSUME TypeInv, NEW t \in Tabs, Incr(t)
    PROVE  TypeInv'
<1>1. /\ UNCHANGED <<config, minute, tokens, clientVars, forgot>>
      /\ faults' \in {faults, faults + 1} /\ (faults' # faults => faults < MaxFaults)
      /\ pc[t] = "incr"
      /\ \E n \in 1 .. Tries : Counts(t, n)
      /\ IF counters'[KeyOf(t)].n = 1 THEN Continue(t, "expire")
         ELSE Decide(t, counters'[KeyOf(t)].n)
  BY IncrOutcome
<1>2. TokensTyped' /\ RestTyped' /\ Grows
  BY <1>1, CountsRest
<1>3. CountersTyped' /\ hits' \in [Clients -> [Minutes -> Nat]]
  <2>1. PICK n \in 1 .. Tries : Counts(t, n)
    BY <1>1
  <2>2. n \in Nat
    BY DEF Tries
  <2> QED
    BY <2>1, <2>2, CountsTypes
<1>4. TabsTyped' /\ passed' \in [Clients -> [Minutes -> Nat]]
  <2>1. CASE counters'[KeyOf(t)].n = 1
    <3>1. TabsTyped' /\ passed' = passed
      BY <1>1, <1>2, <2>1, ContinueTabs DEF PC
    <3> QED
      BY <3>1, TypeParts DEF HistoryTyped
  <2>2. CASE counters'[KeyOf(t)].n # 1
    BY <1>1, <1>2, <2>2, DecideTabs
  <2> QED
    BY <2>1, <2>2
<1> QED
  BY <1>2, <1>3, <1>4, TypePartsNext DEF HistoryTyped

LEMMA IncrFailsTypes ==
    ASSUME TypeInv, NEW t \in Tabs, IncrFails(t)
    PROVE  TypeInv'
<1>1. /\ UNCHANGED <<config, minute, tokens, clientVars, forgot>>
      /\ faults' \in {faults, faults + 1} /\ (faults' # faults => faults < MaxFaults)
      /\ \E n \in 0 .. Tries : Counts(t, n)
      /\ IF config.production THEN Turn(t, "unavailable") ELSE Admit(t)
  BY DEF IncrFails, Fault
<1>2. TokensTyped' /\ RestTyped' /\ Grows
  BY <1>1, CountsRest
<1>3. CountersTyped' /\ hits' \in [Clients -> [Minutes -> Nat]]
  <2>1. PICK n \in 0 .. Tries : Counts(t, n)
    BY <1>1
  <2>2. n \in Nat
    BY DEF Tries
  <2> QED
    BY <2>1, <2>2, CountsTypes
<1>4. TabsTyped' /\ passed' \in [Clients -> [Minutes -> Nat]]
  <2>1. CASE config.production
    <3>1. TabsTyped' /\ passed' = passed
      BY <1>1, <1>2, <2>1, TurnTabs DEF Codes
    <3> QED
      BY <3>1, TypeParts DEF HistoryTyped
  <2>2. CASE ~config.production
    BY <1>1, <1>2, <2>2, AdmitTabs
  <2> QED
    BY <2>1, <2>2
<1> QED
  BY <1>2, <1>3, <1>4, TypePartsNext DEF HistoryTyped

(* What EXPIRE makes of the counters. *)
LEMMA ExpireOutcome ==
    ASSUME TypeInv, NEW t \in Tabs, Expire(t)
    PROVE  /\ UNCHANGED <<config, minute, tokens, clientVars, forgot, hits>>
           /\ faults' \in {faults, faults + 1} /\ (faults' # faults => faults < MaxFaults)
           /\ pc[t] = "expire" /\ Admit(t)
           /\ CountersTyped'
           /\ DOMAIN counters' = DOMAIN counters
           /\ \A k \in DOMAIN counters :
                 /\ counters'[k].n = counters[k].n
                 /\ counters'[k].until # counters[k].until =>
                       k = KeyOf(t) /\ counters'[k].until = minute + KeyLife
<1> DEFINE k == KeyOf(t)
           until == minute + KeyLife
<1>1. CountersTyped /\ k \in Key /\ until \in Nat
  BY TypeParts, KeyTypes DEF KeyLife
<1>2. /\ UNCHANGED <<config, minute, tokens, clientVars, forgot, hits>>
      /\ faults' \in {faults, faults + 1} /\ (faults' # faults => faults < MaxFaults)
      /\ pc[t] = "expire" /\ Decide(t, 1)
      /\ counters' = counters \/ (Stored(k) /\ counters' = [counters EXCEPT ![k].until = until])
  BY DEF Expire, Sound, Fault
<1>3. Admit(t)
  BY <1>2, GateAssumption DEF Decide
<1> HIDE DEF k, until
<1>4. CASE counters' = counters
  BY <1>1, <1>2, <1>3, <1>4 DEF CountersTyped
<1>5. CASE Stored(k) /\ counters' = [counters EXCEPT ![k].until = until]
  <2>1. k \in DOMAIN counters /\ counters[k] \in Counter
    BY <1>1, <1>5 DEF Stored, CountersTyped
  <2>2. PICK new \in Counter : new.n = counters[k].n /\ new.until = until
                               /\ new = [counters[k] EXCEPT !.until = until]
    BY <1>1, <2>1 DEF Counter
  <2>3. counters' = [counters EXCEPT ![k] = new]
    BY <1>5, <2>2
  <2>4. CountersTyped'
    BY <1>1, <2>1, <2>2, <2>3 DEF CountersTyped
  <2> QED
    BY <1>1, <1>2, <1>3, <2>1, <2>2, <2>3, <2>4 DEF k, until, CountersTyped
<1> QED
  BY <1>2, <1>4, <1>5

LEMMA ExpireTypes ==
    ASSUME TypeInv, NEW t \in Tabs, Expire(t)
    PROVE  TypeInv'
<1>1. /\ UNCHANGED <<config, minute, tokens, clientVars, forgot, hits>>
      /\ faults' \in {faults, faults + 1} /\ (faults' # faults => faults < MaxFaults)
      /\ Admit(t) /\ CountersTyped'
  BY ExpireOutcome
<1>2. TokensTyped' /\ RestTyped' /\ Grows
  BY <1>1, CountsRest
<1>3. TabsTyped' /\ passed' \in [Clients -> [Minutes -> Nat]]
  BY <1>1, <1>2, AdmitTabs
<1>4. hits \in [Clients -> [Minutes -> Nat]]
  BY TypeParts DEF HistoryTyped
<1> QED
  BY <1>1, <1>2, <1>3, <1>4, TypePartsNext DEF HistoryTyped

LEMMA BreaksTypes ==
    ASSUME TypeInv, NEW t \in Tabs, Breaks(t)
    PROVE  TypeInv'
<1>1. HistoryTyped /\ TokensTyped
  BY TypeParts
<1>2. /\ UNCHANGED <<config, minute, counters, tokens, clientVars, faults, forgot, hits>>
      /\ Turn(t, "none")
  BY DEF Breaks
<1>3. CountersTyped' /\ RestTyped' /\ Grows
      /\ (passed' \in [Clients -> [Minutes -> Nat]] => HistoryTyped')
  BY <1>2, RestStays
<1>4. TabsTyped' /\ passed' = passed
  BY <1>2, <1>3, TurnTabs DEF Codes
<1>5. TokensTyped'
  BY <1>1, <1>2 DEF TokensTyped, clientVars
<1> QED
  BY <1>1, <1>3, <1>4, <1>5, TypePartsNext DEF HistoryTyped

LEMMA TickTypes ==
    ASSUME TypeInv, Tick
    PROVE  TypeInv'
<1>1. TabsTyped /\ CountersTyped /\ HistoryTyped /\ TokensTyped /\ RestTyped
  BY TypeParts
<1>2. /\ minute' = minute + 1 /\ minute < MaxMinutes /\ minute \in Nat
      /\ UNCHANGED <<config, tokens, clientVars, pc, req, faults, forgot>>
      /\ \A t \in Tabs : pc[t] \in {"incr", "expire"} => req[t].at = minute
      /\ answer' = Silence
  BY <1>1, GateAssumption DEF Tick, RestTyped, Minutes
<1>3. RestTyped'
  BY <1>1, <1>2, GateAssumption DEF RestTyped, Minutes
<1>4. TabsTyped'
  <2>1. ASSUME NEW t \in Tabs
        PROVE  /\ req[t].at <= minute'
               /\ pc[t] \in {"incr", "expire"} => minute' <= req[t].at + 1
    <3>1. req[t].at \in Nat /\ req[t].at <= minute
      BY <1>1, KeyTypes DEF TabsTyped
    <3> QED
      BY <1>2, <3>1
  <2> QED
    BY <1>1, <1>2, <2>1 DEF TabsTyped
<1>5. CountersTyped'
  <2> DEFINE K == {x \in DOMAIN counters : minute' < counters[x].until}
  <2>1. counters' = [k \in K |-> counters[k]]
    BY DEF Tick
  <2> QED
    BY <1>1, <2>1 DEF CountersTyped
<1>6. HistoryTyped'
  <2>1. Recent(hits) \in [Clients -> [Minutes -> Nat]]
    BY <1>1 DEF HistoryTyped, Recent
  <2>2. Recent(passed) \in [Clients -> [Minutes -> Nat]]
    BY <1>1 DEF HistoryTyped, Recent
  <2> QED
    BY <2>1, <2>2 DEF HistoryTyped, Tick
<1>7. TokensTyped'
  BY <1>1, <1>2 DEF TokensTyped, clientVars
<1> QED
  BY <1>3, <1>4, <1>5, <1>6, <1>7, TypePartsNext

LEMMA ForgetTypes ==
    ASSUME TypeInv, Forget
    PROVE  /\ TypeInv'
           /\ DOMAIN tokens' = DOMAIN tokens /\ Len(tokens') = Len(tokens)
<1> DEFINE T == [at: Minutes, kept: BOOLEAN]
<1>1. TabsTyped /\ CountersTyped /\ HistoryTyped /\ TokensTyped /\ RestTyped
  BY TypeParts
<1>2. /\ counters' = <<>> /\ answer' = Silence /\ forgot' = TRUE
      /\ UNCHANGED <<config, minute, clientVars, pc, req, faults, history>>
      /\ tokens' = [i \in DOMAIN tokens |-> [tokens[i] EXCEPT !.kept = FALSE]]
  BY DEF Forget
<1>3. tokens \in Seq(T) /\ Len(tokens) \in Nat /\ DOMAIN tokens = 1 .. Len(tokens)
  BY <1>1 DEF TokensTyped
<1>4. ASSUME NEW i \in 1 .. Len(tokens)
      PROVE  [tokens[i] EXCEPT !.kept = FALSE] \in T
  <2>1. tokens[i] \in [at: Minutes, kept: BOOLEAN]
    BY <1>3, ElementOfSeq
  <2> QED
    BY <2>1
<1> HIDE DEF T
<1>5. tokens' \in [1 .. Len(tokens) -> T]
  BY <1>2, <1>3, <1>4
<1>6. tokens' \in Seq(T) /\ Len(tokens') = Len(tokens) /\ DOMAIN tokens' = DOMAIN tokens
  BY <1>3, <1>5, SeqDef
<1>7. RestTyped' /\ HistoryTyped'
  BY <1>1, <1>2 DEF RestTyped, HistoryTyped, history
<1>8. TokensTyped'
  BY <1>1, <1>2, <1>6 DEF TokensTyped, clientVars, T
<1>9. TabsTyped'
  BY <1>1, <1>2, <1>6 DEF TabsTyped
<1>10. CountersTyped'
  BY <1>2 DEF CountersTyped
<1> QED
  BY <1>6, <1>7, <1>8, <1>9, <1>10, TypePartsNext

LEMMA StutterTypes ==
    ASSUME TypeInv, UNCHANGED vars
    PROVE  TypeInv'
<1>1. TabsTyped /\ CountersTyped /\ HistoryTyped /\ TokensTyped /\ RestTyped
  BY TypeParts
<1> QED
  BY <1>1, TypePartsNext DEF TabsTyped, CountersTyped, HistoryTyped, TokensTyped, RestTyped,
                             vars, clientVars, history

LEMMA InitTypes ==
    ASSUME Init
    PROVE  TypeInv
<1>1. 0 \in Minutes /\ <<>> \in Seq([at: Minutes, kept: BOOLEAN]) /\ Len(<<>>) = 0
  BY GateAssumption DEF Minutes
<1>2. RestTyped
  <2>1. MaxFaults \in Nat
    BY GateAssumption
  <2>2. config \in Configs /\ minute = 0 /\ faults = 0 /\ forgot = FALSE
    BY DEF Init
  <2>3. faults \in 0 .. MaxFaults /\ minute \in Minutes
    BY <1>1, <2>1, <2>2
  <2>4. forgot \in BOOLEAN
    BY <2>2
  <2> QED
    BY <2>2, <2>3, <2>4 DEF RestTyped
<1>6. HistoryTyped
  BY DEF Init, HistoryTyped, Minutes
<1>3. CountersTyped
  BY DEF Init, CountersTyped
<1>4. TokensTyped
  BY <1>1 DEF Init, TokensTyped, None
<1>5. TabsTyped
  BY <1>1 DEF Init, TabsTyped, NoRequest, None, PC
<1> QED
  BY <1>2, <1>3, <1>4, <1>5, <1>6, TypeParts

LEMMA TypeStep ==
    ASSUME TypeInv, [Next]_vars
    PROVE  TypeInv'
<1>1. ASSUME NEW t \in Tabs,
             \/ IssueCSRFToken(t) \/ Receive(t) \/ Post(t) \/ CSRFMiddleware(t)
             \/ ReadClock(t) \/ Incr(t) \/ IncrFails(t) \/ Expire(t) \/ Breaks(t)
      PROVE  TypeInv'
  BY <1>1, IssueTypes, ReceiveTypes, PostTypes, CheckTypes, ReadClockTypes, IncrTypes,
     IncrFailsTypes, ExpireTypes, BreaksTypes
<1> QED
  BY <1>1, TickTypes, ForgetTypes, StutterTypes DEF Next

(***************************************************************************)
(* Each variable keeps its type: in particular a request is never counted  *)
(* for a minute that ended more than a minute ago, and no browser holds a  *)
(* token that was not issued.                                              *)
(***************************************************************************)
THEOREM GateTypes == Spec => []TypeOK
<1>1. Spec => []TypeInv
  BY InitTypes, TypeStep, PTL DEF Spec
<1>2. TypeInv => TypeOK
  BY DEF TypeInv
<1> QED
  BY <1>1, <1>2, PTL

-----------------------------------------------------------------------------
(* Tokens. *)

(* A step that touches neither tokens nor browsers, and takes no tab to the   *)
(* check of its token.                                                        *)
LEMMA TokensStay ==
    ASSUME TypeInv, TokenInv, NEW t \in Tabs,
           UNCHANGED <<tokens, clientVars>>, forgot' = forgot,
           \A u \in Tabs \ {t} : pc'[u] = pc[u] /\ req'[u] = req[u],
           pc'[t] # "check"
    PROVE  TokenInv'
<1>1. \A i \in DOMAIN tokens' : ~tokens'[i].kept => forgot'
  BY DEF TokenInv
<1>2. \A c \in Clients : cookie'[c] # None => ClientOf[giver'[c]] = c /\ held'[giver'[c]] = cookie'[c]
  BY DEF TokenInv, clientVars
<1>3. ASSUME NEW u \in Tabs, pc'[u] = "check", req'[u].cookie # None, giver'[ClientOf[u]] = u
      PROVE  req'[u].cookie = req'[u].token
  BY <1>3 DEF TokenInv, clientVars
<1> QED
  BY <1>1, <1>2, <1>3 DEF TokenInv

(* Ending a request and going on with it concern one tab only. *)
LEMMA OtherTabs ==
    ASSUME TypeInv, NEW t \in Tabs, NEW next \in PC \ {"check"},
           \/ \E code \in Codes : Answers(t, code)
           \/ GoesTo(t, next) /\ \A u \in Tabs \ {t} : req'[u] = req[u]
    PROVE  /\ \A u \in Tabs \ {t} : pc'[u] = pc[u] /\ req'[u] = req[u]
           /\ pc'[t] # "check"
<1>1. TabsTyped
  BY TypeParts
<1> QED
  BY <1>1 DEF TabsTyped, Answers, GoesTo

(* What a GET does to the tokens, and that it leaves the other tabs alone. *)
LEMMA IssueOutcome ==
    ASSUME TypeInv, NEW t \in Tabs, IssueCSRFToken(t)
    PROVE  /\ UNCHANGED <<config, minute, counters, clientVars, forgot, hits, passed>>
           /\ tokens' \in {tokens, Append(tokens, [at |-> minute, kept |-> TRUE])}
           /\ pc[t] = "idle" /\ pc'[t] \in {"idle", "receive"}
           /\ \A u \in Tabs \ {t} : pc'[u] = pc[u] /\ req'[u] = req[u]
<1> DEFINE new == [at |-> minute, kept |-> TRUE]
<1>1. TabsTyped
  BY TypeParts
<1>2. /\ UNCHANGED <<config, minute, counters, clientVars, forgot, hits, passed>>
      /\ tokens' \in {tokens, Append(tokens, new)}
      /\ pc[t] = "idle"
      /\ \/ Answers(t, "unavailable")
         \/ GoesTo(t, "receive") /\ \A u \in Tabs \ {t} : req'[u] = req[u]
  <2>1. Turn(t, "unavailable") => Answers(t, "unavailable") /\ passed' = passed
    BY DEF Turn
  <2>2. req' = [req EXCEPT ![t].token = Len(Append(tokens, new))] =>
           \A u \in Tabs \ {t} : req'[u] = req[u]
    <3> DEFINE number == Len(Append(tokens, new))
    <3> HIDE DEF number
    <3>1. req' = [req EXCEPT ![t].token = number] => \A u \in Tabs \ {t} : req'[u] = req[u]
      BY <1>1 DEF TabsTyped
    <3> QED
      BY <3>1 DEF number
  <2> QED
    BY <2>1, <2>2 DEF IssueCSRFToken
<1>3. /\ \A u \in Tabs \ {t} : pc'[u] = pc[u] /\ req'[u] = req[u]
      /\ pc'[t] \in {"idle", "receive"}
  BY <1>1, <1>2 DEF TabsTyped, Answers, GoesTo
<1> QED
  BY <1>2, <1>3

LEMMA IssueTokens ==
    ASSUME TypeInv, TokenInv, NEW t \in Tabs, IssueCSRFToken(t)
    PROVE  TokenInv'
<1> DEFINE new == [at |-> minute, kept |-> TRUE]
<1>1. TabsTyped /\ TokensTyped
  BY TypeParts
<1>2. /\ UNCHANGED <<clientVars, forgot>>
      /\ tokens' \in {tokens, Append(tokens, new)}
  BY IssueOutcome
<1>3. /\ \A u \in Tabs \ {t} : pc'[u] = pc[u] /\ req'[u] = req[u]
      /\ pc'[t] # "check"
  BY IssueOutcome
<1>4. ASSUME NEW i \in DOMAIN tokens', ~tokens'[i].kept
      PROVE  forgot'
  <2>1. Len(tokens) \in Nat /\ DOMAIN tokens = 1 .. Len(tokens)
    BY <1>1 DEF TokensTyped
  <2>2. CASE tokens' = tokens
    BY <1>2, <1>4, <2>2 DEF TokenInv
  <2>3. CASE tokens' = Append(tokens, new)
    <3>1. Append(tokens, new) = [k \in 1 .. Len(tokens) + 1 |->
                                   IF k = Len(tokens) + 1 THEN new ELSE tokens[k]]
      BY <1>1, AppendProperties DEF TokensTyped
    <3>2. i \in 1 .. Len(tokens) + 1
      BY <1>4, <2>3, <3>1
    <3>3. CASE i = Len(tokens) + 1
      <4>1. tokens'[i] = new
        BY <2>1, <2>3, <3>1, <3>2, <3>3
      <4> QED
        BY <1>4, <4>1
    <3>4. CASE i # Len(tokens) + 1
      <4>1. i \in DOMAIN tokens /\ tokens'[i] = tokens[i]
        BY <2>1, <2>3, <3>1, <3>2, <3>4
      <4> QED
        BY <1>2, <1>4, <4>1 DEF TokenInv
    <3> QED
      BY <3>3, <3>4
  <2> QED
    BY <1>2, <2>2, <2>3
<1>5. \A c \in Clients : cookie'[c] # None => ClientOf[giver'[c]] = c /\ held'[giver'[c]] = cookie'[c]
  BY <1>2 DEF TokenInv, clientVars
<1>6. ASSUME NEW u \in Tabs, pc'[u] = "check", req'[u].cookie # None, giver'[ClientOf[u]] = u
      PROVE  req'[u].cookie = req'[u].token
  BY <1>2, <1>3, <1>6 DEF TokenInv, clientVars
<1> QED
  BY <1>4, <1>5, <1>6 DEF TokenInv

LEMMA ReceiveTokens ==
    ASSUME TypeInv, TokenInv, NEW t \in Tabs, Receive(t)
    PROVE  TokenInv'
<1> DEFINE d == ClientOf[t]
<1>1. TabsTyped /\ TokensTyped
  BY TypeParts
<1>2. d \in Clients
  BY GateAssumption
<1>3. /\ UNCHANGED <<tokens, forgot>> /\ Answers(t, "ok")
      /\ cookie' = [cookie EXCEPT ![d] = req[t].token]
      /\ held' = [held EXCEPT ![t] = req[t].token]
      /\ giver' = [giver EXCEPT ![d] = t]
  BY DEF Receive, Turn
<1>4. /\ \A u \in Tabs \ {t} : pc'[u] = pc[u] /\ req'[u] = req[u]
      /\ pc'[t] # "check"
  BY <1>3, OtherTabs DEF Codes, PC
<1>5. ASSUME NEW c \in Clients, cookie'[c] # None
      PROVE  ClientOf[giver'[c]] = c /\ held'[giver'[c]] = cookie'[c]
  <2>1. CASE c = d
    BY <1>1, <1>2, <1>3, <2>1 DEF TokensTyped
  <2>2. CASE c # d
    <3>1. cookie'[c] = cookie[c] /\ giver'[c] = giver[c] /\ giver[c] \in Tabs
      BY <1>1, <1>3, <2>2 DEF TokensTyped
    <3>2. ClientOf[giver[c]] = c /\ held[giver[c]] = cookie[c]
      BY <1>5, <3>1 DEF TokenInv
    <3>3. giver[c] # t
      BY <2>2, <3>2
    <3> QED
      BY <1>1, <1>3, <3>1, <3>2, <3>3 DEF TokensTyped
  <2> QED
    BY <2>1, <2>2
<1>6. ASSUME NEW u \in Tabs, pc'[u] = "check", req'[u].cookie # None, giver'[ClientOf[u]] = u
      PROVE  req'[u].cookie = req'[u].token
  <2>1. u # t /\ pc[u] = "check" /\ req'[u] = req[u]
    BY <1>4, <1>6
  <2>2. giver[ClientOf[u]] = u
    BY <1>1, <1>2, <1>3, <1>6, <2>1, GateAssumption DEF TokensTyped
  <2> QED
    BY <1>6, <2>1, <2>2 DEF TokenInv
<1> QED
  BY <1>3, <1>5, <1>6 DEF TokenInv

LEMMA PostTokens ==
    ASSUME TypeInv, TokenInv, NEW t \in Tabs, Post(t)
    PROVE  TokenInv'
<1>1. TabsTyped /\ TokensTyped
  BY TypeParts
<1>2. UNCHANGED <<tokens, clientVars, forgot>> /\ GoesTo(t, "check")
  BY DEF Post
<1>3. PICK auth \in BOOLEAN, sent \in CookiesSent(ClientOf[t]) :
         req' = [req EXCEPT ![t] =
            [auth |-> auth, token |-> held[t], cookie |-> sent, at |-> 0]]
  BY DEF Post
<1>4. sent \in {cookie[ClientOf[t]], None}
  BY <1>3 DEF CookiesSent
<1>5. \A c \in Clients : cookie'[c] # None => ClientOf[giver'[c]] = c /\ held'[giver'[c]] = cookie'[c]
  BY <1>2 DEF TokenInv, clientVars
<1>6. ASSUME NEW u \in Tabs, pc'[u] = "check", req'[u].cookie # None, giver'[ClientOf[u]] = u
      PROVE  req'[u].cookie = req'[u].token
  <2>1. CASE u = t
    <3>1. req'[t].token = held[t] /\ req'[t].cookie = sent
      BY <1>1, <1>3 DEF TabsTyped
    <3>2. sent = cookie[ClientOf[t]] /\ cookie[ClientOf[t]] # None /\ giver[ClientOf[t]] = t
      BY <1>2, <1>4, <1>6, <2>1, <3>1 DEF clientVars
    <3>3. held[t] = cookie[ClientOf[t]]
      BY <3>2, GateAssumption DEF TokenInv
    <3> QED
      BY <2>1, <3>1, <3>2, <3>3
  <2>2. CASE u # t
    <3>1. pc[u] = "check" /\ req'[u] = req[u]
      BY <1>1, <1>2, <1>3, <1>6, <2>2 DEF TabsTyped, GoesTo
    <3> QED
      BY <1>2, <1>6, <3>1 DEF TokenInv, clientVars
  <2> QED
    BY <2>1, <2>2
<1> QED
  BY <1>2, <1>5, <1>6 DEF TokenInv

LEMMA ForgetTokens ==
    ASSUME TypeInv, TokenInv, Forget
    PROVE  TokenInv'
<1>1. UNCHANGED <<clientVars, pc, req>> /\ forgot' = TRUE
  BY DEF Forget
<1> QED
  BY <1>1 DEF TokenInv, clientVars

(* What the server does for a request leaves the other tabs alone. *)
LEMMA ServesOneTab ==
    ASSUME TypeInv, NEW t \in Tabs,
           \/ CSRFMiddleware(t) \/ ReadClock(t) \/ Incr(t) \/ IncrFails(t)
           \/ Expire(t) \/ Breaks(t)
    PROVE  /\ \A u \in Tabs \ {t} : pc'[u] = pc[u] /\ req'[u] = req[u]
           /\ pc'[t] # "check"
<1>1. TabsTyped
  BY TypeParts
<1>2. ASSUME NEW code \in Codes, Turn(t, code)
      PROVE  \E x \in Codes : Answers(t, x)
  BY <1>2 DEF Turn
<1>3. Admit(t) => \E x \in Codes : Answers(t, x)
  BY DEF Admit, Codes
<1>4. ASSUME NEW next \in {"count", "incr", "expire"}, Continue(t, next)
      PROVE  \E x \in PC \ {"check"} :
                GoesTo(t, x) /\ \A u \in Tabs \ {t} : req'[u] = req[u]
  BY <1>4 DEF Continue, PC
<1>5. ASSUME NEW n, Decide(t, n)
      PROVE  \E x \in Codes : Answers(t, x)
  <2>1. "limited" \in Codes
    BY DEF Codes
  <2> QED
    BY <1>2, <1>3, <1>5, <2>1 DEF Decide
<1>6. \/ \E x \in Codes : Answers(t, x)
      \/ \E x \in PC \ {"check"} : GoesTo(t, x) /\ \A u \in Tabs \ {t} : req'[u] = req[u]
  <2>1. CASE CSRFMiddleware(t)
    BY <1>2, <1>4, <2>1, CheckOutcome
  <2>2. CASE ReadClock(t)
    <3>1. CASE config.limited /\ config.connected
      <4>1. req' = [req EXCEPT ![t].at = minute] /\ GoesTo(t, "incr")
        BY <2>2, <3>1 DEF ReadClock
      <4>2. \A u \in Tabs \ {t} : req'[u] = req[u]
        BY <1>1, <4>1 DEF TabsTyped
      <4> QED
        BY <4>1, <4>2 DEF PC
    <3>2. CASE ~(config.limited /\ config.connected)
      <4>1. Turn(t, IF config.limited /\ config.production THEN "unavailable" ELSE "ok")
        BY <2>2, <3>2 DEF ReadClock
      <4> QED
        BY <1>2, <4>1 DEF Codes
    <3> QED
      BY <3>1, <3>2
  <2>3. CASE Incr(t)
    BY <1>4, <1>5, <2>3 DEF Incr
  <2>4. CASE IncrFails(t)
    BY <1>2, <1>3, <2>4 DEF IncrFails, Codes
  <2>5. CASE Expire(t)
    BY <1>5, <2>5 DEF Expire
  <2>6. CASE Breaks(t)
    BY <1>2, <2>6 DEF Breaks, Codes
  <2> QED
    BY <2>1, <2>2, <2>3, <2>4, <2>5, <2>6
<1> QED
  BY <1>6, OtherTabs DEF PC

LEMMA ServeTokens ==
    ASSUME TypeInv, TokenInv, NEW t \in Tabs,
           \/ CSRFMiddleware(t) \/ ReadClock(t) \/ Incr(t) \/ IncrFails(t)
           \/ Expire(t) \/ Breaks(t)
    PROVE  TokenInv'
<1>1. UNCHANGED <<tokens, clientVars, forgot>>
  BY DEF CSRFMiddleware, ReadClock, Incr, IncrFails, Expire, Breaks
<1> QED
  BY <1>1, ServesOneTab, TokensStay

LEMMA TokenInit ==
    ASSUME Init
    PROVE  TokenInv
<1>1. tokens = <<>> /\ cookie = [c \in Clients |-> None] /\ pc = [t \in Tabs |-> "idle"]
  BY DEF Init
<1> QED
  BY <1>1 DEF TokenInv

LEMMA TokenStep ==
    ASSUME TypeInv, TokenInv, [Next]_vars
    PROVE  TokenInv'
<1>1. ASSUME NEW t \in Tabs,
             \/ IssueCSRFToken(t) \/ Receive(t) \/ Post(t) \/ CSRFMiddleware(t)
             \/ ReadClock(t) \/ Incr(t) \/ IncrFails(t) \/ Expire(t) \/ Breaks(t)
      PROVE  TokenInv'
  BY <1>1, IssueTokens, ReceiveTokens, PostTokens, ServeTokens
<1>2. CASE Tick
  BY <1>2 DEF Tick, TokenInv, clientVars
<1>3. CASE UNCHANGED vars
  BY <1>3 DEF vars, TokenInv, clientVars
<1> QED
  BY <1>1, <1>2, <1>3, ForgetTokens DEF Next

(* What the answers of the check of a token mean. *)
LEMMA CheckedToken ==
    ASSUME TypeInv, TokenInv, NEW t \in Tabs, CSRFMiddleware(t), pc'[t] = "idle"
    PROVE  /\ answer'.code = "invalid" =>
                 tokens[req[t].token].at + TokenTTL <= minute \/ faults' # faults \/ forgot
           /\ answer'.code = "mismatch" => giver[ClientOf[t]] # t
<1> DEFINE r == req[t]
           mismatch == r.cookie # None /\ r.cookie # r.token
<1>1. TabsTyped /\ TokensTyped /\ RestTyped
  BY TypeParts
<1>2. /\ Len(tokens) \in Nat /\ DOMAIN tokens = 1 .. Len(tokens)
      /\ r.token \in Nat /\ r.token <= Len(tokens)
  BY <1>1 DEF TabsTyped, TokensTyped
<1>3. pc[t] = "check"
  BY DEF CSRFMiddleware
<1>4. \A code \in Codes : Turn(t, code) => answer'.code = code
  BY DEF Turn, Answers
<1>5. \A next \in PC : Continue(t, next) => next = "idle"
  BY <1>1 DEF Continue, GoesTo, TabsTyped
<1>6. PassesCheck(t) => answer'.code = "ok"
  BY <1>4, <1>5 DEF PassesCheck, Codes, PC
<1>7. \/ answer'.code \notin {"invalid", "mismatch"}
      \/ mismatch /\ answer'.code = "mismatch"
      \/ /\ r.token # None /\ answer'.code = "invalid"
         /\ ~Good(r.token) \/ Fault
  <2>1. {"required", "mismatch", "invalid", "unavailable"} \subseteq Codes
    BY DEF Codes
  <2> QED
    BY <1>4, <1>6, <2>1 DEF CSRFMiddleware
<1>8. mismatch => giver[ClientOf[t]] # t
  BY <1>3 DEF TokenInv
<1>9. Fault => faults' # faults
  BY <1>1, GateAssumption DEF Fault, RestTyped
<1>10. ASSUME r.token # None, ~Good(r.token), ~forgot
       PROVE  tokens[r.token].at + TokenTTL <= minute
  <2>1. r.token \in DOMAIN tokens
    BY <1>2, <1>10 DEF None
  <2>2. tokens[r.token].kept
    BY <1>10, <2>1 DEF TokenInv
  <2>3. ~(minute < tokens[r.token].at + TokenTTL)
    BY <1>10, <2>1, <2>2 DEF Good
  <2>4. tokens[r.token] \in [at: Minutes, kept: BOOLEAN]
    BY <1>1, <1>2, <2>1, ElementOfSeq DEF TokensTyped
  <2>5. tokens[r.token].at \in Nat /\ minute \in Nat /\ TokenTTL \in Nat
    BY <1>1, <2>4, GateAssumption DEF RestTyped, Minutes
  <2> QED
    BY <2>3, <2>5
<1> QED
  BY <1>7, <1>8, <1>9, <1>10

LEMMA TokenAnswers ==
    ASSUME TypeInv, TokenInv, [Next]_vars, NEW t \in Tabs, pc[t] = "check", pc'[t] = "idle"
    PROVE  /\ answer'.code = "invalid" =>
                 tokens[req[t].token].at + TokenTTL <= minute \/ faults' # faults \/ forgot
           /\ answer'.code = "mismatch" => giver[ClientOf[t]] # t
<1>1. TabsTyped
  BY TypeParts
<1>2. ASSUME NEW u \in Tabs \ {t},
             \/ IssueCSRFToken(u) \/ Receive(u) \/ Post(u) \/ CSRFMiddleware(u)
             \/ ReadClock(u) \/ Incr(u) \/ IncrFails(u) \/ Expire(u) \/ Breaks(u)
      PROVE  FALSE
  <2>1. \E next \in PC : pc' = [pc EXCEPT ![u] = next]
    BY <1>2 DEF IssueCSRFToken, Receive, Post, CSRFMiddleware, ReadClock, Incr, IncrFails,
                Expire, Breaks, PassesCheck, Decide, Admit, Turn, Continue, Answers, GoesTo, PC
  <2> QED
    BY <1>1, <2>1 DEF TabsTyped
<1>3. CASE Breaks(t)
  <2>1. answer' = [tab |-> t, code |-> "none"]
    BY <1>3 DEF Breaks, Turn, Answers
  <2> QED
    BY <2>1
<1>4. ASSUME \/ IssueCSRFToken(t) \/ Receive(t) \/ Post(t)
             \/ ReadClock(t) \/ Incr(t) \/ IncrFails(t) \/ Expire(t)
      PROVE  FALSE
  BY <1>4 DEF IssueCSRFToken, Receive, Post, ReadClock, Incr, IncrFails, Expire
<1>5. ASSUME Tick \/ Forget \/ UNCHANGED vars
      PROVE  FALSE
  BY <1>5 DEF Tick, Forget, vars
<1> QED
  BY <1>2, <1>3, <1>4, <1>5, CheckedToken DEF Next

(***************************************************************************)
(* A tab that sends the token it was last given is told that it is not     *)
(* valid only when its time is over, when Redis has failed, or when Redis  *)
(* has lost it; and that it does not match the cookie only when another    *)
(* tab of the browser has been given a token since: for any number of      *)
(* browsers and tabs.                                                      *)
(***************************************************************************)
THEOREM TokensStayGood == Spec => TokenStaysGood
<1>1. TypeInv /\ TokenInv /\ [Next]_vars => (TypeInv /\ TokenInv)'
  BY TypeStep, TokenStep
<1>2. TypeInv /\ TokenInv /\ [Next]_vars =>
        [\A t \in Tabs : pc[t] = "check" /\ pc'[t] = "idle" =>
          /\ answer'.code = "invalid" =>
                tokens[req[t].token].at + TokenTTL <= minute \/ faults' # faults \/ forgot
          /\ answer'.code = "mismatch" => giver[ClientOf[t]] # t]_vars
  BY TokenAnswers
<1> QED
  BY <1>1, <1>2, InitTypes, TokenInit, PTL DEF Spec, TokenStaysGood

-----------------------------------------------------------------------------
(* The limit. *)

LEMMA HitsStay ==
    ASSUME HitsInv, UNCHANGED <<minute, hits>>, DOMAIN counters' \subseteq DOMAIN counters,
           \A k \in DOMAIN counters' : counters'[k].n = counters[k].n
    PROVE  HitsInv'
BY DEF HitsInv

LEMMA CountsHits ==
    ASSUME TypeInv, HitsInv, NEW t \in Tabs, NEW n \in Nat, Counts(t, n),
           minute' = minute, minute <= req[t].at + 1
    PROVE  HitsInv'
<1> DEFINE c == ClientOf[t]
           m == req[t].at
           k == KeyOf(t)
           new == Incremented(k, n)
<1>1. CountersTyped /\ HistoryTyped
  BY TypeParts
<1>2. c \in Clients /\ m \in Minutes /\ k = <<c, m>> /\ k \in Key
  BY KeyTypes
<1>3. hits' = [hits EXCEPT ![c][m] = @ + n]
  BY CountsTypes
<1>4. hits[c][m] \in Nat /\ hits'[c][m] = hits[c][m] + n
  BY <1>1, <1>2, <1>3 DEF HistoryTyped
<1>5. \A x \in Key : x # k => hits'[x[1]][x[2]] = hits[x[1]][x[2]]
  BY <1>1, <1>2, <1>3 DEF HistoryTyped, Key
<1>6. CASE n = 0
  <2>1. counters' = counters
    BY <1>6 DEF Counts
  <2>2. \A x \in Key : hits'[x[1]][x[2]] = hits[x[1]][x[2]]
    BY <1>2, <1>4, <1>5, <1>6
  <2> QED
    BY <1>1, <2>1, <2>2 DEF HitsInv, CountersTyped
<1>7. CASE n > 0
  <2>1. counters' = new
    BY <1>7, CountsTypes
  <2>2. /\ DOMAIN new = DOMAIN counters \cup {k}
        /\ Stored(k) => new[k].n = counters[k].n + n
        /\ ~Stored(k) => new[k].n = n
        /\ \A x \in DOMAIN counters \ {k} : new[x] = counters[x]
    BY <1>2, IncrementedKey
  <2> HIDE DEF new, k, c, m
  <2>3. ASSUME NEW x \in DOMAIN counters', minute' <= x[2] + 1
        PROVE  counters'[x].n <= hits'[x[1]][x[2]]
    <3>1. CASE x = k
      <4>1. x[1] = c /\ x[2] = m
        BY <1>2, <3>1
      <4>2. CASE Stored(k)
        <5>1. counters[k].n \in Nat /\ counters[k].n <= hits[c][m]
          BY <1>1, <2>3, <3>1, <4>1, <4>2 DEF Stored, CountersTyped, Counter, HitsInv
        <5> QED
          BY <1>4, <2>1, <2>2, <3>1, <4>1, <4>2, <5>1
      <4>3. CASE ~Stored(k)
        BY <1>4, <2>1, <2>2, <3>1, <4>1, <4>3
      <4> QED
        BY <4>2, <4>3
    <3>2. CASE x # k
      <4>1. x \in DOMAIN counters /\ x \in Key /\ counters'[x] = counters[x]
        BY <1>1, <2>1, <2>2, <2>3, <3>2 DEF CountersTyped
      <4> QED
        BY <1>5, <2>3, <3>2, <4>1 DEF HitsInv
    <3> QED
      BY <3>1, <3>2
  <2> QED
    BY <2>3 DEF HitsInv
<1> QED
  BY <1>6, <1>7

LEMMA HitsStep ==
    ASSUME TypeInv, HitsInv, [Next]_vars
    PROVE  HitsInv'
<1>1. TabsTyped /\ CountersTyped /\ HistoryTyped /\ RestTyped
  BY TypeParts
<1>2. ASSUME NEW t \in Tabs,
             \/ IssueCSRFToken(t) \/ Receive(t) \/ Post(t) \/ CSRFMiddleware(t)
             \/ ReadClock(t) \/ Breaks(t)
      PROVE  HitsInv'
  <2>1. UNCHANGED <<minute, hits, counters>>
    BY <1>2 DEF IssueCSRFToken, Receive, Post, CSRFMiddleware, ReadClock, Breaks, history
  <2> QED
    BY <2>1, HitsStay
<1>3. ASSUME NEW t \in Tabs, Incr(t) \/ IncrFails(t)
      PROVE  HitsInv'
  <2>1. minute <= req[t].at + 1 /\ minute' = minute
    BY <1>1, <1>3 DEF TabsTyped, Incr, IncrFails
  <2>2. \E n \in 0 .. Tries : Counts(t, n)
    BY <1>3 DEF Incr, IncrFails, Tries
  <2> QED
    BY <2>1, <2>2, CountsHits
<1>4. ASSUME NEW t \in Tabs, Expire(t)
      PROVE  HitsInv'
  BY <1>4, ExpireOutcome, HitsStay
<1>5. CASE Tick
  <2>1. /\ minute' = minute + 1 /\ minute \in Nat
        /\ hits' = Recent(hits)
        /\ counters' = [k \in {x \in DOMAIN counters : minute' < counters[x].until} |-> counters[k]]
    BY <1>1, <1>5, GateAssumption DEF Tick, RestTyped, Minutes
  <2>2. ASSUME NEW k \in DOMAIN counters', minute' <= k[2] + 1
        PROVE  counters'[k].n <= hits'[k[1]][k[2]]
    <3>1. k \in DOMAIN counters /\ counters'[k] = counters[k] /\ k \in Key
      BY <1>1, <2>1 DEF CountersTyped
    <3>2. k[1] \in Clients /\ k[2] \in Minutes /\ k[2] \in Nat
      BY <3>1, GateAssumption DEF Key, Minutes
    <3>3. ~(k[2] < minute) /\ minute <= k[2] + 1
      BY <2>1, <2>2, <3>2
    <3>4. hits'[k[1]][k[2]] = hits[k[1]][k[2]]
      BY <2>1, <3>2, <3>3 DEF Recent
    <3> QED
      BY <3>1, <3>3, <3>4 DEF HitsInv
  <2> QED
    BY <2>2 DEF HitsInv
<1>6. CASE Forget
  BY <1>6 DEF Forget, HitsInv
<1>7. CASE UNCHANGED vars
  BY <1>7 DEF vars, history, HitsInv
<1> QED
  BY <1>2, <1>3, <1>4, <1>5, <1>6, <1>7 DEF Next

LEMMA HitsInit ==
    ASSUME Init
    PROVE  HitsInv
<1>1. DOMAIN counters = {}
  BY DEF Init
<1> QED
  BY <1>1 DEF HitsInv

LEMMA LimitedAnswer ==
    ASSUME TypeInv, HitsInv, [Next]_vars, NEW t \in Tabs, pc[t] # "idle",
           answer' = [tab |-> t, code |-> "limited"], ~ UNCHANGED vars
    PROVE  hits'[ClientOf[t]][req[t].at] > Limit
<1> DEFINE k == KeyOf(t)
<1>1. TabsTyped /\ RestTyped
  BY TypeParts
<1>2. answer'.tab = t /\ answer'.code = "limited" /\ answer' # Silence
  BY DEF Silence
<1>3. ASSUME NEW u \in Tabs, NEW code, Answers(u, code)
      PROVE  u = t /\ code = "limited"
  <2>1. answer' = [tab |-> u, code |-> code]
    BY <1>3 DEF Answers
  <2>2. answer'.tab = u /\ answer'.code = code
    BY <2>1
  <2> QED
    BY <1>2, <2>2
<1>4. ASSUME NEW u \in Tabs, NEW next, GoesTo(u, next)
      PROVE  FALSE
  BY <1>2, <1>4 DEF GoesTo
<1>5. ASSUME NEW u \in Tabs, IssueCSRFToken(u)
      PROVE  FALSE
  <2>1. Answers(u, "unavailable") \/ GoesTo(u, "receive")
    BY <1>5 DEF IssueCSRFToken, Turn
  <2> QED
    BY <1>3, <1>4, <2>1
<1>6. ASSUME NEW u \in Tabs, Receive(u) \/ Post(u) \/ Breaks(u)
      PROVE  FALSE
  <2>1. Answers(u, "ok") \/ GoesTo(u, "check") \/ Answers(u, "none")
    BY <1>6 DEF Receive, Post, Breaks, Turn
  <2> QED
    BY <1>3, <1>4, <2>1
<1>7. ASSUME NEW u \in Tabs, CSRFMiddleware(u)
      PROVE  FALSE
  <2>1. \/ Answers(u, "ok") \/ Answers(u, "required") \/ Answers(u, "mismatch")
        \/ Answers(u, "invalid") \/ Answers(u, "unavailable") \/ GoesTo(u, "count")
    BY <1>7 DEF CSRFMiddleware, PassesCheck, Turn, Continue
  <2> QED
    BY <1>3, <1>4, <2>1
<1>8. ASSUME NEW u \in Tabs, ReadClock(u) \/ IncrFails(u) \/ Expire(u)
      PROVE  FALSE
  <2>1. CASE ReadClock(u)
    <3>1. GoesTo(u, "incr") \/ Answers(u, "unavailable") \/ Answers(u, "ok")
      BY <2>1 DEF ReadClock, Turn
    <3> QED
      BY <1>3, <1>4, <3>1
  <2>2. CASE IncrFails(u)
    <3>1. Answers(u, "unavailable") \/ Answers(u, "ok")
      BY <2>2 DEF IncrFails, Turn, Admit
    <3> QED
      BY <1>3, <3>1
  <2>3. CASE Expire(u)
    <3>1. Answers(u, "ok")
      BY <2>3, ExpireOutcome DEF Admit
    <3> QED
      BY <1>3, <3>1
  <2> QED
    BY <1>8, <2>1, <2>2, <2>3
<1>9. Incr(t)
  <2>1. ASSUME NEW u \in Tabs, Incr(u)
        PROVE  u = t
    <3>1. \/ GoesTo(u, "expire") \/ Answers(u, "limited") \/ Answers(u, "ok")
      BY <2>1 DEF Incr, Continue, Decide, Turn, Admit
    <3> QED
      BY <1>3, <1>4, <3>1
  <2>2. ~Tick /\ ~Forget
    BY <1>2 DEF Tick, Forget
  <2> QED
    BY <1>5, <1>6, <1>7, <1>8, <2>1, <2>2 DEF Next
<1>10. counters'[k].n > Limit
  <2>1. IF counters'[k].n = 1 THEN GoesTo(t, "expire")
        ELSE IF counters'[k].n > Limit THEN TRUE ELSE Answers(t, "ok")
    BY <1>9 DEF Incr, Continue, Decide, Admit
  <2> QED
    BY <1>3, <1>4, <2>1
<1>11. PICK n \in 1 .. Tries : Counts(t, n)
  BY <1>9 DEF Incr, Tries
<1>12. k \in DOMAIN counters' /\ counters'[k].n \in Nat
       /\ hits' \in [Clients -> [Minutes -> Nat]]
  <2>1. n \in Nat /\ n > 0 /\ Counts(t, n)
    BY <1>11
  <2> QED
    BY <2>1, CountsTypes
<1>13. k = <<ClientOf[t], req[t].at>> /\ ClientOf[t] \in Clients /\ req[t].at \in Minutes
  BY KeyTypes
<1>14. minute' <= req[t].at + 1
  BY <1>1, <1>9 DEF Incr, TabsTyped
<1>15. HitsInv'
  BY HitsStep
<1>16. k[1] = ClientOf[t] /\ k[2] = req[t].at
  BY <1>13
<1>17. counters'[k].n <= hits'[ClientOf[t]][req[t].at]
  BY <1>12, <1>14, <1>15, <1>16 DEF HitsInv
<1> QED
  BY <1>10, <1>12, <1>13, <1>17, GateAssumption

(***************************************************************************)
(* A client is turned away only because of that very minute: its requests  *)
(* of that minute were counted more often than the limit allows, whatever  *)
(* keys were left without an expiry and however Redis was restarted: for   *)
(* every limit and any number of clients and requests side by side.        *)
(***************************************************************************)
THEOREM TurnedAwayForThatMinute == Spec => LimitedForThatMinute
<1>1. TypeInv /\ HitsInv /\ [Next]_vars => (TypeInv /\ HitsInv)'
  BY TypeStep, HitsStep
<1>2. TypeInv /\ HitsInv /\ [Next]_vars =>
        [\A t \in Tabs : pc[t] # "idle" /\ answer' = [tab |-> t, code |-> "limited"] =>
            hits'[ClientOf[t]][req[t].at] > Limit]_vars
  BY LimitedAnswer
<1> QED
  BY <1>1, <1>2, InitTypes, HitsInit, PTL DEF Spec, LimitedForThatMinute

-----------------------------------------------------------------------------
(* The count of a minute is 1 for a waiting request and 1 for each passed.    *)

LEMMA DueIsNat ==
    ASSUME TypeInv, NEW c \in Clients, NEW m \in Minutes
    PROVE  Due(c, m) \in Nat /\ passed[c][m] \in Nat /\ passed[c][m] <= Due(c, m)
           /\ (Due(c, m) = 0 => \A t \in Tabs : ~Waits(t, c, m))
<1>1. passed[c][m] \in Nat
  BY TypeParts DEF HistoryTyped
<1> QED
  BY <1>1 DEF Due

(* A request about to count finds the key, unless nobody has been let through. *)
LEMMA KeyIsStored ==
    ASSUME TypeInv, KeysLive, NEW c \in Clients, NEW m \in Minutes,
           <<c, m>> \in DOMAIN counters, minute <= m + 1
    PROVE  Stored(<<c, m>>)
<1> DEFINE k == <<c, m>>
<1>1. counters[k] \in Counter /\ minute \in Nat /\ m \in Nat
  BY TypeParts, GateAssumption DEF CountersTyped, RestTyped, Minutes
<1>2. counters[k].until \in Nat /\ counters[k].until >= m + 2
  BY <1>1 DEF Counter, KeysLive, KeyLife
<1> QED
  BY <1>1, <1>2 DEF Stored

(* A step that lets nobody through and makes nobody wait. *)
LEMMA AccountStays ==
    ASSUME TypeInv, TypeInv', NEW c \in Clients, NEW m \in Minutes, Accounted(c, m),
           \A u \in Tabs : Waits(u, c, m)' => Waits(u, c, m),
           passed'[c][m] = passed[c][m],
           DOMAIN counters \subseteq DOMAIN counters',
           <<c, m>> \in DOMAIN counters => counters'[<<c, m>>].n >= counters[<<c, m>>].n
    PROVE  Accounted(c, m)'
<1> DEFINE k == <<c, m>>
<1>1. Due(c, m) \in Nat /\ Due(c, m)' \in Nat /\ passed[c][m] \in Nat
  BY DueIsNat, TypeParts, TypePartsNext DEF HistoryTyped, Due
<1>2. Due(c, m)' <= Due(c, m)
  BY <1>1 DEF Due
<1>3. Due(c, m)' <= Limit
  BY <1>1, <1>2, GateAssumption DEF Accounted
<1>4. Due(c, m)' > 0 => k \in DOMAIN counters' /\ Due(c, m)' <= counters'[k].n
  <2>1. SUFFICES ASSUME Due(c, m)' > 0
                 PROVE  k \in DOMAIN counters' /\ Due(c, m)' <= counters'[k].n
    OBVIOUS
  <2>2. k \in DOMAIN counters /\ Due(c, m) <= counters[k].n
    BY <1>1, <1>2, <2>1 DEF Accounted
  <2>3. k \in DOMAIN counters' /\ counters[k].n \in Nat /\ counters'[k].n \in Nat
    BY <2>2, TypeParts, TypePartsNext DEF CountersTyped, Counter
  <2> QED
    BY <1>1, <1>2, <2>2, <2>3
<1> QED
  BY <1>3, <1>4 DEF Accounted

(* The steps of one tab concern the counts of one client and minute only. *)
LEMMA OtherAccounts ==
    ASSUME TypeInv, NEW t \in Tabs, NEW c \in Clients, NEW m \in Minutes,
           \A u \in Tabs \ {t} : pc'[u] = pc[u] /\ req'[u] = req[u],
           Waits(t, c, m)' => Waits(t, c, m)
    PROVE  \A u \in Tabs : Waits(u, c, m)' => Waits(u, c, m)
BY DEF Waits

(* INCR finds what the account says, and adds at least one. *)
LEMMA CountsAccount ==
    ASSUME TypeInv, KeysLive, NEW t \in Tabs, NEW n \in Nat \ {0}, Counts(t, n),
           pc[t] = "incr", Accounted(ClientOf[t], req[t].at)
    PROVE  /\ KeyOf(t) \in DOMAIN counters'
           /\ counters'[KeyOf(t)].n \in Nat
           /\ counters'[KeyOf(t)].n >= Due(ClientOf[t], req[t].at) + 1
<1>1. PICK c : c = ClientOf[t]
  OBVIOUS
<1>2. PICK m : m = req[t].at
  OBVIOUS
<1>3. PICK k : k = <<c, m>>
  OBVIOUS
<1>4. c \in Clients /\ m \in Minutes /\ k \in Key /\ KeyOf(t) = k
  BY <1>1, <1>2, <1>3, KeyTypes
<1>5. minute <= m + 1
  BY <1>2, TypeParts DEF TabsTyped
<1>6. Accounted(c, m)
  BY <1>1, <1>2
<1>7. Due(c, m) \in Nat
  BY <1>4, DueIsNat
<1>8. /\ k \in DOMAIN counters' /\ counters' = Incremented(k, n)
      /\ counters'[k].n \in Nat
  <2>1. n \in Nat /\ n > 0
    OBVIOUS
  <2> QED
    BY <1>4, <2>1, CountsTypes
<1>9. counters'[k].n >= Due(c, m) + 1
  <2>1. CASE Stored(k)
    <3>1. counters'[k].n = counters[k].n + n
      BY <1>4, <1>8, <2>1, IncrementedKey
    <3>2. k \in DOMAIN counters /\ counters[k].n \in Nat
      BY <2>1, TypeParts DEF Stored, CountersTyped, Counter
    <3>3. Due(c, m) <= counters[k].n
      BY <1>3, <1>6, <1>7, <3>2 DEF Accounted
    <3> QED
      BY <1>7, <3>1, <3>2, <3>3
  <2>2. CASE ~Stored(k)
    <3>1. counters'[k].n = n
      BY <1>4, <1>8, <2>2, IncrementedKey
    <3>2. k \notin DOMAIN counters
      BY <1>3, <1>4, <1>5, <2>2, KeyIsStored
    <3>3. Due(c, m) = 0
      BY <1>3, <1>6, <1>7, <3>2 DEF Accounted
    <3> QED
      BY <3>1, <3>3
  <2> QED
    BY <2>1, <2>2
<1> QED
  BY <1>1, <1>2, <1>4, <1>8, <1>9

(* Every other key keeps its number, and the key of t does not lose any. *)
LEMMA CountsOthers ==
    ASSUME TypeInv, NEW t \in Tabs, NEW n \in Nat, Counts(t, n)
    PROVE  /\ DOMAIN counters \subseteq DOMAIN counters'
           /\ \A x \in DOMAIN counters : x # KeyOf(t) => counters'[x] = counters[x]
<1>1. KeyOf(t) \in Key
  BY KeyTypes
<1>2. CASE n = 0
  BY <1>2 DEF Counts
<1>3. CASE n > 0
  <2> DEFINE k == KeyOf(t)
             new == Incremented(k, n)
  <2>1. counters' = new
    BY <1>3, CountsTypes
  <2>2. /\ DOMAIN new = DOMAIN counters \cup {k}
        /\ \A x \in DOMAIN counters \ {k} : new[x] = counters[x]
    BY <1>1, IncrementedKey
  <2> HIDE DEF new, k
  <2>3. /\ DOMAIN counters \subseteq DOMAIN counters'
        /\ \A x \in DOMAIN counters : x # k => counters'[x] = counters[x]
    BY <2>1, <2>2
  <2> QED
    BY <2>3 DEF k
<1> QED
  BY <1>2, <1>3

(* No key that matters loses what it has counted. *)
LEMMA CountsGrow ==
    ASSUME TypeInv, KeysLive, NEW t \in Tabs, NEW n \in Nat, Counts(t, n),
           NEW c \in Clients, NEW m \in Minutes, minute <= m + 1
    PROVE  /\ DOMAIN counters \subseteq DOMAIN counters'
           /\ <<c, m>> \in DOMAIN counters => counters'[<<c, m>>].n >= counters[<<c, m>>].n
<1>1. PICK k : k = <<c, m>>
  OBVIOUS
<1>2. DOMAIN counters \subseteq DOMAIN counters'
  BY CountsOthers
<1>3. ASSUME k \in DOMAIN counters
      PROVE  counters'[k].n >= counters[k].n
  <2>1. counters[k].n \in Nat /\ k \in Key
    BY <1>3, TypeParts DEF CountersTyped, Counter
  <2>2. CASE k # KeyOf(t)
    <3>1. counters'[k] = counters[k]
      BY <1>3, <2>2, CountsOthers
    <3> QED
      BY <2>1, <3>1
  <2>3. CASE k = KeyOf(t) /\ n = 0
    BY <2>1, <2>3 DEF Counts
  <2>4. CASE k = KeyOf(t) /\ n > 0
    <3>1. Stored(k)
      BY <1>1, <1>3, KeyIsStored
    <3>2. counters' = Incremented(k, n)
      BY <2>4, CountsTypes
    <3>3. counters'[k].n = counters[k].n + n
      BY <2>1, <3>1, <3>2, IncrementedKey
    <3> QED
      BY <2>1, <3>3
  <2> QED
    BY <2>2, <2>3, <2>4
<1> QED
  BY <1>1, <1>2, <1>3

(* A request that is counted as one of the first is let through. *)
LEMMA AdmitAccount ==
    ASSUME TypeInv, TypeInv', NEW t \in Tabs, NEW c \in Clients, NEW m \in Minutes,
           c = ClientOf[t], m = req[t].at, Accounted(c, m),
           pc[t] = "incr", pc'[t] = "idle",
           \A u \in Tabs \ {t} : pc'[u] = pc[u] /\ req'[u] = req[u],
           passed' = [passed EXCEPT ![c][m] = @ + 1],
           <<c, m>> \in DOMAIN counters', counters'[<<c, m>>].n \in Nat,
           counters'[<<c, m>>].n >= Due(c, m) + 1, counters'[<<c, m>>].n <= Limit
    PROVE  Accounted(c, m)'
<1>1. \A u \in Tabs : Waits(u, c, m)' <=> Waits(u, c, m)
  BY DEF Waits
<1>2. passed[c][m] \in Nat /\ passed'[c][m] = passed[c][m] + 1
  BY TypeParts DEF HistoryTyped
<1>3. Due(c, m) \in Nat /\ Due(c, m)' = Due(c, m) + 1
  BY <1>1, <1>2 DEF Due
<1>4. \A u, v \in Tabs : Waits(u, c, m)' /\ Waits(v, c, m)' => u = v
  BY <1>1 DEF Accounted
<1>5. Due(c, m)' <= counters'[<<c, m>>].n /\ Due(c, m)' <= Limit
  BY <1>3, GateAssumption
<1> QED
  BY <1>4, <1>5 DEF Accounted

(* The request that has created the key waits for its EXPIRE. *)
LEMMA FirstAccount ==
    ASSUME TypeInv, TypeInv', NEW t \in Tabs, NEW c \in Clients, NEW m \in Minutes,
           c = ClientOf[t], m = req[t].at, Accounted(c, m),
           Due(c, m) = 0, passed' = passed,
           \A u \in Tabs \ {t} : pc'[u] = pc[u] /\ req'[u] = req[u],
           <<c, m>> \in DOMAIN counters', counters'[<<c, m>>].n = 1
    PROVE  Accounted(c, m)'
<1>1. passed'[c][m] = 0 /\ \A u \in Tabs : ~Waits(u, c, m)
  BY DueIsNat
<1>2. \A u \in Tabs : Waits(u, c, m)' => u = t
  BY <1>1 DEF Waits
<1>3. Due(c, m)' \in {0, 1}
  BY <1>1 DEF Due
<1>4. Due(c, m)' <= Limit
  BY <1>3, GateAssumption
<1>5. Due(c, m)' > 0 => <<c, m>> \in DOMAIN counters' /\ Due(c, m)' <= counters'[<<c, m>>].n
  BY <1>3
<1> QED
  BY <1>2, <1>4, <1>5 DEF Accounted

(* It is let through when it has sent the EXPIRE. *)
LEMMA ExpireAccount ==
    ASSUME TypeInv, TypeInv', NEW t \in Tabs, NEW c \in Clients, NEW m \in Minutes,
           c = ClientOf[t], m = req[t].at, Accounted(c, m),
           pc[t] = "expire", pc'[t] = "idle",
           \A u \in Tabs \ {t} : pc'[u] = pc[u] /\ req'[u] = req[u],
           passed' = [passed EXCEPT ![c][m] = @ + 1],
           DOMAIN counters' = DOMAIN counters,
           \A k \in DOMAIN counters : counters'[k].n = counters[k].n
    PROVE  Accounted(c, m)'
<1>1. Waits(t, c, m)
  BY DEF Waits
<1>2. \A u \in Tabs : ~Waits(u, c, m)'
  BY <1>1 DEF Waits, Accounted
<1>3. passed[c][m] \in Nat /\ passed'[c][m] = passed[c][m] + 1
  BY TypeParts DEF HistoryTyped
<1>4. Due(c, m)' = Due(c, m)
  BY <1>1, <1>2, <1>3 DEF Due
<1>5. Due(c, m)' <= Limit
  BY <1>4 DEF Accounted
<1>6. Due(c, m)' > 0 => <<c, m>> \in DOMAIN counters' /\ Due(c, m)' <= counters'[<<c, m>>].n
  BY <1>4 DEF Accounted
<1> QED
  BY <1>2, <1>5, <1>6 DEF Accounted

(* A step of t passes on no count but the one of its own minute. *)
LEMMA OtherPassed ==
    ASSUME TypeInv, NEW t \in Tabs, NEW c \in Clients, NEW m \in Minutes,
           <<c, m>> # KeyOf(t), Admit(t)
    PROVE  passed'[c][m] = passed[c][m]
<1>1. /\ ClientOf[t] \in Clients /\ req[t].at \in Minutes
      /\ c # ClientOf[t] \/ m # req[t].at
  BY KeyTypes
<1>2. passed' = [passed EXCEPT ![ClientOf[t]][req[t].at] = @ + 1]
  BY DEF Admit
<1> QED
  BY <1>1, <1>2, TypeParts DEF HistoryTyped

(* The steps that count nothing and let nobody through. *)
LEMMA QuietAccount ==
    ASSUME TypeInv, TypeInv', NEW t \in Tabs, NEW c \in Clients, NEW m \in Minutes,
           Accounted(c, m),
           \/ IssueCSRFToken(t) \/ Receive(t) \/ Post(t) \/ CSRFMiddleware(t)
           \/ ReadClock(t) \/ Breaks(t)
    PROVE  Accounted(c, m)'
<1>1. TabsTyped
  BY TypeParts
<1>2. /\ UNCHANGED <<counters, passed>> /\ pc'[t] # "expire"
      /\ \A u \in Tabs \ {t} : pc'[u] = pc[u] /\ req'[u] = req[u]
  <2>1. CASE IssueCSRFToken(t)
    BY <2>1, IssueOutcome
  <2>2. CASE Receive(t)
    BY <1>1, <2>2 DEF Receive, Turn, Answers, TabsTyped
  <2>3. CASE Post(t)
    <3>1. UNCHANGED <<counters, passed>> /\ GoesTo(t, "check")
      BY <2>3 DEF Post, history
    <3>2. \E r : req' = [req EXCEPT ![t] = r]
      BY <2>3 DEF Post
    <3> QED
      BY <1>1, <3>1, <3>2 DEF GoesTo, TabsTyped
  <2>4. CASE CSRFMiddleware(t)
    <3>1. /\ UNCHANGED counters
          /\ (\E code \in Codes : Turn(t, code)) \/ Continue(t, "count")
      BY <2>4, CheckOutcome
    <3> QED
      BY <1>1, <2>4, <3>1, ServesOneTab DEF Turn, Continue, Answers, GoesTo, TabsTyped
  <2>5. CASE ReadClock(t)
    <3>1. UNCHANGED counters /\ UNCHANGED passed /\ pc'[t] # "expire"
      BY <1>1, <2>5 DEF ReadClock, Turn, Answers, GoesTo, TabsTyped
    <3> QED
      BY <2>5, <3>1, ServesOneTab
  <2>6. CASE Breaks(t)
    BY <1>1, <2>6 DEF Breaks, Turn, Answers, TabsTyped
  <2> QED
    BY <2>1, <2>2, <2>3, <2>4, <2>5, <2>6
<1>3. \A u \in Tabs : Waits(u, c, m)' => Waits(u, c, m)
  BY <1>2, OtherAccounts DEF Waits
<1>4. <<c, m>> \in DOMAIN counters => counters[<<c, m>>].n \in Nat
  BY TypeParts DEF CountersTyped, Counter
<1> QED
  BY <1>2, <1>3, <1>4, AccountStays

LEMMA IncrAccount ==
    ASSUME TypeInv, TypeInv', KeysLive, NEW t \in Tabs, NEW c \in Clients, NEW m \in Minutes,
           minute <= m + 1, Accounted(c, m), Incr(t)
    PROVE  Accounted(c, m)'
<1>1. PICK n \in 1 .. Tries : Counts(t, n)
  BY DEF Incr, Tries
<1>2. n \in Nat /\ n > 0 /\ n \in Nat \ {0}
  BY <1>1
<1>3. TabsTyped
  BY TypeParts
<1>4. /\ pc[t] = "incr"
      /\ \A u \in Tabs \ {t} : pc'[u] = pc[u] /\ req'[u] = req[u]
      /\ IF counters'[KeyOf(t)].n = 1 THEN Continue(t, "expire")
         ELSE Decide(t, counters'[KeyOf(t)].n)
  BY IncrOutcome, ServesOneTab
<1>5. /\ DOMAIN counters \subseteq DOMAIN counters'
      /\ <<c, m>> \in DOMAIN counters => counters'[<<c, m>>].n >= counters[<<c, m>>].n
  BY <1>1, <1>2, CountsGrow
<1>6. CASE <<c, m>> = KeyOf(t)
  <2>1. c = ClientOf[t] /\ m = req[t].at
    BY <1>6, KeyTypes
  <2>2. /\ <<c, m>> \in DOMAIN counters' /\ counters'[<<c, m>>].n \in Nat
        /\ counters'[<<c, m>>].n >= Due(c, m) + 1
    BY <1>1, <1>2, <1>4, <1>6, <2>1, CountsAccount
  <2>3. CASE counters'[<<c, m>>].n = 1
    <3>1. GoesTo(t, "expire") /\ req' = req /\ passed' = passed
      BY <1>4, <1>6, <2>3 DEF Continue
    <3>2. Due(c, m) = 0
      BY <2>2, <2>3, DueIsNat
    <3> QED
      BY <1>4, <2>1, <2>2, <2>3, <3>1, <3>2, FirstAccount
  <2>4. CASE counters'[<<c, m>>].n # 1 /\ counters'[<<c, m>>].n > Limit
    <3>1. Turn(t, "limited")
      BY <1>4, <1>6, <2>4 DEF Decide
    <3>2. passed' = passed /\ pc'[t] = "idle"
      BY <1>3, <3>1 DEF Turn, Answers, TabsTyped
    <3>3. \A u \in Tabs : Waits(u, c, m)' => Waits(u, c, m)
      BY <1>4, <3>2, OtherAccounts DEF Waits
    <3> QED
      BY <1>5, <3>2, <3>3, AccountStays
  <2>5. CASE counters'[<<c, m>>].n # 1 /\ ~(counters'[<<c, m>>].n > Limit)
    <3>1. Admit(t)
      BY <1>4, <1>6, <2>5 DEF Decide
    <3>2. pc'[t] = "idle" /\ passed' = [passed EXCEPT ![c][m] = @ + 1]
      BY <1>3, <2>1, <3>1 DEF Admit, Answers, TabsTyped
    <3>3. counters'[<<c, m>>].n <= Limit
      BY <2>2, <2>5, GateAssumption
    <3> QED
      BY <1>4, <2>1, <2>2, <3>2, <3>3, AdmitAccount
  <2> QED
    BY <2>3, <2>4, <2>5
<1>7. CASE <<c, m>> # KeyOf(t)
  <2>1. ~(ClientOf[t] = c /\ req[t].at = m)
    BY <1>7, KeyTypes
  <2>2. ~Waits(t, c, m)' /\ passed'[c][m] = passed[c][m]
    <3>1. CASE Continue(t, "expire")
      BY <2>1, <3>1 DEF Continue, Waits
    <3>2. CASE Turn(t, "limited")
      BY <1>3, <3>2 DEF Turn, Answers, Waits, TabsTyped
    <3>3. CASE Admit(t)
      <4>1. pc'[t] = "idle"
        BY <1>3, <3>3 DEF Admit, Answers, TabsTyped
      <4> QED
        BY <1>7, <3>3, <4>1, OtherPassed DEF Waits
    <3> QED
      BY <1>4, <3>1, <3>2, <3>3 DEF Decide
  <2>3. \A u \in Tabs : Waits(u, c, m)' => Waits(u, c, m)
    BY <1>4, <2>2, OtherAccounts
  <2> QED
    BY <1>5, <2>2, <2>3, AccountStays
<1> QED
  BY <1>6, <1>7

LEMMA IncrFailsAccount ==
    ASSUME TypeInv, TypeInv', KeysLive, NEW t \in Tabs, NEW c \in Clients, NEW m \in Minutes,
           minute <= m + 1, Accounted(c, m), IncrFails(t), config.production
    PROVE  Accounted(c, m)'
<1>1. PICK n \in 0 .. Tries : Counts(t, n)
  BY DEF IncrFails
<1>2. n \in Nat
  BY <1>1
<1>3. Turn(t, "unavailable") /\ \A u \in Tabs \ {t} : pc'[u] = pc[u] /\ req'[u] = req[u]
  BY ServesOneTab DEF IncrFails
<1>4. passed' = passed /\ pc'[t] = "idle"
  BY <1>3, TypeParts DEF Turn, Answers, TabsTyped
<1>5. \A u \in Tabs : Waits(u, c, m)' => Waits(u, c, m)
  BY <1>3, <1>4, OtherAccounts DEF Waits
<1>6. /\ DOMAIN counters \subseteq DOMAIN counters'
      /\ <<c, m>> \in DOMAIN counters => counters'[<<c, m>>].n >= counters[<<c, m>>].n
  BY <1>1, <1>2, CountsGrow
<1> QED
  BY <1>4, <1>5, <1>6, AccountStays

LEMMA ExpiresAccount ==
    ASSUME TypeInv, TypeInv', NEW t \in Tabs, NEW c \in Clients, NEW m \in Minutes,
           Accounted(c, m), Expire(t)
    PROVE  Accounted(c, m)'
<1>1. /\ pc[t] = "expire" /\ Admit(t)
      /\ DOMAIN counters' = DOMAIN counters
      /\ \A k \in DOMAIN counters : counters'[k].n = counters[k].n
      /\ \A u \in Tabs \ {t} : pc'[u] = pc[u] /\ req'[u] = req[u]
  BY ExpireOutcome, ServesOneTab
<1>2. pc'[t] = "idle"
  BY <1>1, TypeParts DEF Admit, Answers, TabsTyped
<1>3. CASE <<c, m>> = KeyOf(t)
  <2>1. c = ClientOf[t] /\ m = req[t].at
    BY <1>3, KeyTypes
  <2>2. passed' = [passed EXCEPT ![c][m] = @ + 1]
    BY <1>1, <2>1 DEF Admit
  <2> QED
    BY <1>1, <1>2, <2>1, <2>2, ExpireAccount
<1>4. CASE <<c, m>> # KeyOf(t)
  <2>1. passed'[c][m] = passed[c][m]
    BY <1>1, <1>4, OtherPassed
  <2>2. \A u \in Tabs : Waits(u, c, m)' => Waits(u, c, m)
    BY <1>1, <1>2, OtherAccounts DEF Waits
  <2>3. <<c, m>> \in DOMAIN counters => counters[<<c, m>>].n \in Nat
    BY TypeParts DEF CountersTyped, Counter
  <2> QED
    BY <1>1, <2>1, <2>2, <2>3, AccountStays
<1> QED
  BY <1>3, <1>4

(* The clock goes on: the keys of this minute and the last one stay. *)
LEMMA TickAccount ==
    ASSUME TypeInv, TypeInv', KeysLive, Tick, NEW c \in Clients, NEW m \in Minutes,
           minute' <= m + 1, Accounted(c, m)
    PROVE  Accounted(c, m)'
<1>1. PICK k : k = <<c, m>>
  OBVIOUS
<1>2. minute' = minute + 1 /\ minute \in Nat /\ m \in Nat
  BY TypeParts, GateAssumption DEF Tick, RestTyped, Minutes
<1>3. /\ UNCHANGED <<pc, req>> /\ passed' = Recent(passed)
      /\ counters' = [x \in {y \in DOMAIN counters : minute' < counters[y].until} |-> counters[x]]
  BY DEF Tick
<1>4. passed'[c][m] = passed[c][m]
  BY <1>2, <1>3 DEF Recent
<1>5. Due(c, m)' = Due(c, m)
  BY <1>3, <1>4 DEF Due, Waits
<1>6. ASSUME k \in DOMAIN counters
      PROVE  k \in DOMAIN counters' /\ counters'[k] = counters[k]
  <2>1. counters[k].until \in Nat /\ counters[k].until >= m + 2
    BY <1>1, <1>6, TypeParts DEF CountersTyped, Counter, KeysLive, KeyLife
  <2> QED
    BY <1>2, <1>3, <1>6, <2>1
<1> QED
  BY <1>1, <1>3, <1>5, <1>6 DEF Accounted, Waits

LEMMA LifeStep ==
    ASSUME TypeInv, KeysLive, [Next]_vars
    PROVE  KeysLive'
<1>1. TabsTyped /\ CountersTyped /\ RestTyped
  BY TypeParts
<1>2. ASSUME NEW t \in Tabs, Incr(t) \/ IncrFails(t)
      PROVE  KeysLive'
  <2>1. PICK n \in 0 .. Tries : Counts(t, n)
    BY <1>2 DEF Incr, IncrFails, Tries
  <2>2. CASE n = 0
    BY <2>1, <2>2 DEF Counts, KeysLive
  <2>3. CASE n > 0
    <3> DEFINE k == KeyOf(t)
               new == Incremented(k, n)
    <3>1. counters' = new /\ k \in Key
      <4>1. n \in Nat
        BY <2>1
      <4> QED
        BY <2>1, <2>3, <4>1, CountsTypes, KeyTypes
    <3>5. n \in Nat
      BY <2>1
    <3>2. /\ DOMAIN new = DOMAIN counters \cup {k}
          /\ Stored(k) => new[k].until = counters[k].until
          /\ ~Stored(k) => new[k].until = Forever
          /\ \A x \in DOMAIN counters \ {k} : new[x] = counters[x]
      BY <3>1, <3>5, IncrementedKey
    <3>3. k[2] \in Nat /\ Forever >= k[2] + KeyLife
      BY <3>1, GateAssumption DEF Key, Minutes, Forever, KeyLife
    <3> HIDE DEF new, k
    <3>4. new[k].until >= k[2] + KeyLife
      BY <3>2, <3>3 DEF Stored, KeysLive
    <3> QED
      BY <3>1, <3>2, <3>4 DEF KeysLive
  <2> QED
    BY <2>1, <2>2, <2>3
<1>3. ASSUME NEW t \in Tabs, Expire(t)
      PROVE  KeysLive'
  <2>1. KeyOf(t)[2] = req[t].at /\ req[t].at \in Nat /\ minute \in Nat
    BY KeyTypes
  <2>2. req[t].at <= minute
    BY <1>1 DEF TabsTyped
  <2>3. minute + KeyLife >= KeyOf(t)[2] + KeyLife
    BY <2>1, <2>2 DEF KeyLife
  <2>4. ASSUME NEW k \in DOMAIN counters
        PROVE  counters'[k].until >= k[2] + KeyLife
    BY <1>3, <2>3, ExpireOutcome DEF KeysLive
  <2> QED
    BY <1>3, <2>4, ExpireOutcome DEF KeysLive
<1>4. ASSUME NEW t \in Tabs,
             \/ IssueCSRFToken(t) \/ Receive(t) \/ Post(t) \/ CSRFMiddleware(t)
             \/ ReadClock(t) \/ Breaks(t)
      PROVE  KeysLive'
  <2>1. counters' = counters
    BY <1>4 DEF IssueCSRFToken, Receive, Post, CSRFMiddleware, ReadClock, Breaks
  <2> QED
    BY <2>1 DEF KeysLive
<1>5. CASE Tick
  <2> DEFINE K == {x \in DOMAIN counters : minute' < counters[x].until}
  <2>1. counters' = [k \in K |-> counters[k]]
    BY <1>5 DEF Tick
  <2> QED
    BY <2>1 DEF KeysLive
<1>6. CASE Forget
  BY <1>6 DEF Forget, KeysLive
<1>7. CASE UNCHANGED vars
  BY <1>7 DEF vars, KeysLive
<1> QED
  BY <1>2, <1>3, <1>4, <1>5, <1>6, <1>7 DEF Next

LEMMA AccountStep ==
    ASSUME TypeInv, TypeInv', CountInv, [Next]_vars, Guarded',
           NEW c \in Clients, NEW m \in Minutes, minute' <= m + 1
    PROVE  Accounted(c, m)'
<1>1. /\ config' = config /\ ~Forget /\ (forgot' = forgot)
      /\ minute' = minute \/ minute' = minute + 1
  BY DEF Guarded, Next, vars, Forget, IssueCSRFToken, Receive, Post, CSRFMiddleware, ReadClock,
         Incr, IncrFails, Expire, Breaks, Tick
<1>2. minute \in Nat /\ m \in Nat
  BY TypeParts, GateAssumption DEF RestTyped, Minutes
<1>3. minute <= m + 1
  BY <1>1, <1>2
<1>4. Guarded /\ KeysLive /\ Accounted(c, m)
  BY <1>1, <1>3 DEF Guarded, CountInv
<1>5. ASSUME NEW t \in Tabs,
             \/ IssueCSRFToken(t) \/ Receive(t) \/ Post(t) \/ CSRFMiddleware(t)
             \/ ReadClock(t) \/ Incr(t) \/ IncrFails(t) \/ Expire(t) \/ Breaks(t)
      PROVE  Accounted(c, m)'
  BY <1>3, <1>4, <1>5, QuietAccount, IncrAccount, IncrFailsAccount, ExpiresAccount DEF Guarded
<1>6. CASE Tick
  BY <1>4, <1>6, TickAccount
<1>7. CASE UNCHANGED vars
  BY <1>4, <1>7 DEF vars, history, Accounted, Due, Waits
<1> QED
  BY <1>1, <1>5, <1>6, <1>7 DEF Next

(* Nobody is let through for a minute that ended more than a minute ago. *)
LEMMA PastStep ==
    ASSUME TypeInv, TypeInv', CountInv, [Next]_vars, Guarded',
           NEW c \in Clients, NEW m \in Minutes, m + 1 < minute'
    PROVE  passed'[c][m] = 0
<1>1. minute \in Nat /\ m \in Nat
  BY TypeParts, GateAssumption DEF RestTyped, Minutes
<1>2. CASE Tick
  BY <1>1, <1>2 DEF Tick, Recent
<1>3. CASE UNCHANGED vars
  BY <1>3 DEF vars, history, CountInv, Guarded
<1>4. ASSUME NEW t \in Tabs,
             \/ IssueCSRFToken(t) \/ Receive(t) \/ Post(t) \/ CSRFMiddleware(t)
             \/ ReadClock(t) \/ Incr(t) \/ IncrFails(t) \/ Expire(t) \/ Breaks(t)
      PROVE  passed'[c][m] = 0
  <2>1. UNCHANGED <<config, minute, forgot>>
    BY <1>4 DEF IssueCSRFToken, Receive, Post, CSRFMiddleware, ReadClock,
                Incr, IncrFails, Expire, Breaks
  <2>2. passed[c][m] = 0
    BY <2>1 DEF CountInv, Guarded
  <2>3. passed' = passed \/ (pc[t] \in {"incr", "expire"} /\ Admit(t))
    <3>1. CASE IssueCSRFToken(t) \/ Receive(t) \/ Post(t) \/ CSRFMiddleware(t)
               \/ ReadClock(t) \/ Breaks(t)
      BY <3>1, IssueOutcome, CheckOutcome DEF Receive, Post, ReadClock, Breaks, Turn, Continue,
                                              history
    <3>2. CASE Incr(t) \/ IncrFails(t) \/ Expire(t)
      BY <3>2 DEF Incr, IncrFails, Expire, Turn, Continue, Decide
    <3> QED
      BY <1>4, <3>1, <3>2
  <2>4. pc[t] \in {"incr", "expire"} => <<c, m>> # KeyOf(t)
    <3>1. pc[t] \in {"incr", "expire"} => minute <= req[t].at + 1
      BY TypeParts DEF TabsTyped
    <3>2. KeyOf(t)[2] = req[t].at /\ req[t].at \in Nat
      BY KeyTypes
    <3>3. <<c, m>> = KeyOf(t) => m = req[t].at
      BY <3>2
    <3> QED
      BY <1>1, <2>1, <3>1, <3>2, <3>3
  <2> QED
    BY <2>2, <2>3, <2>4, OtherPassed
<1>5. ~Forget
  BY DEF Guarded, Forget
<1> QED
  BY <1>2, <1>3, <1>4, <1>5 DEF Next

LEMMA CountInit ==
    ASSUME Init
    PROVE  CountInv
<1>1. DOMAIN counters = {} /\ \A t \in Tabs : pc[t] = "idle"
  BY DEF Init
<1>2. passed = [c \in Clients |-> [m \in Minutes |-> 0]]
  BY DEF Init
<1>3. ASSUME NEW c \in Clients, NEW m \in Minutes
      PROVE  Accounted(c, m) /\ passed[c][m] = 0
  <2>1. passed[c][m] = 0 /\ \A t \in Tabs : ~Waits(t, c, m)
    BY <1>1, <1>2 DEF Waits
  <2>2. Due(c, m) = 0
    BY <2>1 DEF Due
  <2> QED
    BY <2>1, <2>2, GateAssumption DEF Accounted
<1> QED
  BY <1>1, <1>3 DEF CountInv, KeysLive

LEMMA CountStep ==
    ASSUME TypeInv, CountInv, [Next]_vars
    PROVE  CountInv'
<1>1. TypeInv'
  BY TypeStep
<1>2. KeysLive'
  BY LifeStep DEF CountInv
<1>3. ASSUME Guarded', NEW c \in Clients, NEW m \in Minutes
      PROVE  /\ minute' <= m + 1 => Accounted(c, m)'
             /\ m + 1 < minute' => passed'[c][m] = 0
  BY <1>1, <1>3, AccountStep, PastStep
<1> QED
  BY <1>2, <1>3 DEF CountInv

(***************************************************************************)
(* In production no more requests of a client get through in one minute    *)
(* than the limit, whatever the limit, the number of its tabs and the      *)
(* commands that fail or are repeated; only a restart of Redis forgets.    *)
(***************************************************************************)
THEOREM LimitHolds == Spec => []MinuteHolds
<1>1. TypeInv /\ CountInv /\ [Next]_vars => (TypeInv /\ CountInv)'
  BY TypeStep, CountStep
<1>2. ASSUME TypeInv, CountInv
      PROVE  MinuteHolds
  <2>1. SUFFICES ASSUME Guarded, NEW c \in Clients, NEW m \in Minutes
                 PROVE  passed[c][m] <= Limit
    BY DEF MinuteHolds, Guarded
  <2>2. minute \in Nat /\ m \in Nat /\ Limit \in Nat
    BY <1>2, TypeParts, GateAssumption DEF RestTyped, Minutes
  <2>3. CASE minute <= m + 1
    <3>1. Accounted(c, m)
      BY <1>2, <2>1, <2>3 DEF CountInv
    <3> QED
      BY <1>2, <2>2, <3>1, DueIsNat DEF Accounted
  <2>4. CASE m + 1 < minute
    BY <1>2, <2>1, <2>2, <2>4 DEF CountInv
  <2> QED
    BY <2>2, <2>3, <2>4
<1> QED
  BY <1>1, <1>2, InitTypes, CountInit, PTL DEF Spec
=============================================================================
