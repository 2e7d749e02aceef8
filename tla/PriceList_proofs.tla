--------------------------- MODULE PriceList_proofs ---------------------------
(***************************************************************************)
(* Proofs about the SP-API client under the load of price lists and other  *)
(* callers, and about the lists' jobs, for any callers, sheets, rates,     *)
(* sizes of a chunk, life of a token and faults.                           *)
(*                                                                         *)
(* A lookup is followed chunk by chunk: what is left to be asked for and   *)
(* what has been found belong together at every step (LookingUp).          *)
(***************************************************************************)
EXTENDS PriceList, FiniteSetTheorems, WellFoundedInduction, TLAPS

\* The records of calls and jobs have their fields; what these hold is left open.
CallShape(r) ==
    r \in [at : {r.at}, method : {r.method}, type : {r.type}, todo : {r.todo}, found : {r.found},
           priced : {r.priced}, denied : {r.denied}, error : {r.error}, whole : {r.whole},
           age : {r.age}, since : {r.since}]
ListShape(l) ==
    l \in [at : {l.at}, path : {l.path}, items : {l.items}, pairs : {l.pairs}, whole : {l.whole},
           todo : {l.todo}, sent : {l.sent}, tries : {l.tries}]

\* A token that is sent outlives one more time-out.
Sound(r) ==
    /\ CallShape(r)
    /\ r.age \in Nat /\ r.since \in 0 .. 1
    /\ r.at = "sent" => r.age < TokenLife - 1

Calls ==
    /\ call = [c \in Callers |-> call[c]]
    /\ \A c \in Callers : Sound(call[c])

\* The age a token came with, and what is left of it after the margin.
Token ==
    /\ token \in [age : Nat, left : Nat]
    /\ token.left > 0 => token.age + token.left <= TokenLife - TokenMargin + 1

Rates == rate \in [Endpoints -> Nat] /\ \A e \in Endpoints : rate[e] \in Floor .. NewRate[e]

Lock ==
    /\ holder = {c \in Callers : call[c].at = "asking"}
    /\ holder = {} \/ \E c \in Callers : holder = {c}

\* Only a job that looks something up, or probes, has a call under way.
Jobs ==
    /\ list = [c \in Callers |-> list[c]]
    /\ \A c \in Callers : ListShape(list[c])
    /\ \A c \in Callers : list[c].at \notin {"lookup", "probing"} => call[c].at = "idle"

IInv == Calls /\ Token /\ Rates /\ Lock /\ Jobs
-----------------------------------------------------------------------------
(* What an answer leaves of a call.                                        *)

\* The result of a request keeps the record's fields.
LEMMA TakenShape == ASSUME NEW r, CallShape(r) PROVE CallShape(Taken(r))
<1>. DEFINE E == Head(r.todo).ep
<1>1. CASE E = "catalog_search"
  BY <1>1 DEF Taken, Searched, Browsed, CallShape
<1>2. CASE E = "catalog_items"
  BY <1>2 DEF Taken, LookedUp, CallShape
<1>3. CASE E = "competitive_pricing"
  BY <1>3 DEF Taken, Priced, CallShape
<1>4. CASE E \notin {"catalog_search", "catalog_items", "competitive_pricing"}
  BY <1>4 DEF Taken, Checked, CallShape
<1>. QED  BY <1>1, <1>2, <1>3, <1>4

\* Neither does a failure change them.
LEMMA MissedShape == ASSUME NEW r, CallShape(r) PROVE CallShape(Missed(r))
<1>1. ASSUME NEW w, NEW e PROVE CallShape([r EXCEPT !.whole = w, !.error = e])
  BY DEF CallShape
<1>. QED  BY <1>1, Zenon DEF Missed

\* After a request the call waits for its next one, or is over.
LEMMA OnwardSound ==
    ASSUME NEW r, CallShape(r)
    PROVE  Sound(Onward(r)) /\ Onward(r).at \in {"limit", "back"}
<1>. DEFINE N(t, a) == [r EXCEPT !.todo = t, !.at = a, !.age = 0, !.since = 0]
<1>1. ASSUME NEW t, NEW a
      PROVE  CallShape(N(t, a)) /\ N(t, a).at = a /\ N(t, a).age = 0 /\ N(t, a).since = 0
  BY DEF CallShape
<1>2. \E t, a : a \in {"limit", "back"} /\ Onward(r) = N(t, a)
  <2>. DEFINE rest == IF Len(r.todo) > 1 THEN Tail(r.todo) ELSE Enrichment(r)
  <2>1. Onward(r) = N(rest, IF rest = <<>> THEN "back" ELSE "limit")
    BY Zenon DEF Onward
  <2>2. (IF rest = <<>> THEN "back" ELSE "limit") \in {"limit", "back"}
    BY Zenon
  <2>. QED  BY <2>1, <2>2, Zenon
<1>. HIDE DEF N
<1>3. PICK t, a : a \in {"limit", "back"} /\ Onward(r) = N(t, a)
  BY <1>2
<1>. QED  BY <1>1, <1>3 DEF Sound

\* A call begins by waiting for its limiter, no call is a sound one.
LEMMA CalledSound ==
    /\ \A method, todo : Sound(Called(method, todo)) /\ Called(method, todo).at = "limit"
    /\ \A method, todo, type : /\ Sound([Called(method, todo) EXCEPT !.type = type])
                               /\ [Called(method, todo) EXCEPT !.type = type].at = "limit"
    /\ Sound(NoCall) /\ NoCall.at = "idle"
<1>. DEFINE R(f, g) == [at |-> "idle", method |-> "none", type |-> "none", todo |-> <<>>, found |-> <<>>,
                        priced |-> {}, denied |-> {}, error |-> f, whole |-> g, age |-> 0, since |-> 0]
            C(r, method, todo) == [r EXCEPT !.at = "limit", !.method = method, !.todo = todo]
            D(r, type) == [r EXCEPT !.type = type]
<1>1. ASSUME NEW f, NEW g
      PROVE  CallShape(R(f, g)) /\ R(f, g).at = "idle" /\ R(f, g).age = 0 /\ R(f, g).since = 0
  BY DEF CallShape
<1>2. ASSUME NEW r, CallShape(r), NEW method, NEW todo
      PROVE  /\ CallShape(C(r, method, todo)) /\ C(r, method, todo).at = "limit"
             /\ C(r, method, todo).age = r.age /\ C(r, method, todo).since = r.since
  BY <1>2 DEF CallShape
<1>3. ASSUME NEW r, CallShape(r), NEW type
      PROVE  /\ CallShape(D(r, type)) /\ D(r, type).at = r.at
             /\ D(r, type).age = r.age /\ D(r, type).since = r.since
  BY <1>3 DEF CallShape
<1>4. NoCall = R(FALSE, TRUE)
  BY Zenon DEF NoCall
<1>5. \A method, todo : Called(method, todo) = C(NoCall, method, todo)
  BY Zenon DEF Called
<1>. HIDE DEF R, C
<1>6. /\ CallShape(NoCall) /\ NoCall.at = "idle" /\ NoCall.age = 0 /\ NoCall.since = 0
  BY <1>1, <1>4, Zenon
<1>7. ASSUME NEW method, NEW todo
      PROVE  /\ CallShape(Called(method, todo)) /\ Called(method, todo).at = "limit"
             /\ Called(method, todo).age = 0 /\ Called(method, todo).since = 0
  BY <1>2, <1>5, <1>6, ZenonT(40)
<1>8. ASSUME NEW r, CallShape(r), r.at \in {"idle", "limit"}, r.age = 0, r.since = 0
      PROVE  Sound(r)
  BY <1>8 DEF Sound
<1>9. ASSUME NEW method, NEW todo, NEW type
      PROVE  Sound(D(Called(method, todo), type)) /\ D(Called(method, todo), type).at = "limit"
  <2>1. CallShape(Called(method, todo)) /\ Called(method, todo).at = "limit"
        /\ Called(method, todo).age = 0 /\ Called(method, todo).since = 0
    BY <1>7
  <2>. HIDE DEF D
  <2>2. /\ CallShape(D(Called(method, todo), type)) /\ D(Called(method, todo), type).at = "limit"
        /\ D(Called(method, todo), type).age = 0 /\ D(Called(method, todo), type).since = 0
    BY <1>3, <2>1
  <2>. QED  BY <1>8, <2>2
<1>10. \A method, todo : Sound(Called(method, todo)) /\ Called(method, todo).at = "limit"
  BY <1>7, <1>8
<1>11. Sound(NoCall) /\ NoCall.at = "idle"
  BY <1>6, <1>8
<1>. QED  BY <1>9, <1>10, <1>11, Zenon

\* A lookup begins like any other call.
LEMMA LookupSound ==
    ASSUME NEW ids, NEW type
    PROVE  Sound(LookupByIdentifier(ids, type)) /\ LookupByIdentifier(ids, type).at = "limit"
<1>. DEFINE chunks == Chunks(ids)
            todo == [k \in DOMAIN chunks |-> Request("catalog_items", chunks[k])]
<1>1. LookupByIdentifier(ids, type) = [Called("lookup", todo) EXCEPT !.type = type]
  BY Zenon DEF LookupByIdentifier
<1>. HIDE DEF todo
<1>. QED  BY <1>1, CalledSound
-----------------------------------------------------------------------------
(* The rates.                                                              *)

\* Recovery and halving stay between the floor and the initial rate.
LEMMA RatesBounded ==
    ASSUME NEW e \in Endpoints, NEW r \in Floor .. NewRate[e]
    PROVE  /\ Recovered(e, r) \in Floor .. NewRate[e]
           /\ Halved(r) \in Floor .. NewRate[e]
           /\ r < NewRate[e] => Recovered(e, r) \in r + 1 .. NewRate[e]
<1>. USE ClientAssumption
<1>0. Floor \in Nat /\ Floor >= 10 /\ NewRate[e] \in Nat /\ r \in Nat /\ r >= Floor /\ r <= NewRate[e]
  OBVIOUS
<1>1. (11 * r) \div 10 \in Nat /\ (11 * r) \div 10 >= r + 1
  BY <1>0
<1>2. r \div 2 \in Nat /\ r \div 2 <= r
  BY <1>0
<1>. QED  BY <1>0, <1>1, <1>2 DEF Recovered, Halved

\* A limiter's rate changes to a recovered or halved one only.
LEMMA RatesStep ==
    ASSUME Rates, NEW e, \/ UNCHANGED rate
                         \/ rate' = [rate EXCEPT ![e] = Recovered(e, @)]
                         \/ rate' = [rate EXCEPT ![e] = Halved(@)]
    PROVE  Rates'
<1>0. NewRate \in [Endpoints -> Nat] /\ Floor \in Nat
  BY ClientAssumption
<1>1. CASE UNCHANGED rate
  BY <1>1 DEF Rates
<1>2. CASE e \notin Endpoints /\ ~UNCHANGED rate
  BY <1>2 DEF Rates
<1>3. CASE e \in Endpoints /\ ~UNCHANGED rate
  <2>1. rate[e] \in Floor .. NewRate[e]
    BY <1>3 DEF Rates
  <2>2. Recovered(e, rate[e]) \in Floor .. NewRate[e] /\ Halved(rate[e]) \in Floor .. NewRate[e]
    BY <1>3, <2>1, RatesBounded
  <2>. QED  BY <1>0, <1>3, <2>2 DEF Rates
<1>. QED  BY <1>1, <1>2, <1>3
-----------------------------------------------------------------------------
(* What a change of one call does to the parts of the invariant.           *)

\* Moving on, taking a token and waiting keep a call sound.
LEMMA SoundMoves ==
    ASSUME NEW r, Sound(r)
    PROVE  /\ \A a : a # "sent" => /\ Sound([r EXCEPT !.at = a])
                                   /\ [r EXCEPT !.at = a].at = a
           /\ \A n \in Nat : n < TokenLife - 1 =>
                 /\ Sound([r EXCEPT !.at = "sent", !.age = n])
                 /\ [r EXCEPT !.at = "sent", !.age = n].at = "sent"
                 /\ Sound([r EXCEPT !.at = "sent", !.age = n, !.since = 0])
                 /\ [r EXCEPT !.at = "sent", !.age = n, !.since = 0].at = "sent"
           /\ Sound([r EXCEPT !.since = 1]) /\ [r EXCEPT !.since = 1].at = r.at
<1>1. ASSUME NEW a, a # "sent"
      PROVE  Sound([r EXCEPT !.at = a]) /\ [r EXCEPT !.at = a].at = a
  <2>. DEFINE n == [r EXCEPT !.at = a]
  <2>1. CallShape(n) /\ n.at = a /\ n.age = r.age /\ n.since = r.since
    BY DEF Sound, CallShape
  <2>. QED  BY <1>1, <2>1 DEF Sound
<1>2. ASSUME NEW m \in Nat, m < TokenLife - 1
      PROVE  /\ Sound([r EXCEPT !.at = "sent", !.age = m])
             /\ [r EXCEPT !.at = "sent", !.age = m].at = "sent"
  <2>. DEFINE n == [r EXCEPT !.at = "sent", !.age = m]
  <2>1. CallShape(n) /\ n.at = "sent" /\ n.age = m /\ n.since = r.since
    BY DEF Sound, CallShape
  <2>. QED  BY <1>2, <2>1 DEF Sound
<1>3. ASSUME NEW m \in Nat, m < TokenLife - 1
      PROVE  /\ Sound([r EXCEPT !.at = "sent", !.age = m, !.since = 0])
             /\ [r EXCEPT !.at = "sent", !.age = m, !.since = 0].at = "sent"
  <2>. DEFINE n == [r EXCEPT !.at = "sent", !.age = m, !.since = 0]
  <2>1. CallShape(n) /\ n.at = "sent" /\ n.age = m /\ n.since = 0
    BY DEF Sound, CallShape
  <2>. QED  BY <1>3, <2>1 DEF Sound
<1>4. Sound([r EXCEPT !.since = 1]) /\ [r EXCEPT !.since = 1].at = r.at
  <2>. DEFINE n == [r EXCEPT !.since = 1]
  <2>1. CallShape(n) /\ n.at = r.at /\ n.age = r.age /\ n.since = 1
    BY DEF Sound, CallShape
  <2>. QED  BY <2>1 DEF Sound
<1>. QED  BY <1>1, <1>2, <1>3, <1>4

\* A sound call in the place of a caller's.
LEMMA CallsKept ==
    ASSUME Calls, NEW c \in Callers, NEW r, Sound(r), call' = [call EXCEPT ![c] = r]
    PROVE  Calls' /\ call'[c] = r /\ \A d \in Callers \ {c} : call'[d] = call[d]
BY DEF Calls

\* The mutex goes to a caller that asks, and is given back by it.
LEMMA LockKept ==
    ASSUME Calls, Lock, NEW c \in Callers, NEW r, Sound(r), call' = [call EXCEPT ![c] = r],
           \/ call[c].at # "asking" /\ r.at # "asking" /\ holder' = holder
           \/ holder = {} /\ holder' = {c} /\ r.at = "asking"
           \/ call[c].at = "asking" /\ holder' = {} /\ r.at # "asking"
    PROVE  Lock'
<1>0. call'[c] = r /\ \A d \in Callers \ {c} : call'[d] = call[d]
  BY CallsKept
<1>1. CASE call[c].at # "asking" /\ r.at # "asking" /\ holder' = holder
  BY <1>0, <1>1 DEF Lock
<1>2. CASE holder = {} /\ holder' = {c} /\ r.at = "asking"
  BY <1>0, <1>2 DEF Lock
<1>3. CASE call[c].at = "asking" /\ holder' = {} /\ r.at # "asking"
  <2>1. holder = {c}
    BY <1>3 DEF Lock
  <2>. QED  BY <1>0, <1>3, <2>1 DEF Lock
<1>. QED  BY <1>1, <1>2, <1>3

\* A call that is under way belongs to a job that waits for it.
LEMMA JobsKept ==
    ASSUME Calls, Jobs, NEW c \in Callers, NEW r, Sound(r), call' = [call EXCEPT ![c] = r],
           UNCHANGED list, call[c].at # "idle"
    PROVE  Jobs'
<1>0. call'[c] = r /\ \A d \in Callers \ {c} : call'[d] = call[d]
  BY CallsKept
<1>. QED  BY <1>0 DEF Jobs

\* One request of one caller.
LEMMA ClientKept ==
    ASSUME IInv, NEW c \in Callers, ClientStep(c), UNCHANGED listVars
    PROVE  IInv'
<1>0. Sound(call[c]) /\ CallShape(call[c]) /\ UNCHANGED list
  BY DEF IInv, Calls, Sound, listVars
<1>. DEFINE S(r) == /\ Sound(r) /\ call' = [call EXCEPT ![c] = r]
                    /\ call[c].at # "idle"
            Locked(r) == \/ call[c].at # "asking" /\ r.at # "asking" /\ holder' = holder
                         \/ holder = {} /\ holder' = {c} /\ r.at = "asking"
                         \/ call[c].at = "asking" /\ holder' = {} /\ r.at # "asking"
<1>a. ASSUME NEW r, S(r), Locked(r), Rates', Token' PROVE IInv'
  <2>1. Calls'
    BY <1>a, CallsKept DEF IInv
  <2>2. Lock'
    BY <1>a, LockKept DEF IInv
  <2>3. Jobs'
    BY <1>a, <1>0, JobsKept DEF IInv
  <2>. QED  BY <1>a, <2>1, <2>2, <2>3 DEF IInv
<1>b. UNCHANGED rate => Rates'
  BY DEF IInv, Rates
<1>c. UNCHANGED token => Token'
  BY DEF IInv, Token
<1>d. ASSUME NEW r, CallShape(r) PROVE Sound(Onward(r)) /\ Onward(r).at \notin {"asking", "sent"}
  BY <1>d, OnwardSound
<1>1. CASE Wait(c)
  <2>. DEFINE r == [call[c] EXCEPT !.at = "token"]
  <2>0. \A a : a # "sent" => Sound([call[c] EXCEPT !.at = a]) /\ [call[c] EXCEPT !.at = a].at = a
    BY <1>0, SoundMoves
  <2>1. Sound(r) /\ r.at = "token"
    BY <2>0
  <2>2. S(r) /\ Locked(r) /\ UNCHANGED token
    BY <1>1, <2>1 DEF Wait
  <2>3. Rates'
    BY <1>1, RatesStep DEF Wait, IInv
  <2>. QED  BY <1>a, <1>c, <2>2, <2>3
<1>2. CASE WaitCanceled(c)
  <2>. DEFINE r == Onward(Missed(call[c]))
  <2>1. Sound(r) /\ r.at # "asking"
    BY <1>0, <1>d, MissedShape
  <2>2. S(r) /\ Locked(r) /\ UNCHANGED <<token, rate>>
    BY <1>2, <2>1 DEF WaitCanceled, Over
  <2>. QED  BY <1>a, <1>b, <1>c, <2>2
<1>3. CASE TakeToken(c)
  <2>. DEFINE r == [call[c] EXCEPT !.at = "sent", !.age = token.age]
  <2>1. token.age \in Nat /\ token.age < TokenLife - 1
    BY <1>3, ClientAssumption DEF IInv, Token, TakeToken
  <2>2. Sound(r) /\ r.at = "sent"
    BY <1>0, <2>1, SoundMoves, ZenonT(60)
  <2>3. S(r) /\ Locked(r) /\ UNCHANGED <<token, rate>>
    BY <1>3, <2>2 DEF TakeToken
  <2>. QED  BY <1>a, <1>b, <1>c, <2>3
<1>4. CASE AskToken(c)
  <2>. DEFINE r == [call[c] EXCEPT !.at = "asking"]
  <2>0. \A a : a # "sent" => Sound([call[c] EXCEPT !.at = a]) /\ [call[c] EXCEPT !.at = a].at = a
    BY <1>0, SoundMoves
  <2>1. Sound(r) /\ r.at = "asking"
    BY <2>0
  <2>2. S(r) /\ Locked(r) /\ UNCHANGED <<token, rate>>
    BY <1>4, <2>1 DEF AskToken
  <2>. QED  BY <1>a, <1>b, <1>c, <2>2
<1>5. CASE TokenBack(c)
  <2>. DEFINE r == [call[c] EXCEPT !.at = "sent", !.age = call[c].since, !.since = 0]
  <2>1. call[c].since \in 0 .. 1 /\ call[c].since \in Nat /\ call[c].since < TokenLife - 1
    BY <1>0, ClientAssumption DEF Sound
  <2>2. Sound(r) /\ r.at = "sent"
    BY <1>0, <2>1, SoundMoves, ZenonT(60)
  <2>3. S(r) /\ Locked(r) /\ UNCHANGED rate
    BY <1>5, <2>2 DEF TokenBack
  <2>4. token' = [age |-> call[c].since, left |-> TokenLife - TokenMargin]
    BY <1>5 DEF TokenBack, Cached
  <2>5. Token'
    BY <2>1, <2>4, ClientAssumption DEF Token
  <2>. QED  BY <1>a, <1>b, <2>3, <2>5
<1>6. CASE TokenRefused(c)
  <2>. DEFINE r == Onward(Missed(call[c]))
  <2>1. Sound(r) /\ r.at # "asking"
    BY <1>0, <1>d, MissedShape
  <2>2. S(r) /\ Locked(r) /\ UNCHANGED <<token, rate>>
    BY <1>6, <2>1 DEF TokenRefused, Over, Unlocked
  <2>. QED  BY <1>a, <1>b, <1>c, <2>2
<1>7. CASE Answered(c)
  <2>. DEFINE r == Onward(Taken(call[c]))
  <2>1. Sound(r) /\ r.at # "asking"
    BY <1>0, <1>d, TakenShape
  <2>2. S(r) /\ Locked(r) /\ UNCHANGED <<token, rate>>
    BY <1>7, <2>1 DEF Answered, Over
  <2>. QED  BY <1>a, <1>b, <1>c, <2>2
<1>8. CASE Throttled(c) \/ Broken(c)
  <2>. DEFINE r == Onward(Missed(call[c]))
  <2>1. Sound(r) /\ r.at # "asking"
    BY <1>0, <1>d, MissedShape
  <2>2. S(r) /\ Locked(r) /\ UNCHANGED token
    BY <1>8, <2>1 DEF Throttled, Broken, Over
  <2>3. Rates'
    BY <1>8, RatesStep DEF Throttled, Broken, IInv
  <2>. QED  BY <1>a, <1>c, <2>2, <2>3
<1>. QED  BY <1>1, <1>2, <1>3, <1>4, <1>5, <1>6, <1>7, <1>8 DEF ClientStep
-----------------------------------------------------------------------------
(* The steps of the jobs and the clock.                                    *)

\* Nothing has been asked for yet.
LEMMA InitIInv == Init => IInv
<1>. SUFFICES ASSUME Init PROVE IInv
  OBVIOUS
<1>. USE DEF Init, ClientInit
<1>1. Calls
  BY CalledSound DEF Calls
<1>2. Token
  BY ClientAssumption DEF Token, NoToken
<1>3. Rates
  BY ClientAssumption DEF Rates
<1>4. Lock
  BY CalledSound DEF Lock
<1>5. Jobs
  <2>1. ASSUME NEW f PROVE LET l == [at |-> "idle", path |-> "none", items |-> <<>>, pairs |-> <<>>, whole |-> f,
                                     todo |-> <<>>, sent |-> {}, tries |-> 0] IN ListShape(l)
    BY DEF ListShape
  <2>2. ListShape(NoList)
    BY <2>1, Zenon DEF NoList
  <2>. QED  BY <2>2, CalledSound DEF Jobs
<1>. QED  BY <1>1, <1>2, <1>3, <1>4, <1>5 DEF IInv

\* A job that begins or ends a call, none of which asks for a token.
LEMMA JobCalls ==
    ASSUME IInv, NEW c \in Callers, NEW r, NEW l, UNCHANGED <<rate, token, holder>>,
           call' = [call EXCEPT ![c] = r], list' = [list EXCEPT ![c] = l],
           Sound(r), ListShape(l), call[c].at # "asking", r.at # "asking",
           l.at \notin {"lookup", "probing"} => r.at = "idle"
    PROVE  IInv'
<1>1. Calls' /\ call'[c] = r /\ \A d \in Callers \ {c} : call'[d] = call[d]
  BY CallsKept DEF IInv
<1>2. Lock'
  BY LockKept DEF IInv
<1>3. Jobs'
  BY <1>1 DEF IInv, Jobs
<1>4. Rates' /\ Token'
  BY DEF IInv, Rates, Token
<1>. QED  BY <1>1, <1>2, <1>3, <1>4 DEF IInv

\* A job that neither waits for a call nor begins one.
LEMMA JobAlone ==
    ASSUME IInv, NEW c \in Callers, NEW l, UNCHANGED <<rate, token, holder, call>>,
           list' = [list EXCEPT ![c] = l], ListShape(l),
           list[c].at \notin {"lookup", "probing"}
    PROVE  IInv'
<1>1. Calls' /\ Rates' /\ Token' /\ Lock'
  BY DEF IInv, Calls, Rates, Token, Lock
<1>2. Jobs'
  BY DEF IInv, Jobs
<1>. QED  BY <1>1, <1>2 DEF IInv

\* The fields of a job may be changed one by one.
LEMMA ListMoves ==
    ASSUME NEW l, ListShape(l)
    PROVE  /\ \A a : ListShape([l EXCEPT !.at = a]) /\ [l EXCEPT !.at = a].at = a
           /\ \A a, p : /\ ListShape([l EXCEPT !.at = a, !.path = p])
                         /\ [l EXCEPT !.at = a, !.path = p].at = a
           /\ \A p, w, n, a : ListShape([l EXCEPT !.pairs = p, !.whole = w, !.tries = n, !.at = a])
           /\ \A a, t, n : ListShape([l EXCEPT !.at = a, !.todo = t, !.tries = n])
           /\ \A a, n : /\ ListShape([l EXCEPT !.tries = n, !.at = a])
                         /\ [l EXCEPT !.tries = n, !.at = a].at = a
           /\ \A t : /\ ListShape([l EXCEPT !.todo = t]) /\ [l EXCEPT !.todo = t].sent = l.sent
                      /\ \A s : ListShape([[l EXCEPT !.todo = t] EXCEPT !.sent = s])
<1>1. ASSUME NEW a PROVE ListShape([l EXCEPT !.at = a]) /\ [l EXCEPT !.at = a].at = a
  BY DEF ListShape
<1>2. ASSUME NEW a, NEW p
      PROVE ListShape([l EXCEPT !.at = a, !.path = p]) /\ [l EXCEPT !.at = a, !.path = p].at = a
  BY DEF ListShape
<1>3. ASSUME NEW p, NEW w, NEW n, NEW a
      PROVE ListShape([l EXCEPT !.pairs = p, !.whole = w, !.tries = n, !.at = a])
  BY DEF ListShape
<1>4. ASSUME NEW a, NEW t, NEW n PROVE ListShape([l EXCEPT !.at = a, !.todo = t, !.tries = n])
  BY DEF ListShape
<1>5. ASSUME NEW a, NEW n
      PROVE ListShape([l EXCEPT !.tries = n, !.at = a]) /\ [l EXCEPT !.tries = n, !.at = a].at = a
  BY DEF ListShape
<1>6. ASSUME NEW t PROVE ListShape([l EXCEPT !.todo = t]) /\ [l EXCEPT !.todo = t].sent = l.sent
  BY DEF ListShape
<1>7. ASSUME NEW t, NEW s PROVE ListShape([[l EXCEPT !.todo = t] EXCEPT !.sent = s])
  BY DEF ListShape
<1>. QED  BY <1>1, <1>2, <1>3, <1>4, <1>5, <1>6, <1>7, Zenon

\* One step of one job.
LEMMA ListKept ==
    ASSUME IInv, NEW c \in Callers, ListStep(c)
    PROVE  IInv'
<1>0. /\ ListShape(list[c]) /\ Sound(call[c]) /\ list = [d \in Callers |-> list[d]]
      /\ list[c].at \notin {"lookup", "probing"} => call[c].at = "idle"
  BY DEF IInv, Jobs, Calls
<1>1. CASE Upload(c)
  <2>1. PICK items \in Uploads, path \in Paths[c] \ {"probe"} :
           /\ call' = [call EXCEPT ![c] =
                          LookupByIdentifier([i \in DOMAIN items |-> IdOf(items[i])], IdType(items))]
           /\ list' = [list EXCEPT ![c] = [NoList EXCEPT !.at = "lookup", !.path = path, !.items = items]]
    BY <1>1, Zenon DEF Upload
  <2>. DEFINE r == LookupByIdentifier([i \in DOMAIN items |-> IdOf(items[i])], IdType(items))
              l == [NoList EXCEPT !.at = "lookup", !.path = path, !.items = items]
  <2>2. Sound(r) /\ r.at = "limit"
    BY LookupSound, Zenon
  <2>3. ListShape(l) /\ l.at = "lookup"
    <3>. DEFINE L(f) == [at |-> "idle", path |-> "none", items |-> <<>>, pairs |-> <<>>, whole |-> f,
                         todo |-> <<>>, sent |-> {}, tries |-> 0]
    <3>1. ASSUME NEW f PROVE /\ ListShape([L(f) EXCEPT !.at = "lookup", !.path = path, !.items = items])
                             /\ [L(f) EXCEPT !.at = "lookup", !.path = path, !.items = items].at = "lookup"
      BY DEF ListShape
    <3>2. NoList = L(TRUE)
      BY Zenon DEF NoList
    <3>. HIDE DEF L
    <3>. QED  BY <3>1, <3>2, Zenon
  <2>4. call[c].at = "idle" /\ UNCHANGED <<rate, token, holder>>
    BY <1>0, <1>1 DEF Upload
  <2>. HIDE DEF r, l
  <2>5. call' = [call EXCEPT ![c] = r] /\ list' = [list EXCEPT ![c] = l]
    BY <2>1 DEF r, l
  <2>. QED  BY <2>2, <2>3, <2>4, <2>5, JobCalls
<1>2. CASE Probe(c)
  <2>1. PICK probe \in Probes : call' = [call EXCEPT ![c] = probe]
    BY <1>2 DEF Probe
  <2>2. Sound(probe) /\ probe.at = "limit"
    BY CalledSound, ListAssumption
  <2>. DEFINE l == [list[c] EXCEPT !.at = "probing", !.path = "probe"]
  <2>3. ListShape(l) /\ l.at = "probing"
    <3>1. \A a, p : /\ ListShape([list[c] EXCEPT !.at = a, !.path = p])
                    /\ [list[c] EXCEPT !.at = a, !.path = p].at = a
      BY <1>0, ListMoves
    <3>. QED  BY <3>1, Zenon
  <2>4. call[c].at = "idle" /\ UNCHANGED <<rate, token, holder>> /\ list' = [list EXCEPT ![c] = l]
    BY <1>0, <1>2 DEF Probe
  <2>. QED  BY <2>1, <2>2, <2>3, <2>4, JobCalls
<1>3. CASE Probed(c)
  <2>. DEFINE l == [list[c] EXCEPT !.at = "done"]
  <2>1. ListShape(l)
    BY <1>0, ListMoves
  <2>2. /\ call' = [call EXCEPT ![c] = NoCall] /\ list' = [list EXCEPT ![c] = l]
        /\ call[c].at = "back" /\ UNCHANGED <<rate, token, holder>>
    BY <1>3 DEF Probed, Finish
  <2>. QED  BY <2>1, <2>2, CalledSound, JobCalls
<1>4. CASE Match(c)
  <2>. DEFINE found == IF list[c].path = "scan" THEN AtMost(Len(list[c].items), call[c].found) ELSE call[c].found
              pairs == IF list[c].path = "funnel" THEN PairedWithFirst(list[c].items, found)
                       ELSE Paired(list[c].items, found)
              next == CASE list[c].path = "scan" -> "done"
                        [] list[c].path = "agents" /\ pairs = <<>> -> "close"
                        [] OTHER -> "funnel"
              l == [list[c] EXCEPT !.pairs = pairs, !.whole = call[c].whole, !.tries = 0, !.at = next]
  <2>1. ListShape(l)
    BY <1>0, ListMoves, ZenonT(40)
  <2>2. /\ call' = [call EXCEPT ![c] = NoCall] /\ list' = [list EXCEPT ![c] = l]
        /\ call[c].at = "back" /\ UNCHANGED <<rate, token, holder>>
    BY <1>0, <1>4 DEF Match
  <2>. QED  BY <2>1, <2>2, CalledSound, JobCalls
<1>. DEFINE A == IF list[c].tries + 1 = Attempts THEN "fail" ELSE list[c].at
             again == [list[c] EXCEPT !.tries = list[c].tries + 1, !.at = A]
<1>b. ListShape(again) /\ again.at = A
  <2>1. \A a, n : /\ ListShape([list[c] EXCEPT !.tries = n, !.at = a])
                  /\ [list[c] EXCEPT !.tries = n, !.at = a].at = a
    BY <1>0, ListMoves
  <2>. QED  BY <2>1, Zenon
<1>c. Retried(c) = [list EXCEPT ![c] = again]
  BY <1>0, Zenon DEF Retried
<1>d. Retried(c)[c].at = A
  BY <1>0, <1>b, <1>c
<1>5. CASE MatchLost(c)
  <2>. DEFINE items == list[c].items
              lookup == LookupByIdentifier([i \in DOMAIN items |-> IdOf(items[i])], IdType(items))
              r == IF A = "fail" THEN NoCall ELSE lookup
  <2>1. Sound(lookup) /\ lookup.at = "limit"
    BY LookupSound, Zenon
  <2>2. call' = [call EXCEPT ![c] = r]
    BY <1>5, <1>d DEF MatchLost
  <2>3. /\ list' = [list EXCEPT ![c] = again] /\ list[c].at = "lookup" /\ call[c].at = "back"
        /\ UNCHANGED <<rate, token, holder>>
    BY <1>5, <1>c DEF MatchLost
  <2>. HIDE DEF lookup, again
  <2>4. Sound(r) /\ r.at \in {"idle", "limit"} /\ (A = "fail" => r.at = "idle")
    BY <2>1, CalledSound
  <2>. QED  BY <1>b, <2>2, <2>3, <2>4, JobCalls
<1>6. CASE RunFunnel(c)
  <2>. DEFINE T == ToSend(Surviving(c))
              next == IF Surviving(c) = <<>> THEN "close" ELSE "config"
  <2>1. ListShape([list[c] EXCEPT !.at = next, !.todo = T, !.tries = 0])
    BY <1>0, ListMoves
  <2>2. ListShape([list[c] EXCEPT !.at = "done"])
    BY <1>0, ListMoves
  <2>3. /\ UNCHANGED <<rate, token, holder, call>> /\ list[c].at = "funnel"
        /\ \/ list' = [list EXCEPT ![c] = [list[c] EXCEPT !.at = next, !.todo = T, !.tries = 0]]
           \/ list' = [list EXCEPT ![c] = [list[c] EXCEPT !.at = "done"]]
    BY <1>0, <1>6 DEF RunFunnel, Finish, clientVars
  <2>. HIDE DEF T, next
  <2>. QED  BY <2>1, <2>2, <2>3, JobAlone
<1>7. CASE FunnelLost(c)
  <2>1. /\ UNCHANGED <<rate, token, holder, call>> /\ list[c].at = "funnel"
        /\ list' = [list EXCEPT ![c] = again]
    BY <1>7, <1>c DEF FunnelLost
  <2>. QED  BY <1>b, <2>1, JobAlone
<1>8. CASE Configure(c)
  <2>1. ListShape([list[c] EXCEPT !.at = "send"])
    BY <1>0, ListMoves
  <2>2. /\ UNCHANGED <<rate, token, holder, call>> /\ list[c].at = "config"
        /\ \/ list' = [list EXCEPT ![c] = again]
           \/ list' = [list EXCEPT ![c] = [list[c] EXCEPT !.at = "send"]]
    BY <1>8, <1>c DEF Configure, Finish
  <2>. QED  BY <1>b, <2>1, <2>2, JobAlone
<1>9. CASE Dispatch(c)
  <2>. DEFINE S == list[c].sent \cup {Head(list[c].todo).asin}
              shorter == [list[c] EXCEPT !.todo = Tail(list[c].todo)]
  <2>1. ListShape(shorter) /\ ListShape([shorter EXCEPT !.sent = S]) /\ shorter.sent = list[c].sent
    BY <1>0, ListMoves DEF ListShape
  <2>2. /\ UNCHANGED <<rate, token, holder, call>> /\ list[c].at = "send"
        /\ \/ list' = [list EXCEPT ![c] = shorter]
           \/ list' = [list EXCEPT ![c] = [shorter EXCEPT !.sent = S]]
    BY <1>0, <1>9, <2>1 DEF Dispatch
  <2>. HIDE DEF shorter, S
  <2>. QED  BY <2>1, <2>2, JobAlone
<1>10. CASE Waited(c) \/ CompleteCampaign(c) \/ MarkFailed(c)
  <2>1. ListShape([list[c] EXCEPT !.at = "close"]) /\ ListShape([list[c] EXCEPT !.at = "done"])
    BY <1>0, ListMoves
  <2>2. /\ UNCHANGED <<rate, token, holder, call>> /\ list[c].at \in {"send", "close", "fail"}
        /\ \/ list' = [list EXCEPT ![c] = [list[c] EXCEPT !.at = "close"]]
           \/ list' = [list EXCEPT ![c] = [list[c] EXCEPT !.at = "done"]]
    BY <1>10 DEF Waited, CompleteCampaign, MarkFailed, Finish, clientVars
  <2>. QED  BY <2>1, <2>2, JobAlone
<1>. QED  BY <1>1, <1>2, <1>3, <1>4, <1>5, <1>6, <1>7, <1>8, <1>9, <1>10 DEF ListStep

\* Half a minute.
LEMMA ClockKept == ASSUME IInv, Tick, UNCHANGED listVars PROVE IInv'
<1>. DEFINE Next_(c) == IF c \in OnTheWire THEN [call[c] EXCEPT !.since = 1] ELSE call[c]
<1>1. ASSUME NEW c \in Callers PROVE Sound(Next_(c)) /\ Next_(c).at = call[c].at
  <2>1. Sound(call[c])
    BY DEF IInv, Calls
  <2>2. Sound([call[c] EXCEPT !.since = 1]) /\ [call[c] EXCEPT !.since = 1].at = call[c].at
    BY <2>1, SoundMoves
  <2>. QED  BY <2>1, <2>2
<1>2. call' = [c \in Callers |-> Next_(c)] /\ UNCHANGED <<rate, holder, list>>
  BY DEF Tick, listVars
<1>. HIDE DEF Next_
<1>3. Calls' /\ \A c \in Callers : call'[c].at = call[c].at
  BY <1>1, <1>2 DEF Calls
<1>4. Lock' /\ Jobs' /\ Rates'
  BY <1>2, <1>3 DEF IInv, Lock, Jobs, Rates
<1>5. Token'
  BY ClientAssumption DEF IInv, Token, Tick, NoToken
<1>. QED  BY <1>3, <1>4, <1>5 DEF IInv

\* Every step of the specification.
LEMMA NextIInv == IInv /\ [Next]_vars => IInv'
<1>. SUFFICES ASSUME IInv, [Next]_vars PROVE IInv'
  OBVIOUS
<1>1. CASE \E c \in Callers : ListStep(c)
  BY <1>1, ListKept
<1>2. CASE \E c \in Callers : ClientRuns(c)
  BY <1>2, ClientKept DEF ClientRuns
<1>3. CASE TimePasses
  BY <1>3, ClockKept DEF TimePasses
<1>4. CASE StartCampaign \/ UNCHANGED vars
  <2>1. UNCHANGED <<rate, token, holder, call, list>>
    BY <1>4 DEF StartCampaign, vars, clientVars, listVars
  <2>. QED  BY <2>1 DEF IInv, Calls, Token, Rates, Lock, Jobs
<1>. QED  BY <1>1, <1>2, <1>3, <1>4 DEF Next
-----------------------------------------------------------------------------
(* Sequences.                                                              *)

\* Induction, for a set of numbers: the least number outside it does not exist.
LEMMA AllNumbers ==
    ASSUME NEW T, NEW n \in Nat, 0 \in T, \A k \in 0 .. n : k < n /\ k \in T => k + 1 \in T
    PROVE  \A k \in 0 .. n : k \in T
<1>. DEFINE D == {k \in 0 .. n : k \notin T}
<1>. SUFFICES ASSUME D # {} PROVE FALSE
  OBVIOUS
<1>1. PICK k \in D : \A j \in D : ~(<<j, k>> \in OpToRel(<, Nat))
  <2>1. D \subseteq Nat
    OBVIOUS
  <2>. QED  BY <2>1, NatLessThanWellFounded, WFMin
<1>2. k # 0 /\ k \in 1 .. n /\ k - 1 \in 0 .. n /\ k - 1 < n /\ k - 1 + 1 = k
  OBVIOUS
<1>3. k - 1 \notin D
  <2>1. k - 1 \in D => <<k - 1, k>> \in OpToRel(<, Nat)
    BY <1>2 DEF OpToRel
  <2>. QED  BY <1>1, <2>1
<1>. QED  BY <1>2, <1>3

\* There is a function that begins with a and goes on by H.
Moves(S, n) == [1 .. n -> [S -> S]]
Goes(f, S, a, n, H) == f \in [0 .. n -> S] /\ f[0] = a /\ \A k \in 1 .. n : f[k] = H[k][f[k - 1]]

LEMMA Recursion ==
    ASSUME NEW S, NEW a \in S, NEW n \in Nat, NEW H \in Moves(S, n)
    PROVE  \E f : Goes(f, S, a, n, H)
<1>. USE DEF Moves, Goes
<1>. DEFINE Upto(m, f) == f \in [0 .. m -> S] /\ f[0] = a /\ \A k \in 1 .. m : f[k] = H[k][f[k - 1]]
            T == {m \in 0 .. n : \E f : Upto(m, f)}
<1>1. 0 \in T
  <2>1. Upto(0, [k \in 0 .. 0 |-> a])
    OBVIOUS
  <2>. HIDE DEF Upto
  <2>. QED  BY <2>1
<1>2. ASSUME NEW m \in 0 .. n, m < n, m \in T
      PROVE  m + 1 \in T
  <2>1. PICK f : Upto(m, f)
    BY <1>2
  <2>2. m \in Nat /\ m + 1 \in 1 .. n /\ m + 1 \in 0 .. n /\ f[m] \in S /\ H[m + 1][f[m]] \in S
    BY <1>2, <2>1
  <2>. DEFINE b == H[m + 1][f[m]]
              g == [k \in 0 .. m + 1 |-> IF k <= m THEN f[k] ELSE b]
  <2>3. b \in S
    BY <2>2
  <2>4. /\ g \in [0 .. m + 1 -> S] /\ g[0] = a /\ g[m + 1] = b /\ g[m] = f[m]
        /\ \A k \in 1 .. m : g[k] = f[k] /\ g[k - 1] = f[k - 1]
    <3>. HIDE DEF b
    <3>. QED  BY <2>1, <2>2, <2>3
  <2>5. ASSUME NEW k \in 1 .. m + 1 PROVE g[k] = H[k][g[k - 1]]
    <3>. HIDE DEF g
    <3>1. CASE k = m + 1
      BY <2>2, <2>4, <3>1
    <3>2. CASE k # m + 1
      BY <2>1, <2>2, <2>4, <3>2
    <3>. QED  BY <3>1, <3>2
  <2>6. Upto(m + 1, g)
    <3>. HIDE DEF g
    <3>. QED  BY <2>4, <2>5
  <2>. HIDE DEF Upto
  <2>. QED  BY <2>2, <2>6
<1>3. n \in T
  <2>. HIDE DEF T
  <2>1. \A m \in 0 .. n : m \in T
    BY <1>1, <1>2, AllNumbers
  <2>. QED  BY <2>1
<1>. QED  BY <1>3

\* What is selected comes from the sequence and is in the set.
LEMMA SelectedMembers ==
    ASSUME NEW S, NEW s \in Seq(S), NEW G
    PROVE  Selected(s, G) \in Seq(S) /\ ToSet(Selected(s, G)) \subseteq ToSet(s) \cap G
<1>. DEFINE L == Len(s)
            Good == {q \in Seq(S) : ToSet(q) \subseteq ToSet(s) \cap G}
            H == [n \in 1 .. L |-> [q \in Good |-> IF s[n] \in G THEN Append(q, s[n]) ELSE q]]
            One(f, n) == IF n = 0 THEN <<>>
                         ELSE IF s[n] \in G THEN Append(f[n - 1], s[n]) ELSE f[n - 1]
<1>1. L \in Nat /\ <<>> \in Good
  BY DEF ToSet
<1>2. ASSUME NEW n \in 1 .. L, NEW q \in Good
      PROVE  (IF s[n] \in G THEN Append(q, s[n]) ELSE q) \in Good
  <2>1. q \in Seq(S) /\ ToSet(q) \subseteq ToSet(s) \cap G /\ s[n] \in S /\ s[n] \in ToSet(s)
    BY DEF ToSet
  <2>2. ToSet(Append(q, s[n])) \subseteq ToSet(q) \cup {s[n]} /\ Append(q, s[n]) \in Seq(S)
    BY <2>1 DEF ToSet
  <2>. QED  BY <2>1, <2>2
<1>. HIDE DEF Good
<1>3. H \in [1 .. L -> [Good -> Good]]
  BY <1>2
<1>4. \A n \in 1 .. L, q \in Good : H[n][q] = IF s[n] \in G THEN Append(q, s[n]) ELSE q
  OBVIOUS
<1>. HIDE DEF H, L
<1>e. PICK f : Goes(f, Good, <<>>, L, H)
  <2>1. L \in Nat /\ <<>> \in Good /\ H \in Moves(Good, L)
    BY <1>1, <1>3 DEF Moves
  <2>. QED  BY <2>1, Recursion
<1>5. f \in [0 .. L -> Good] /\ f[0] = <<>> /\ \A n \in 1 .. L : f[n] = H[n][f[n - 1]]
  BY <1>e DEF Goes
<1>6. \A n \in 0 .. L : f[n] = One(f, n)
  <2>1. \A n \in 1 .. L : n - 1 \in 0 .. L /\ n # 0
    BY <1>1
  <2>2. \A n \in 1 .. L : f[n] = One(f, n)
    BY <1>4, <1>5, <2>1
  <2>3. \A n \in 0 .. L : n = 0 \/ n \in 1 .. L
    BY <1>1
  <2>. QED  BY <1>5, <2>2, <2>3
<1>. DEFINE chosen == CHOOSE g : g = [n \in 0 .. L |-> One(g, n)]
<1>7. chosen = [n \in 0 .. L |-> One(chosen, n)]
  BY <1>5, <1>6
<1>8. Selected(s, G) = chosen[L]
  BY Zenon DEF Selected, L
<1>. DEFINE T == {n \in 0 .. L : chosen[n] = f[n]}
<1>. HIDE DEF chosen
<1>9. 0 \in T
  BY <1>1, <1>5, <1>7
<1>10. ASSUME NEW n \in 0 .. L, n < L, n \in T
       PROVE  n + 1 \in T
  <2>1. n + 1 \in 0 .. L /\ n + 1 # 0 /\ (n + 1) - 1 = n /\ chosen[n] = f[n]
    BY <1>1, <1>10
  <2>2. chosen[n + 1] = One(chosen, n + 1) /\ f[n + 1] = One(f, n + 1)
    <3>. HIDE DEF One
    <3>. QED  BY <1>6, <1>7, <2>1
  <2>. QED  BY <2>1, <2>2
<1>11. chosen[L] \in Good
  <2>. HIDE DEF T
  <2>1. \A n \in 0 .. L : n \in T
    BY <1>1, <1>9, <1>10, AllNumbers
  <2>2. L \in T /\ f[L] \in Good
    BY <1>1, <1>5, <2>1
  <2>. QED  BY <2>2 DEF T
<1>. QED  BY <1>8, <1>11 DEF Good

LEMMA Joined ==
    ASSUME NEW S, NEW p \in Seq(S), NEW q \in Seq(S)
    PROVE  /\ p \o q \in Seq(S) /\ Len(p \o q) = Len(p) + Len(q)
           /\ \A i \in 1 .. Len(p) + Len(q) : (p \o q)[i] = IF i <= Len(p) THEN p[i] ELSE q[i - Len(p)]
OBVIOUS

\* One sequence after the other; of singletons it has one element of each.
LEMMA FlattenMeans ==
    ASSUME NEW S, NEW seqs \in Seq(Seq(S))
    PROVE  /\ FlattenSeq(seqs) \in Seq(S)
           /\ (\A i \in 1 .. Len(seqs) : Len(seqs[i]) = 1) =>
                 /\ Len(FlattenSeq(seqs)) = Len(seqs)
                 /\ \A i \in 1 .. Len(seqs) : seqs[i] = <<FlattenSeq(seqs)[i]>>
<1>. DEFINE L == Len(seqs)
            Single == \A i \in 1 .. L : Len(seqs[i]) = 1
            H == [n \in 1 .. L |-> [q \in Seq(S) |-> q \o seqs[n]]]
            One(f, n) == IF n = 1 THEN seqs[n] ELSE f[n - 1] \o seqs[n]
<1>1. L \in Nat /\ <<>> \in Seq(S) /\ \A n \in 1 .. L : seqs[n] \in Seq(S)
  OBVIOUS
<1>2. CASE L = 0
  <2>1. FlattenSeq(seqs) = seqs /\ seqs = <<>>
    BY <1>2 DEF FlattenSeq
  <2>. QED  BY <1>1, <1>2, <2>1
<1>3. CASE L # 0
  <2>1. H \in [1 .. L -> [Seq(S) -> Seq(S)]]
    BY <1>1
  <2>2. \A n \in 1 .. L, q \in Seq(S) : H[n][q] = q \o seqs[n]
    OBVIOUS
  <2>. HIDE DEF H, L
  <2>e. PICK f : Goes(f, Seq(S), <<>>, L, H)
    <3>1. L \in Nat /\ <<>> \in Seq(S) /\ H \in Moves(Seq(S), L)
      BY <1>1, <2>1 DEF Moves
    <3>. QED  BY <3>1, Recursion
  <2>3. f \in [0 .. L -> Seq(S)] /\ f[0] = <<>> /\ \A n \in 1 .. L : f[n] = H[n][f[n - 1]]
    BY <2>e DEF Goes
  <2>4. ASSUME NEW n \in 1 .. L
        PROVE  n - 1 \in 0 .. L /\ f[n - 1] \in Seq(S) /\ f[n] = f[n - 1] \o seqs[n]
    <3>1. n - 1 \in 0 .. L
      BY <1>1
    <3>2. f[n - 1] \in Seq(S)
      BY <2>3, <3>1
    <3>3. H[n][f[n - 1]] = f[n - 1] \o seqs[n]
      BY <2>2, <3>2
    <3>. QED  BY <2>3, <3>1, <3>2, <3>3
  <2>5. \A n \in 1 .. L : f[n] = One(f, n)
    <3>1. 1 \in 1 .. L /\ 1 - 1 = 0
      BY <1>1, <1>3
    <3>2. f[1] = <<>> \o seqs[1] /\ seqs[1] \in Seq(S)
      BY <1>1, <2>3, <2>4, <3>1
    <3>3. f[1] = seqs[1]
      BY <3>2
    <3>. QED  BY <2>4, <3>3
  <2>. DEFINE g == [n \in 1 .. L |-> f[n]]
              flatten == CHOOSE h : h = [n \in 1 .. L |-> One(h, n)]
  <2>6. g = [n \in 1 .. L |-> One(g, n)]
    <3>1. \A n \in 1 .. L : n # 1 => n - 1 \in 1 .. L
      BY <1>1
    <3>. QED  BY <2>5, <3>1
  <2>7. flatten = [n \in 1 .. L |-> One(flatten, n)]
    <3>. HIDE DEF g
    <3>. QED  BY <2>6
  <2>8. FlattenSeq(seqs) = flatten[L]
    BY <1>3, Zenon DEF FlattenSeq, L
  <2>. HIDE DEF flatten, g
  <2>. DEFINE T == {n \in 0 .. L : n # 0 => flatten[n] = f[n]}
              U == {n \in 0 .. L : Len(f[n]) = n /\ \A i \in 1 .. n : seqs[i] = <<f[n][i]>>}
  <2>9. L \in T
    <3>1. 0 \in T
      BY <1>1
    <3>2. ASSUME NEW n \in 0 .. L, n < L, n \in T
          PROVE  n + 1 \in T
      <4>1. n + 1 \in 1 .. L /\ n + 1 \in 0 .. L /\ (n + 1) - 1 = n /\ (n = 0 <=> n + 1 = 1)
        BY <1>1, <3>2
      <4>2. flatten[n + 1] = One(flatten, n + 1) /\ f[n + 1] = One(f, n + 1)
        <5>. HIDE DEF One
        <5>. QED  BY <2>5, <2>7, <4>1
      <4>. QED  BY <3>2, <4>1, <4>2
    <3>. HIDE DEF T
    <3>3. \A n \in 0 .. L : n \in T
      BY <1>1, <3>1, <3>2, AllNumbers
    <3>. QED  BY <1>1, <3>3
  <2>10. Single => L \in U
    <3>. SUFFICES ASSUME Single PROVE L \in U
      OBVIOUS
    <3>1. 0 \in U
      BY <1>1, <2>3
    <3>2. ASSUME NEW n \in 0 .. L, n < L, n \in U
          PROVE  n + 1 \in U
      <4>1. /\ n + 1 \in 1 .. L /\ n + 1 \in 0 .. L /\ n \in Nat /\ (n + 1) - 1 = n
            /\ f[n] \in Seq(S) /\ seqs[n + 1] \in Seq(S) /\ Len(seqs[n + 1]) = 1
        BY <1>1, <2>3, <3>2
      <4>. DEFINE p == f[n]
                  q == seqs[n + 1]
      <4>2. f[n + 1] = p \o q
        BY <2>4, <4>1
      <4>3. p \in Seq(S) /\ q \in Seq(S) /\ Len(q) = 1 /\ Len(p) = n /\ \A i \in 1 .. n : seqs[i] = <<p[i]>>
        BY <3>2, <4>1
      <4>. HIDE DEF p, q
      <4>4. Len(p \o q) = n + 1 /\ (p \o q)[n + 1] = q[1] /\ \A i \in 1 .. n : (p \o q)[i] = p[i]
        <5>1. Len(p \o q) = n + 1 /\ \A i \in 1 .. n + 1 : (p \o q)[i] = IF i <= n THEN p[i] ELSE q[i - n]
          <6>1. p \in Seq(S) /\ q \in Seq(S)
            BY <4>3
          <6>2. /\ Len(p \o q) = Len(p) + Len(q)
                /\ \A i \in 1 .. Len(p) + Len(q) : (p \o q)[i] = IF i <= Len(p) THEN p[i] ELSE q[i - Len(p)]
            BY <6>1, Joined
          <6>3. Len(p) = n /\ Len(q) = 1
            BY <4>3
          <6>. QED  BY <6>2, <6>3
        <5>2. n + 1 \in 1 .. n + 1 /\ ~(n + 1 <= n) /\ (n + 1) - n = 1
              /\ \A i \in 1 .. n : i \in 1 .. n + 1 /\ i <= n
          BY <4>1
        <5>. QED  BY <5>1, <5>2
      <4>5. q = <<q[1]>>
        BY <4>3
      <4>6. \A i \in 1 .. n + 1 : i \in 1 .. n \/ i = n + 1
        BY <4>1
      <4>7. \A i \in 1 .. n + 1 : seqs[i] = <<(p \o q)[i]>>
        BY <4>3, <4>4, <4>5, <4>6 DEF q
      <4>. QED  BY <4>1, <4>2, <4>4, <4>7
    <3>. HIDE DEF U
    <3>3. \A n \in 0 .. L : n \in U
      BY <1>1, <3>1, <3>2, AllNumbers
    <3>. QED  BY <1>1, <3>3
  <2>11. flatten[L] = f[L] /\ f[L] \in Seq(S)
    BY <1>1, <1>3, <2>3, <2>9
  <2>12. Single => Len(f[L]) = L /\ \A i \in 1 .. L : seqs[i] = <<f[L][i]>>
    BY <2>10
  <2>. QED  BY <2>8, <2>11, <2>12 DEF L
<1>. QED  BY <1>2, <1>3

\* At most the first n elements.
LEMMA AtMostMeans ==
    ASSUME NEW S, NEW s \in Seq(S), NEW n \in Nat
    PROVE  /\ AtMost(n, s) \in Seq(S)
           /\ Len(AtMost(n, s)) = IF Len(s) > n THEN n ELSE Len(s)
           /\ \A i \in 1 .. Len(AtMost(n, s)) : i \in 1 .. Len(s) /\ AtMost(n, s)[i] = s[i]
<1>1. CASE Len(s) > n
  <2>. DEFINE q == SubSeq(s, 1, n)
  <2>1. q \in Seq(S) /\ Len(q) = n /\ \A i \in 1 .. n : q[i] = s[i]
    BY <1>1
  <2>2. \A i \in 1 .. n : i \in 1 .. Len(s)
    BY <1>1
  <2>. HIDE DEF q
  <2>3. AtMost(n, s) = q
    BY <1>1 DEF AtMost, q
  <2>. QED  BY <1>1, <2>1, <2>2, <2>3
<1>2. CASE ~(Len(s) > n)
  BY <1>2 DEF AtMost
<1>. QED  BY <1>1, <1>2
-----------------------------------------------------------------------------
(* Parsing and looking up.                                                 *)

\* Every item of a parsed sheet has an identifier and a cost.
LEMMA ParsedItems ==
    ASSUME NEW sheet \in Sheets
    PROVE  ParseCSV(sheet) \in Seq(Listed)
<1>. DEFINE upc == DetectColumn(sheet.header, "upc")
            ean == DetectColumn(sheet.header, "ean")
            cost == DetectColumn(sheet.header, "cost")
            rows == sheet.rows
            parsed == [i \in DOMAIN rows |->
                         [upc |-> CellAt(rows[i], upc).id, ean |-> CellAt(rows[i], ean).id,
                          cost |-> ParsePrice(CellAt(rows[i], cost))]]
<1>1. ParseCSV(sheet) = <<>> \/ ParseCSV(sheet) = Selected(parsed, Listed)
  BY Zenon DEF ParseCSV
<1>. HIDE DEF upc, ean, cost
<1>2. ASSUME NEW row \in Seq(Cells), NEW i PROVE CellAt(row, i) \in Cells
  <2>1. Blank \in Cells
    BY DEF Blank, Cells
  <2>2. i \in DOMAIN row => row[i] \in Cells
    OBVIOUS
  <2>. QED  BY <2>1, <2>2 DEF CellAt
<1>3. \A cell \in Cells : cell.id \in Ids \cup {NoId} /\ ParsePrice(cell) \in Nat
  BY DEF Cells, ParsePrice
<1>4. rows \in Seq(Seq(Cells))
  BY ListAssumption
<1>. HIDE DEF rows
<1>5. \A i \in DOMAIN rows : rows[i] \in Seq(Cells)
  BY <1>4
<1>6. \A i \in DOMAIN rows :
         [upc |-> CellAt(rows[i], upc).id, ean |-> CellAt(rows[i], ean).id,
          cost |-> ParsePrice(CellAt(rows[i], cost))] \in Items
  BY <1>2, <1>3, <1>5 DEF Items
<1>7. parsed \in Seq(Items)
  BY <1>4, <1>6, SMTT(40)
<1>. HIDE DEF parsed
<1>8. Selected(parsed, Listed) \in Seq(Items) /\ ToSet(Selected(parsed, Listed)) \subseteq Listed
  BY <1>7, SelectedMembers
<1>9. \A q \in Seq(Items) : ToSet(q) \subseteq Listed => q \in Seq(Listed)
  BY DEF ToSet
<1>10. Selected(parsed, Listed) \in Seq(Listed) /\ <<>> \in Seq(Listed)
  BY <1>8, <1>9
<1>. QED  BY <1>1, <1>10, Zenon

\* What can be asked about an item, and the type it is asked for under.
LEMMA ListedIds ==
    /\ \A item \in Listed : IdOf(item) \in Ids /\ item # NoItem /\ item \in Items
    /\ \A items : IdType(items) \in {"UPC", "EAN"}
    /\ \A id \in Ids, type \in {"UPC", "EAN"} : Listings[id][type] \in Seq(Asins)
<1>1. \A item \in Listed : IdOf(item) \in Ids /\ item # NoItem /\ item \in Items
  BY DEF Listed, Items, IdOf, NoItem
<1>2. \A items : IdType(items) \in {"UPC", "EAN"}
  BY DEF IdType
<1>3. \A id \in Ids, type \in {"UPC", "EAN"} : Listings[id][type] \in Seq(Asins)
  BY ListAssumption
<1>. QED  BY <1>1, <1>2, <1>3

\* The chunks of a list follow each other: when t of them are behind, the first
\* t * ChunkSize identifiers are, and after the last one all.
LEMMA ChunksMean ==
    ASSUME NEW S, NEW ids \in Seq(S), ids # <<>>
    PROVE  /\ Chunks(ids) \in Seq(Seq(S)) /\ Len(Chunks(ids)) > 0
           /\ \A t \in 0 .. Len(Chunks(ids)) - 1 :
                 LET chunk == Chunks(ids)[t + 1]
                     past == t * ChunkSize
                 IN /\ past \in Nat /\ Len(chunk) <= ChunkSize
                    /\ past + Len(chunk) = IF t + 1 = Len(Chunks(ids)) THEN Len(ids) ELSE (t + 1) * ChunkSize
                    /\ \A j \in 1 .. Len(chunk) : past + j \in 1 .. Len(ids) /\ chunk[j] = ids[past + j]
<1>. DEFINE C == ChunkSize
            L == Len(ids)
            n == (L + C - 1) \div C
            chunk(k) == AtMost(C, SubSeq(ids, (k - 1) * C + 1, L))
<1>1. C \in Nat /\ C > 0 /\ L \in Nat /\ L > 0
  BY ClientAssumption
<1>2. Chunks(ids) = [k \in 1 .. n |-> chunk(k)]
  BY Zenon DEF Chunks
<1>. HIDE DEF C, L
<1>3. n \in Nat /\ n * C <= L + C - 1 /\ L + C - 1 < n * C + C
  BY <1>1
<1>. HIDE DEF n
<1>4. n > 0
  <2>1. CASE n = 0
    <3>1. n * C = 0
      BY <1>1, <2>1
    <3>. QED  BY <1>1, <1>3, <3>1
  <2>. QED  BY <1>3, <2>1
\* Before the last chunk there is enough for a whole one.
<1>5. ASSUME NEW t \in 0 .. n - 1
      PROVE  /\ t * C \in Nat /\ t * C < L /\ (t + 1) * C = t * C + C
             /\ t + 1 = n => L <= t * C + C
             /\ t + 1 # n => t * C + C < L
  <2>1. t \in Nat /\ t + 1 <= n
    BY <1>3
  <2>2. t * C \in Nat /\ (t + 1) * C = t * C + C
    BY <1>1, <2>1
  <2>3. (t + 1) * C <= n * C
    BY <1>1, <1>3, <2>1
  <2>4. t + 1 # n => (t + 2) * C <= n * C
    BY <1>1, <1>3, <2>1
  <2>5. (t + 2) * C = t * C + C + C
    BY <1>1, <2>1
  <2>6. n * C \in Nat
    BY <1>1, <1>3
  <2>. HIDE DEF n
  <2>7. t + 1 = n => n * C = t * C + C
    BY <2>2
  <2>. DEFINE x == t * C
              y == n * C
  <2>8. x \in Nat /\ y \in Nat /\ x + C <= y /\ y <= L + C - 1 /\ L + C - 1 < y + C
        /\ (t + 1 # n => x + C + C <= y) /\ (t + 1 = n => y = x + C) /\ (t + 1) * C = x + C
    BY <1>3, <2>2, <2>3, <2>4, <2>5, <2>6, <2>7
  <2>. HIDE DEF x, y
  <2>9. x < L /\ (t + 1 = n => L <= x + C) /\ (t + 1 # n => x + C < L)
    BY <1>1, <2>8
  <2>. QED  BY <2>8, <2>9 DEF x
<1>6. ASSUME NEW t \in 0 .. n - 1
      PROVE  /\ chunk(t + 1) \in Seq(S) /\ Len(chunk(t + 1)) <= C
             /\ t * C + Len(chunk(t + 1)) = IF t + 1 = n THEN L ELSE (t + 1) * C
             /\ \A j \in 1 .. Len(chunk(t + 1)) : t * C + j \in 1 .. L /\ chunk(t + 1)[j] = ids[t * C + j]
  <2>. DEFINE x == t * C
              q == SubSeq(ids, x + 1, L)
  <2>1. (t + 1) - 1 = t
    BY <1>3
  <2>2. chunk(t + 1) = AtMost(C, q)
    BY <2>1
  <2>3. x \in Nat /\ x < L /\ (t + 1) * C = x + C /\ (t + 1 = n => L <= x + C) /\ (t + 1 # n => x + C < L)
    BY <1>5
  <2>. HIDE DEF x
  <2>4. x + 1 \in 1 .. L /\ L \in 1 .. L
    BY <1>1, <2>3
  <2>5. q \in Seq(S) /\ Len(q) = L - x /\ \A j \in 1 .. L - x : q[j] = ids[x + j]
    <3>1. q \in Seq(S) /\ Len(q) = L - (x + 1) + 1
      BY <2>3, <2>4 DEF L
    <3>2. \A j \in 1 .. L - x : q[j] = ids[(x + 1) + j - 1] /\ (x + 1) + j - 1 = x + j
      BY <1>1, <2>3, <2>4 DEF L
    <3>. QED  BY <1>1, <2>3, <3>1, <3>2
  <2>. HIDE DEF q, chunk
  <2>6. /\ AtMost(C, q) \in Seq(S) /\ Len(AtMost(C, q)) = IF Len(q) > C THEN C ELSE Len(q)
        /\ \A j \in 1 .. Len(AtMost(C, q)) : j \in 1 .. Len(q) /\ AtMost(C, q)[j] = q[j]
    BY <1>1, <2>5, AtMostMeans
  <2>7. Len(AtMost(C, q)) <= C /\ x + Len(AtMost(C, q)) = IF t + 1 = n THEN L ELSE x + C
    BY <1>1, <2>3, <2>5, <2>6
  <2>8. \A j \in 1 .. Len(AtMost(C, q)) : x + j \in 1 .. L /\ AtMost(C, q)[j] = ids[x + j]
    BY <1>1, <2>3, <2>5, <2>6
  <2>. QED  BY <2>2, <2>3, <2>6, <2>7, <2>8 DEF x
<1>. HIDE DEF chunk
<1>7. \A k \in 1 .. n : k - 1 \in 0 .. n - 1 /\ (k - 1) + 1 = k
  BY <1>3
<1>8. \A k \in 1 .. n : chunk(k) \in Seq(S)
  BY <1>6, <1>7
<1>9. Chunks(ids) \in Seq(Seq(S)) /\ Len(Chunks(ids)) = n /\ \A k \in 1 .. n : Chunks(ids)[k] = chunk(k)
  BY <1>2, <1>3, <1>8
<1>10. \A t \in 0 .. n - 1 : t + 1 \in 1 .. n /\ Chunks(ids)[t + 1] = chunk(t + 1)
  BY <1>3, <1>9
<1>. QED  BY <1>4, <1>5, <1>6, <1>9, <1>10 DEF C, L
-----------------------------------------------------------------------------
(* A lookup, and what its answers make of it.                             *)

\* The requests of a lookup that are left when t of them have been made.
IdsOf(items) == [i \in DOMAIN items |-> IdOf(items[i])]
ChunksOf(items) == Chunks(IdsOf(items))
RestOf(items, t) == [j \in 1 .. Len(ChunksOf(items)) - t |-> Request("catalog_items", ChunksOf(items)[t + j])]

\* The products found so far are the ones of the first items, in their order.
Begins(items, found) ==
    /\ Len(found) <= Len(items)
    /\ \A i \in 1 .. Len(found) : Listings[IdOf(items[i])][IdType(items)] = <<found[i]>>

\* A lookup has requests left, or is through with them and may ask for prices.
Scanning(items, r, t) ==
    /\ r.todo = RestOf(items, t)
    /\ r.whole /\ OneEach(items) => Begins(items, r.found) /\ Len(r.found) = t * ChunkSize
Scanned(items, r) ==
    /\ r.todo = <<>> \/ \E b : r.todo = <<Request("competitive_pricing", b)>>
    /\ r.whole /\ OneEach(items) => Begins(items, r.found) /\ Len(r.found) = Len(items)

LookingUp(items, r) ==
    /\ items \in Seq(Listed) /\ items # <<>>
    /\ r.type = IdType(items) /\ r.found \in Seq(Asins)
    /\ r.at = "back" <=> r.todo = <<>>
    /\ (\E t \in 0 .. Len(ChunksOf(items)) - 1 : Scanning(items, r, t)) \/ Scanned(items, r)

\* The identifiers of a list can be looked up.
LEMMA ItemsIds ==
    ASSUME NEW items \in Seq(Listed), items # <<>>
    PROVE  /\ IdsOf(items) \in Seq(Ids) /\ IdsOf(items) # <<>> /\ Len(IdsOf(items)) = Len(items)
           /\ \A i \in 1 .. Len(items) : IdsOf(items)[i] = IdOf(items[i])
<1>1. \A i \in DOMAIN items : IdOf(items[i]) \in Ids
  <2>1. \A i \in DOMAIN items : items[i] \in Listed
    OBVIOUS
  <2>. QED  BY <2>1, ListedIds
<1>2. items # <<>> => Len(items) > 0
  OBVIOUS
<1>. QED  BY <1>1, <1>2 DEF IdsOf

LEMMA TailIs ==
    ASSUME NEW S, NEW q \in Seq(S), q # <<>>
    PROVE  Tail(q) = [j \in 1 .. Len(q) - 1 |-> q[j + 1]]
<1>. DEFINE T == Tail(q)
            G == [j \in 1 .. Len(q) - 1 |-> q[j + 1]]
            m == Len(q) - 1
<1>1. T \in Seq(S) /\ Len(T) = m /\ \A j \in 1 .. m : T[j] = q[j + 1]
  OBVIOUS
<1>2. \A j \in 1 .. m : j + 1 \in 1 .. Len(q) /\ q[j + 1] \in S
  OBVIOUS
<1>3. m \in Nat
  OBVIOUS
<1>4. G \in Seq(S) /\ Len(G) = m /\ \A j \in 1 .. m : G[j] = q[j + 1]
  <2>. HIDE DEF m
  <2>1. G = [j \in 1 .. m |-> q[j + 1]]
    BY DEF m
  <2>. QED  BY <1>2, <1>3, <2>1
<1>. HIDE DEF T, G, m
<1>5. T = G
  BY <1>1, <1>3, <1>4
<1>. QED  BY <1>5 DEF T, G

\* Its requests, one after the other.
LEMMA RestMeans ==
    ASSUME NEW items \in Seq(Listed), items # <<>>, NEW t \in 0 .. Len(ChunksOf(items)) - 1
    PROVE  /\ ChunksOf(items)[t + 1] \in Seq(Ids)
           /\ Head(RestOf(items, t)) = Request("catalog_items", ChunksOf(items)[t + 1])
           /\ RestOf(items, t) # <<>>
           /\ t + 1 = Len(ChunksOf(items)) => ~(Len(RestOf(items, t)) > 1)
           /\ t + 1 # Len(ChunksOf(items)) =>
                 /\ Len(RestOf(items, t)) > 1 /\ Tail(RestOf(items, t)) = RestOf(items, t + 1)
                 /\ t + 1 \in 0 .. Len(ChunksOf(items)) - 1
<1>. DEFINE K == ChunksOf(items)
            n == Len(K)
            req == [k \in 1 .. n |-> Request("catalog_items", K[k])]
            Q == {req[k] : k \in 1 .. n}
<1>1. K \in Seq(Seq(Ids)) /\ n \in Nat
  <2>1. K \in Seq(Seq(Ids))
    BY ItemsIds, ChunksMean DEF ChunksOf
  <2>. HIDE DEF K
  <2>. QED  BY <2>1
<1>2. RestOf(items, t) = [j \in 1 .. n - t |-> req[t + j]]
  <2>1. \A j \in 1 .. n - t : t + j \in 1 .. n
    BY <1>1
  <2>. QED  BY <2>1 DEF RestOf
<1>. HIDE DEF K, req
<1>3. \A j \in 1 .. n - t : req[t + j] \in Q
  BY <1>1
<1>4. t \in Nat /\ t < n
  BY <1>1 DEF K
<1>. DEFINE R == [j \in 1 .. n - t |-> req[t + j]]
<1>5. R \in Seq(Q) /\ Len(R) = n - t /\ \A j \in 1 .. n - t : R[j] = req[t + j]
  <2>1. n - t \in Nat
    BY <1>1, <1>4
  <2>. HIDE DEF Q, n
  <2>. QED  BY <1>3, <2>1
<1>. HIDE DEF R, Q
<1>6. Head(R) = req[t + 1] /\ R # <<>>
  BY <1>1, <1>4, <1>5, SMTT(40)
<1>7. req[t + 1] = Request("catalog_items", K[t + 1]) /\ K[t + 1] \in Seq(Ids)
  BY <1>1, <1>4 DEF req
<1>8. ASSUME t + 1 # n
      PROVE  Len(R) > 1 /\ Tail(R) = RestOf(items, t + 1) /\ t + 1 \in 0 .. n - 1
  <2>1. n - t > 1 /\ t + 1 \in 0 .. n - 1 /\ n - (t + 1) = (n - t) - 1 /\ n - t \in Nat
    BY <1>1, <1>4, <1>8
  <2>2. Tail(R) = [j \in 1 .. (n - t) - 1 |-> R[j + 1]]
    BY <1>5, <1>6, TailIs
  <2>3. RestOf(items, t + 1) = [j \in 1 .. n - (t + 1) |-> req[(t + 1) + j]]
    <3>1. \A j \in 1 .. n - (t + 1) : (t + 1) + j \in 1 .. n
      BY <1>1, <1>4
    <3>. QED  BY <3>1 DEF RestOf, req, K
  <2>4. \A j \in 1 .. (n - t) - 1 : R[j + 1] = req[(t + 1) + j]
    <3>1. \A j \in 1 .. (n - t) - 1 : j + 1 \in 1 .. n - t /\ t + (j + 1) = (t + 1) + j
      BY <1>1, <1>4
    <3>. QED  BY <1>5, <3>1
  <2>5. Tail(R) = RestOf(items, t + 1)
    BY <2>1, <2>2, <2>3, <2>4
  <2>. QED  BY <1>5, <2>1, <2>5
<1>9. t + 1 = n => ~(Len(R) > 1)
  BY <1>1, <1>4, <1>5
<1>10. RestOf(items, t) = R
  BY <1>2 DEF R
<1>. QED  BY <1>6, <1>7, <1>8, <1>9, <1>10 DEF K

\* The answer to a chunk has its products in the order of the items, if there is
\* one for each.
LEMMA ItemsMean ==
    ASSUME NEW items \in Seq(Listed), items # <<>>, NEW t \in 0 .. Len(ChunksOf(items)) - 1,
           NEW r, Head(r.todo).about = ChunksOf(items)[t + 1], r.type = IdType(items)
    PROVE  /\ ItemsOf(r) \in Seq(Asins)
           /\ OneEach(items) =>
                 /\ t * ChunkSize \in Nat
                 /\ t * ChunkSize + Len(ItemsOf(r)) =
                       IF t + 1 = Len(ChunksOf(items)) THEN Len(items) ELSE (t + 1) * ChunkSize
                 /\ \A j \in 1 .. Len(ItemsOf(r)) :
                       /\ t * ChunkSize + j \in 1 .. Len(items)
                       /\ Listings[IdOf(items[t * ChunkSize + j])][IdType(items)] = <<ItemsOf(r)[j]>>
<1>. DEFINE chunk == ChunksOf(items)[t + 1]
            past == t * ChunkSize
            n == Len(ChunksOf(items))
            m == Len(chunk)
            seqs == [i \in DOMAIN chunk |-> Listings[chunk[i]][IdType(items)]]
            F == FlattenSeq(seqs)
<1>0. IdsOf(items) \in Seq(Ids) /\ IdsOf(items) # <<>> /\ Len(IdsOf(items)) = Len(items)
      /\ \A i \in 1 .. Len(items) : IdsOf(items)[i] = IdOf(items[i])
  BY ItemsIds
<1>1. /\ past \in Nat /\ m <= ChunkSize
      /\ past + m = IF t + 1 = n THEN Len(items) ELSE (t + 1) * ChunkSize
      /\ \A j \in 1 .. m : past + j \in 1 .. Len(items) /\ chunk[j] = IdsOf(items)[past + j]
  BY <1>0, ChunksMean DEF ChunksOf
<1>2. chunk \in Seq(Ids)
  BY RestMeans
<1>3. ItemsOf(r) = AtMost(ChunkSize, F)
  BY Zenon DEF ItemsOf
<1>. HIDE DEF chunk, past, n
<1>4. ASSUME NEW i \in 1 .. m PROVE Listings[chunk[i]][IdType(items)] \in Seq(Asins)
  <2>1. chunk[i] \in Ids
    BY <1>2
  <2>2. IdType(items) \in {"UPC", "EAN"}
    BY ListedIds
  <2>. QED  BY <2>1, <2>2, ListedIds
<1>5. seqs \in Seq(Seq(Asins)) /\ Len(seqs) = m
      /\ \A i \in 1 .. m : seqs[i] = Listings[chunk[i]][IdType(items)]
  <2>. DEFINE of(i) == Listings[chunk[i]][IdType(items)]
  <2>1. m \in Nat /\ seqs = [i \in 1 .. m |-> of(i)]
    BY <1>2
  <2>2. \A i \in 1 .. m : of(i) \in Seq(Asins)
    BY <1>4
  <2>. HIDE DEF of, m, seqs
  <2>3. seqs \in Seq(Seq(Asins)) /\ Len(seqs) = m /\ \A i \in 1 .. m : seqs[i] = of(i)
    BY <2>1, <2>2
  <2>. QED  BY <2>3 DEF of
<1>. HIDE DEF seqs
<1>6. /\ F \in Seq(Asins)
      /\ (\A i \in 1 .. m : Len(seqs[i]) = 1) => Len(F) = m /\ \A i \in 1 .. m : seqs[i] = <<F[i]>>
  BY <1>5, FlattenMeans
<1>. HIDE DEF F
<1>7. /\ ItemsOf(r) \in Seq(Asins)
      /\ Len(ItemsOf(r)) = IF Len(F) > ChunkSize THEN ChunkSize ELSE Len(F)
      /\ \A i \in 1 .. Len(ItemsOf(r)) : ItemsOf(r)[i] = F[i]
  <2>1. ChunkSize \in Nat
    BY ClientAssumption
  <2>2. /\ AtMost(ChunkSize, F) \in Seq(Asins)
        /\ Len(AtMost(ChunkSize, F)) = IF Len(F) > ChunkSize THEN ChunkSize ELSE Len(F)
        /\ \A i \in 1 .. Len(AtMost(ChunkSize, F)) : AtMost(ChunkSize, F)[i] = F[i]
    BY <1>6, <2>1, AtMostMeans
  <2>. QED  BY <1>3, <2>2
<1>8. ASSUME OneEach(items)
      PROVE  /\ Len(ItemsOf(r)) = m
             /\ \A j \in 1 .. m : past + j \in 1 .. Len(items)
                                  /\ Listings[IdOf(items[past + j])][IdType(items)] = <<ItemsOf(r)[j]>>
  <2>1. \A i \in 1 .. m : seqs[i] = Listings[IdOf(items[past + i])][IdType(items)] /\ past + i \in 1 .. Len(items)
    BY <1>0, <1>1, <1>5
  <2>2. \A i \in 1 .. m : Len(seqs[i]) = 1
    BY <1>8, <2>1 DEF OneEach
  <2>3. Len(F) = m /\ \A i \in 1 .. m : seqs[i] = <<F[i]>>
    BY <1>6, <2>2
  <2>4. Len(ItemsOf(r)) = m
    BY <1>1, <1>2, <1>7, <2>3, ClientAssumption
  <2>. QED  BY <1>7, <2>1, <2>3, <2>4
<1>9. OneEach(items) =>
         /\ past \in Nat
         /\ past + Len(ItemsOf(r)) = IF t + 1 = n THEN Len(items) ELSE (t + 1) * ChunkSize
         /\ \A j \in 1 .. Len(ItemsOf(r)) :
               past + j \in 1 .. Len(items) /\ Listings[IdOf(items[past + j])][IdType(items)] = <<ItemsOf(r)[j]>>
  <2>. HIDE DEF m
  <2>. QED  BY <1>1, <1>8
<1>. QED  BY <1>7, <1>9 DEF past, n

\* What an answer or a failure leaves of the fields a lookup depends on.
LEMMA AnswerFields ==
    ASSUME NEW r, CallShape(r)
    PROVE  /\ CallShape(Missed(r)) /\ Missed(r).todo = r.todo /\ Missed(r).type = r.type
           /\ Missed(r).found = r.found /\ Missed(r).whole = FALSE
           /\ Head(r.todo).ep \in {"catalog_items", "competitive_pricing"} =>
                 /\ CallShape(Taken(r)) /\ Taken(r).todo = r.todo /\ Taken(r).type = r.type
                 /\ Taken(r).whole = r.whole
                 /\ Taken(r).found = IF Head(r.todo).ep = "catalog_items" THEN r.found \o ItemsOf(r) ELSE r.found
<1>1. ASSUME NEW w, NEW e
      PROVE  LET s == [r EXCEPT !.whole = w, !.error = e]
             IN CallShape(s) /\ s.todo = r.todo /\ s.type = r.type /\ s.found = r.found /\ s.whole = w
  BY DEF CallShape
<1>2. ASSUME NEW f
      PROVE  LET s == [r EXCEPT !.found = f]
             IN CallShape(s) /\ s.todo = r.todo /\ s.type = r.type /\ s.found = f /\ s.whole = r.whole
  BY DEF CallShape
<1>3. ASSUME NEW p
      PROVE  LET s == [r EXCEPT !.priced = p]
             IN CallShape(s) /\ s.todo = r.todo /\ s.type = r.type /\ s.found = r.found /\ s.whole = r.whole
  BY DEF CallShape
<1>4. CallShape(Missed(r)) /\ Missed(r).todo = r.todo /\ Missed(r).type = r.type
      /\ Missed(r).found = r.found /\ Missed(r).whole = FALSE
  BY <1>1, Zenon DEF Missed
<1>5. CASE Head(r.todo).ep = "catalog_items"
  <2>1. Taken(r) = [r EXCEPT !.found = r.found \o ItemsOf(r)]
    <3>. DEFINE f == r.found \o ItemsOf(r)
    <3>1. "catalog_items" # "catalog_search"
      OBVIOUS
    <3>. QED  BY <1>5, <3>1 DEF Taken, LookedUp, CallShape
  <2>. DEFINE f == r.found \o ItemsOf(r)
  <2>2. Taken(r) = [r EXCEPT !.found = f]
    BY <2>1
  <2>. HIDE DEF f
  <2>3. CallShape(Taken(r)) /\ Taken(r).todo = r.todo /\ Taken(r).type = r.type
        /\ Taken(r).found = f /\ Taken(r).whole = r.whole
    BY <1>2, <2>2, SMTT(40)
  <2>. QED  BY <1>4, <1>5, <2>3 DEF f
<1>6. CASE Head(r.todo).ep = "competitive_pricing"
  <2>. DEFINE p == r.priced \cup (ToSet(Head(r.todo).about) \ Unpriced)
  <2>1. Taken(r) = [r EXCEPT !.priced = p]
    BY <1>6 DEF Taken, Priced, CallShape
  <2>. HIDE DEF p
  <2>. QED  BY <1>3, <1>4, <1>6, <2>1
<1>. QED  BY <1>4, <1>5, <1>6

\* A call goes on to its next request, which may be the one for prices.
LEMMA OnwardFields ==
    ASSUME NEW r, CallShape(r)
    PROVE  LET s == Onward(r)
           IN /\ s.type = r.type /\ s.found = r.found /\ s.whole = r.whole
              /\ s.at = "back" <=> s.todo = <<>>
              /\ Len(r.todo) > 1 => s.todo = Tail(r.todo)
              /\ ~(Len(r.todo) > 1) => s.todo = <<>> \/ \E b : s.todo = <<Request("competitive_pricing", b)>>
<1>. DEFINE N(t, a) == [r EXCEPT !.todo = t, !.at = a, !.age = 0, !.since = 0]
            rest == IF Len(r.todo) > 1 THEN Tail(r.todo) ELSE Enrichment(r)
            at == IF rest = <<>> THEN "back" ELSE "limit"
<1>1. ASSUME NEW t, NEW a
      PROVE  /\ N(t, a).todo = t /\ N(t, a).at = a
             /\ N(t, a).type = r.type /\ N(t, a).found = r.found /\ N(t, a).whole = r.whole
  BY DEF CallShape
<1>2. Onward(r) = N(rest, at)
  BY Zenon DEF Onward
<1>3. Enrichment(r) = <<>> \/ \E b : Enrichment(r) = <<Request("competitive_pricing", b)>>
  <2>. DEFINE b == SelectSeq(r.found, LAMBDA a : a \notin r.priced)
  <2>1. Enrichment(r) \in {<<>>, <<Request("competitive_pricing", b)>>}
    BY Zenon DEF Enrichment
  <2>. HIDE DEF b
  <2>. QED  BY <2>1
<1>4. /\ Len(r.todo) > 1 => rest = Tail(r.todo)
      /\ ~(Len(r.todo) > 1) => rest = Enrichment(r)
      /\ at = "back" <=> rest = <<>>
  BY Zenon
<1>5. /\ N(rest, at).todo = rest /\ N(rest, at).at = at
      /\ N(rest, at).type = r.type /\ N(rest, at).found = r.found /\ N(rest, at).whole = r.whole
  <2>. HIDE DEF N, rest, at
  <2>. QED  BY <1>1
<1>. DEFINE s == Onward(r)
<1>6. s.todo = rest /\ s.at = at /\ s.type = r.type /\ s.found = r.found /\ s.whole = r.whole
  <2>. HIDE DEF N, rest, at
  <2>. QED  BY <1>2, <1>5
<1>. HIDE DEF s, N, rest, at
<1>7. s.at = "back" <=> s.todo = <<>>
  BY <1>4, <1>6
<1>8. Len(r.todo) > 1 => s.todo = Tail(r.todo)
  BY <1>4, <1>6
<1>9. ~(Len(r.todo) > 1) => s.todo = <<>> \/ \E b : s.todo = <<Request("competitive_pricing", b)>>
  BY <1>3, <1>4, <1>6
<1>. QED  BY <1>6, <1>7, <1>8, <1>9 DEF s

\* Requests that are answered, and requests that fail, bring a lookup on.
LEMMA LookupOn ==
    ASSUME NEW items, NEW r, LookingUp(items, r), CallShape(r), r.at # "back"
    PROVE  LookingUp(items, Onward(Taken(r))) /\ LookingUp(items, Onward(Missed(r)))
<1>. DEFINE n == Len(ChunksOf(items))
            missed == Onward(Missed(r))
            taken == Onward(Taken(r))
            After(s) == IF Len(r.todo) > 1 THEN s.todo = Tail(r.todo)
                        ELSE s.todo = <<>> \/ \E b : s.todo = <<Request("competitive_pricing", b)>>
<1>0. /\ items \in Seq(Listed) /\ items # <<>> /\ r.type = IdType(items) /\ r.found \in Seq(Asins)
      /\ r.todo # <<>>
  BY DEF LookingUp
<1>1. /\ missed.type = r.type /\ missed.found = r.found /\ missed.whole = FALSE
      /\ missed.at = "back" <=> missed.todo = <<>>
      /\ After(missed)
  <2>1. CallShape(Missed(r)) /\ Missed(r).todo = r.todo /\ Missed(r).type = r.type
        /\ Missed(r).found = r.found /\ Missed(r).whole = FALSE
    BY AnswerFields
  <2>. QED  BY <2>1, OnwardFields
<1>2. ASSUME Head(r.todo).ep \in {"catalog_items", "competitive_pricing"}
      PROVE  /\ taken.type = r.type /\ taken.whole = r.whole
             /\ taken.found = IF Head(r.todo).ep = "catalog_items" THEN r.found \o ItemsOf(r) ELSE r.found
             /\ taken.at = "back" <=> taken.todo = <<>>
             /\ After(taken)
  <2>1. CallShape(Taken(r)) /\ Taken(r).todo = r.todo /\ Taken(r).type = r.type /\ Taken(r).whole = r.whole
        /\ Taken(r).found = IF Head(r.todo).ep = "catalog_items" THEN r.found \o ItemsOf(r) ELSE r.found
    BY <1>2, AnswerFields
  <2>. QED  BY <2>1, OnwardFields
<1>. HIDE DEF missed, taken
\* The request for prices was the last one.
<1>3. CASE Scanned(items, r)
  <2>1. PICK b : r.todo = <<Request("competitive_pricing", b)>>
    BY <1>0, <1>3 DEF Scanned
  <2>2. ~(Len(r.todo) > 1) /\ Head(r.todo) = Request("competitive_pricing", b)
    BY <2>1
  <2>3. Head(r.todo).ep = "competitive_pricing"
    BY <2>2 DEF Request
  <2>4. Scanned(items, missed)
    BY <1>1, <2>2 DEF Scanned
  <2>5. taken.type = r.type /\ taken.whole = r.whole /\ taken.found = r.found
        /\ (taken.at = "back" <=> taken.todo = <<>>) /\ After(taken)
    BY <1>2, <2>3
  <2>6. Scanned(items, taken)
    BY <1>3, <2>2, <2>5 DEF Scanned
  <2>7. LookingUp(items, missed)
    BY <1>0, <1>1, <2>4 DEF LookingUp
  <2>8. LookingUp(items, taken)
    BY <1>0, <2>5, <2>6 DEF LookingUp
  <2>. QED  BY <2>7, <2>8 DEF missed, taken
\* A chunk was looked up.
<1>4. ASSUME NEW t \in 0 .. n - 1, Scanning(items, r, t)
      PROVE  LookingUp(items, Onward(Taken(r))) /\ LookingUp(items, Onward(Missed(r)))
  <2>1. r.todo = RestOf(items, t)
    BY <1>4 DEF Scanning
  <2>2. /\ Head(r.todo) = Request("catalog_items", ChunksOf(items)[t + 1])
        /\ t + 1 = n => ~(Len(r.todo) > 1)
        /\ t + 1 # n => Len(r.todo) > 1 /\ Tail(r.todo) = RestOf(items, t + 1) /\ t + 1 \in 0 .. n - 1
    BY <1>0, <2>1, RestMeans
  <2>3. Head(r.todo).ep = "catalog_items" /\ Head(r.todo).about = ChunksOf(items)[t + 1]
    BY <2>2 DEF Request
  <2>. DEFINE more == ItemsOf(r)
              all == r.found \o more
              past == t * ChunkSize
  <2>4. /\ more \in Seq(Asins)
        /\ OneEach(items) =>
              /\ past \in Nat
              /\ past + Len(more) = IF t + 1 = n THEN Len(items) ELSE (t + 1) * ChunkSize
              /\ \A j \in 1 .. Len(more) :
                    past + j \in 1 .. Len(items) /\ Listings[IdOf(items[past + j])][IdType(items)] = <<more[j]>>
    BY <1>0, <2>3, ItemsMean
  <2>5. taken.type = r.type /\ taken.whole = r.whole /\ taken.found = all
        /\ (taken.at = "back" <=> taken.todo = <<>>) /\ After(taken)
    BY <1>2, <2>3
  <2>. HIDE DEF more
  <2>6. all \in Seq(Asins) /\ Len(all) = Len(r.found) + Len(more)
        /\ \A i \in 1 .. Len(all) : all[i] = IF i <= Len(r.found) THEN r.found[i] ELSE more[i - Len(r.found)]
    BY <1>0, <2>4, Joined
  <2>. HIDE DEF all
  <2>7. ASSUME r.whole, OneEach(items)
        PROVE  Begins(items, all) /\ Len(all) = IF t + 1 = n THEN Len(items) ELSE (t + 1) * ChunkSize
    <3>1. Begins(items, r.found) /\ Len(r.found) = past
      BY <1>4, <2>7 DEF Scanning
    <3>. HIDE DEF past
    <3>2. past \in Nat /\ Len(all) = past + Len(more) /\ Len(more) \in Nat /\ Len(items) \in Nat
      BY <1>0, <2>4, <2>6, <2>7, <3>1
    <3>3. ASSUME NEW i \in 1 .. Len(all)
          PROVE  i \in 1 .. Len(items) /\ Listings[IdOf(items[i])][IdType(items)] = <<all[i]>>
      <4>1. CASE i <= past
        <5>1. i \in 1 .. Len(r.found) /\ i <= Len(r.found)
          BY <3>1, <3>2, <4>1
        <5>2. all[i] = r.found[i]
          BY <2>6, <5>1
        <5>3. Len(r.found) <= Len(items) /\ Listings[IdOf(items[i])][IdType(items)] = <<r.found[i]>>
          BY <3>1, <5>1 DEF Begins
        <5>. QED  BY <3>1, <3>2, <4>1, <5>2, <5>3
      <4>2. CASE ~(i <= past)
        <5>1. i - past \in 1 .. Len(more) /\ past + (i - past) = i
          BY <3>2, <4>2
        <5>2. all[i] = more[i - past]
          BY <2>6, <3>1, <4>2
        <5>3. /\ past + (i - past) \in 1 .. Len(items)
              /\ Listings[IdOf(items[past + (i - past)])][IdType(items)] = <<more[i - past]>>
          BY <2>4, <2>7, <5>1
        <5>. QED  BY <5>1, <5>2, <5>3
      <4>. QED  BY <4>1, <4>2
    <3>4. Len(all) <= Len(items)
      <4>1. CASE Len(all) = 0
        BY <3>2, <4>1
      <4>2. CASE Len(all) # 0
        <5>1. Len(all) \in 1 .. Len(all)
          BY <3>2, <4>2
        <5>. QED  BY <3>2, <3>3, <5>1
      <4>. QED  BY <4>1, <4>2
    <3>5. Len(all) = IF t + 1 = n THEN Len(items) ELSE (t + 1) * ChunkSize
      BY <2>4, <2>7, <3>2
    <3>. QED  BY <3>3, <3>4, <3>5 DEF Begins
  <2>8. CASE t + 1 = n
    <3>1. Scanned(items, missed)
      BY <1>1, <2>2, <2>8 DEF Scanned
    <3>2. Scanned(items, taken)
      BY <2>2, <2>5, <2>7, <2>8 DEF Scanned
    <3>3. LookingUp(items, missed)
      BY <1>0, <1>1, <3>1 DEF LookingUp
    <3>4. LookingUp(items, taken)
      BY <1>0, <2>5, <2>6, <3>2 DEF LookingUp
    <3>. QED  BY <3>3, <3>4 DEF missed, taken
  <2>9. CASE t + 1 # n
    <3>1. Scanning(items, missed, t + 1)
      BY <1>1, <2>2, <2>9 DEF Scanning
    <3>2. Scanning(items, taken, t + 1)
      BY <2>2, <2>5, <2>7, <2>9 DEF Scanning
    <3>3. t + 1 \in 0 .. n - 1
      BY <2>2, <2>9
    <3>4. LookingUp(items, missed)
      BY <1>0, <1>1, <3>1, <3>3 DEF LookingUp
    <3>5. LookingUp(items, taken)
      BY <1>0, <2>5, <2>6, <3>2, <3>3 DEF LookingUp
    <3>. QED  BY <3>4, <3>5 DEF missed, taken
  <2>. QED  BY <2>8, <2>9
<1>. QED  BY <1>3, <1>4 DEF LookingUp

\* Waiting for the limiter and for a token does not change a lookup.
LEMMA LookupSame ==
    ASSUME NEW items, NEW r, LookingUp(items, r), NEW s, s.todo = r.todo, s.type = r.type,
           s.found = r.found, s.whole = r.whole, s.at = "back" <=> r.at = "back"
    PROVE  LookingUp(items, s)
BY DEF LookingUp, Scanning, Scanned

\* A lookup begins with everything before it.
LEMMA LookupBegins ==
    ASSUME NEW items \in Seq(Listed), items # <<>>
    PROVE  LookingUp(items, LookupByIdentifier([i \in DOMAIN items |-> IdOf(items[i])], IdType(items)))
<1>. DEFINE ids == IdsOf(items)
            K == Chunks(ids)
            todo == [k \in DOMAIN K |-> Request("catalog_items", K[k])]
            r == LookupByIdentifier(ids, IdType(items))
            R(f) == [at |-> "idle", method |-> "none", type |-> "none", todo |-> <<>>, found |-> <<>>,
                     priced |-> {}, denied |-> {}, error |-> FALSE, whole |-> f, age |-> 0, since |-> 0]
            Q(f, m, x, type) == [[R(f) EXCEPT !.at = "limit", !.method = m, !.todo = x] EXCEPT !.type = type]
<1>1. r = Q(TRUE, "lookup", todo, IdType(items))
  BY Zenon DEF LookupByIdentifier, Called, NoCall
<1>2. ASSUME NEW f, NEW m, NEW x, NEW type
      PROVE  /\ Q(f, m, x, type).at = "limit" /\ Q(f, m, x, type).todo = x /\ Q(f, m, x, type).type = type
             /\ Q(f, m, x, type).found = <<>> /\ Q(f, m, x, type).whole = f
  OBVIOUS
<1>3. K \in Seq(Seq(Ids)) /\ Len(K) > 0
  BY ItemsIds, ChunksMean
<1>4. todo = RestOf(items, 0)
  <2>. HIDE DEF K
  <2>1. DOMAIN K = 1 .. Len(K) - 0 /\ \A k \in DOMAIN K : 0 + k = k
    BY <1>3
  <2>. QED  BY <2>1 DEF RestOf, ChunksOf, K
<1>. HIDE DEF todo, K
<1>5. r.at = "limit" /\ r.todo = todo /\ r.type = IdType(items) /\ r.found = <<>>
  <2>. DEFINE q == Q(TRUE, "lookup", todo, IdType(items))
  <2>1. q.at = "limit" /\ q.todo = todo /\ q.type = IdType(items) /\ q.found = <<>>
    BY <1>2
  <2>2. r = q
    BY <1>1
  <2>. HIDE DEF r, q
  <2>. QED  BY <2>1, <2>2
<1>. HIDE DEF Q
<1>6. 0 \in 0 .. Len(ChunksOf(items)) - 1 /\ 0 * ChunkSize = 0
  BY <1>3, ClientAssumption DEF ChunksOf, K
<1>7. todo # <<>>
  BY <1>4, <1>6, RestMeans
<1>8. Begins(items, <<>>) /\ Len(<<>>) = 0
  BY DEF Begins
<1>. HIDE DEF r
<1>9. Scanning(items, r, 0)
  BY <1>4, <1>5, <1>6, <1>8 DEF Scanning
<1>10. LookingUp(items, r)
  BY <1>5, <1>6, <1>7, <1>9 DEF LookingUp
<1>. QED  BY <1>10 DEF r, IdsOf
-----------------------------------------------------------------------------
(* Costs, and what becomes of the products a list made fresh.              *)

Pairs == [asin : Asins, item : Items]

\* Every product has the item that lists it, if every request was answered and
\* Amazon has one product for each identifier.
Right(items, pairs) ==
    \A i \in DOMAIN pairs : /\ pairs[i].item # NoItem
                            /\ Listings[IdOf(pairs[i].item)][IdType(items)] = <<pairs[i].asin>>
Costed(l) == l.path \in {"scan", "agents"} /\ l.whole /\ OneEach(l.items) => Right(l.items, l.pairs)

\* A job l with its call r: nothing is to be sent before the funnel.
JobSound(l, r) ==
    /\ l.pairs \in Seq(Pairs) /\ l.todo \in Seq(Pairs)
    /\ l.at \in {"idle", "lookup", "probing", "funnel"} => l.todo = <<>>
    /\ l.at = "idle" => l.sent = {}
    /\ l.at = "lookup" => LookingUp(l.items, r)
    /\ Costed(l)

Lists == \A c \in Callers : JobSound(list[c], call[c])

ListInv == IInv /\ Lists /\ FreshAreSent

\* The fields of a job, but for its tries.
Has(l, at, path, items, pairs, whole, todo, sent) ==
    /\ l.at = at /\ l.path = path /\ l.items = items /\ l.pairs = pairs
    /\ l.whole = whole /\ l.todo = todo /\ l.sent = sent

\* What the steps change of them.
LEMMA ListFields ==
    ASSUME NEW l, ListShape(l)
    PROVE  /\ \A a : Has([l EXCEPT !.at = a], a, l.path, l.items, l.pairs, l.whole, l.todo, l.sent)
           /\ \A a, p : Has([l EXCEPT !.at = a, !.path = p], a, p, l.items, l.pairs, l.whole, l.todo, l.sent)
           /\ \A p, w, n, a : Has([l EXCEPT !.pairs = p, !.whole = w, !.tries = n, !.at = a],
                                  a, l.path, l.items, p, w, l.todo, l.sent)
           /\ \A a, t, n : Has([l EXCEPT !.at = a, !.todo = t, !.tries = n],
                               a, l.path, l.items, l.pairs, l.whole, t, l.sent)
           /\ \A a, n : Has([l EXCEPT !.tries = n, !.at = a],
                            a, l.path, l.items, l.pairs, l.whole, l.todo, l.sent)
           /\ \A t : Has([l EXCEPT !.todo = t], l.at, l.path, l.items, l.pairs, l.whole, t, l.sent)
           /\ \A t, s : Has([[l EXCEPT !.todo = t] EXCEPT !.sent = s],
                            l.at, l.path, l.items, l.pairs, l.whole, t, s)
<1>1. ASSUME NEW a PROVE Has([l EXCEPT !.at = a], a, l.path, l.items, l.pairs, l.whole, l.todo, l.sent)
  BY DEF ListShape, Has
<1>2. ASSUME NEW a, NEW p
      PROVE  Has([l EXCEPT !.at = a, !.path = p], a, p, l.items, l.pairs, l.whole, l.todo, l.sent)
  BY DEF ListShape, Has
<1>3. ASSUME NEW p, NEW w, NEW n, NEW a
      PROVE  Has([l EXCEPT !.pairs = p, !.whole = w, !.tries = n, !.at = a],
                 a, l.path, l.items, p, w, l.todo, l.sent)
  BY DEF ListShape, Has
<1>4. ASSUME NEW a, NEW t, NEW n
      PROVE  Has([l EXCEPT !.at = a, !.todo = t, !.tries = n],
                 a, l.path, l.items, l.pairs, l.whole, t, l.sent)
  BY DEF ListShape, Has
<1>5. ASSUME NEW a, NEW n
      PROVE  Has([l EXCEPT !.tries = n, !.at = a], a, l.path, l.items, l.pairs, l.whole, l.todo, l.sent)
  BY DEF ListShape, Has
<1>6. ASSUME NEW t PROVE Has([l EXCEPT !.todo = t], l.at, l.path, l.items, l.pairs, l.whole, t, l.sent)
  BY DEF ListShape, Has
<1>7. ASSUME NEW t, NEW s
      PROVE  Has([[l EXCEPT !.todo = t] EXCEPT !.sent = s], l.at, l.path, l.items, l.pairs, l.whole, t, s)
  BY DEF ListShape, Has
<1>. QED  BY <1>1, <1>2, <1>3, <1>4, <1>5, <1>6, <1>7, Zenon

\* A sound job in the place of a caller's, of which nothing that is fresh is forgotten.
LEMMA ListsKept ==
    ASSUME IInv, Lists, NEW c \in Callers, NEW l, NEW r, JobSound(l, r),
           list' = [list EXCEPT ![c] = l], call' = [call EXCEPT ![c] = r]
    PROVE  Lists'
BY DEF IInv, Calls, Jobs, Lists

\* The products of a job that are sent or still to be sent.
Held(l) == l.sent \cup AsinsOf(l.todo)

LEMMA FreshKept ==
    ASSUME IInv, FreshAreSent, NEW c \in Callers, NEW l, list' = [list EXCEPT ![c] = l],
           excused \subseteq excused', Held(list[c]) \subseteq Held(l) \cup excused',
           fresh' \subseteq fresh \cup excused' \cup Held(l)
    PROVE  FreshAreSent'
<1>1. list'[c] = l /\ \A d \in Callers \ {c} : list'[d] = list[d]
  BY DEF IInv, Jobs
<1>. DEFINE H(d) == Held(list[d])
            I(d) == Held(list'[d])
<1>2. fresh \subseteq excused \cup UNION {H(d) : d \in Callers}
  BY DEF FreshAreSent, Held
<1>3. I(c) = Held(l) /\ H(c) \subseteq I(c) \cup excused' /\ \A d \in Callers \ {c} : I(d) = H(d)
  BY <1>1
<1>4. (fresh' \subseteq excused' \cup UNION {I(d) : d \in Callers}) => FreshAreSent'
  BY DEF FreshAreSent, Held
<1>. HIDE DEF H, I
<1>. QED  BY <1>2, <1>3, <1>4

\* Members of a sequence's beginning, end, first and others.
LEMMA Members ==
    ASSUME NEW S, NEW s \in Seq(S)
    PROVE  /\ \A n \in Nat : ToSet(s) \subseteq ToSet(AtMost(n, s)) \cup ToSet(SubSeq(s, n + 1, Len(s)))
           /\ s # <<>> => Tail(s) \in Seq(S) /\ ToSet(s) \subseteq {Head(s)} \cup ToSet(Tail(s))
<1>1. ASSUME NEW n \in Nat, NEW x \in ToSet(s)
      PROVE  x \in ToSet(AtMost(n, s)) \cup ToSet(SubSeq(s, n + 1, Len(s)))
  <2>1. PICK i \in 1 .. Len(s) : s[i] = x
    BY <1>1 DEF ToSet
  <2>2. CASE Len(s) <= n
    BY <1>1, <2>2 DEF AtMost
  <2>3. CASE Len(s) > n /\ i <= n
    <3>1. SubSeq(s, 1, n) \in Seq(S) /\ Len(SubSeq(s, 1, n)) = n /\ SubSeq(s, 1, n)[i] = s[i]
      BY <2>3
    <3>2. i \in DOMAIN SubSeq(s, 1, n)
      BY <2>3, <3>1
    <3>. QED  BY <2>1, <2>3, <3>1, <3>2 DEF ToSet, AtMost
  <2>4. CASE i > n
    <3>. DEFINE m == Len(s)
                q == SubSeq(s, n + 1, m)
                k == i - n
    <3>1. q \in Seq(S) /\ Len(q) = m - n
      BY <2>4
    <3>2. k \in 1 .. Len(q) /\ q[k] = s[i]
      BY <2>4, <3>1
    <3>3. k \in DOMAIN q
      BY <3>1, <3>2
    <3>. QED  BY <2>1, <3>2, <3>3 DEF ToSet
  <2>. QED  BY <2>2, <2>3, <2>4
<1>2. ASSUME s # <<>>, NEW x \in ToSet(s)
      PROVE  Tail(s) \in Seq(S) /\ x \in {Head(s)} \cup ToSet(Tail(s))
  <2>1. PICK i \in 1 .. Len(s) : s[i] = x
    BY DEF ToSet
  <2>2. Tail(s) \in Seq(S) /\ Len(Tail(s)) = Len(s) - 1
    BY <1>2
  <2>3. CASE i = 1
    BY <2>1, <2>2, <2>3
  <2>4. CASE i # 1
    <3>1. i - 1 \in 1 .. Len(Tail(s)) /\ Tail(s)[i - 1] = s[i]
      BY <1>2, <2>2, <2>4
    <3>2. i - 1 \in DOMAIN Tail(s)
      BY <2>2, <3>1
    <3>. QED  BY <2>1, <2>2, <3>1, <3>2 DEF ToSet
  <2>. QED  BY <2>3, <2>4
<1>3. s # <<>> => Tail(s) \in Seq(S)
  OBVIOUS
<1>. QED  BY <1>1, <1>2, <1>3

\* What a match makes of the products found and of the items.
LEMMA MatchSound ==
    ASSUME NEW items, NEW r, LookingUp(items, r), r.at = "back"
    PROVE  /\ Paired(items, AtMost(Len(items), r.found)) \in Seq(Pairs)
           /\ Paired(items, r.found) \in Seq(Pairs)
           /\ PairedWithFirst(items, r.found) \in Seq(Pairs)
           /\ r.whole /\ OneEach(items) =>
                 Right(items, Paired(items, AtMost(Len(items), r.found))) /\ Right(items, Paired(items, r.found))
<1>. DEFINE n == Len(items)
            all == AtMost(n, r.found)
<1>0. items \in Seq(Listed) /\ items # <<>> /\ r.found \in Seq(Asins) /\ r.todo = <<>>
  BY DEF LookingUp
<1>1. all \in Seq(Asins) /\ Len(all) <= Len(r.found) /\ \A i \in 1 .. Len(all) : all[i] = r.found[i]
  BY <1>0, AtMostMeans
<1>2. \A i \in 1 .. n : items[i] \in Items /\ items[i] # NoItem
  <2>1. \A i \in 1 .. n : items[i] \in Listed
    BY <1>0
  <2>. QED  BY <2>1, ListedIds
<1>3. NoItem \in Items
  BY DEF NoItem, Items
<1>4. ASSUME NEW found \in Seq(Asins)
      PROVE  /\ Paired(items, found) \in Seq(Pairs) /\ PairedWithFirst(items, found) \in Seq(Pairs)
             /\ DOMAIN Paired(items, found) = 1 .. Len(found)
             /\ \A i \in 1 .. Len(found) : i \in 1 .. n => Paired(items, found)[i] = [asin |-> found[i], item |-> items[i]]
  <2>. DEFINE item(i) == IF i \in 1 .. n THEN items[i] ELSE NoItem
              pair(i) == [asin |-> found[i], item |-> item(i)]
              first(i) == [asin |-> found[i], item |-> items[1]]
  <2>1. \A i \in 1 .. Len(found) : pair(i) \in Pairs /\ (i \in 1 .. n => pair(i) = [asin |-> found[i], item |-> items[i]])
    BY <1>2, <1>3 DEF Pairs
  <2>2. \A i \in 1 .. Len(found) : first(i) \in Pairs
    <3>1. 1 \in 1 .. n
      BY <1>0
    <3>. QED  BY <1>2, <3>1 DEF Pairs
  <2>3. Paired(items, found) = [i \in 1 .. Len(found) |-> pair(i)]
    BY <1>0 DEF Paired
  <2>4. PairedWithFirst(items, found) = [i \in 1 .. Len(found) |-> first(i)]
    BY DEF PairedWithFirst
  <2>. HIDE DEF pair, first, n
  <2>5. [i \in 1 .. Len(found) |-> pair(i)] \in Seq(Pairs) /\ [i \in 1 .. Len(found) |-> first(i)] \in Seq(Pairs)
    BY <2>1, <2>2
  <2>. QED  BY <2>1, <2>3, <2>4, <2>5
<1>5. ASSUME r.whole, OneEach(items), NEW found \in Seq(Asins), Len(found) <= Len(r.found),
             \A i \in 1 .. Len(found) : found[i] = r.found[i], NEW i \in DOMAIN Paired(items, found)
      PROVE  /\ Paired(items, found)[i].item # NoItem
             /\ Listings[IdOf(Paired(items, found)[i].item)][IdType(items)] = <<Paired(items, found)[i].asin>>
  <2>1. Begins(items, r.found)
    <3>1. CASE Scanned(items, r)
      BY <1>5, <3>1 DEF Scanned
    <3>2. ASSUME NEW t \in 0 .. Len(ChunksOf(items)) - 1, Scanning(items, r, t) PROVE FALSE
      BY <1>0, <3>2, RestMeans DEF Scanning
    <3>. QED  BY <3>1, <3>2 DEF LookingUp
  <2>2. i \in 1 .. Len(found) /\ i \in 1 .. Len(r.found) /\ i \in 1 .. n
    BY <1>0, <1>4, <1>5, <2>1 DEF Begins
  <2>3. Paired(items, found)[i] = [asin |-> found[i], item |-> items[i]]
    BY <1>4, <2>2
  <2>4. Listings[IdOf(items[i])][IdType(items)] = <<r.found[i]>> /\ found[i] = r.found[i]
    BY <1>5, <2>1, <2>2 DEF Begins
  <2>. QED  BY <1>2, <2>2, <2>3, <2>4
<1>. HIDE DEF all
<1>6. ASSUME r.whole, OneEach(items)
      PROVE  Right(items, Paired(items, all)) /\ Right(items, Paired(items, r.found))
  <2>1. Right(items, Paired(items, all))
    BY <1>1, <1>5, <1>6 DEF Right
  <2>2. Right(items, Paired(items, r.found))
    <3>1. Len(r.found) <= Len(r.found)
      BY <1>0
    <3>. QED  BY <1>0, <1>5, <1>6, <3>1 DEF Right
  <2>. QED  BY <2>1, <2>2
<1>7. Paired(items, all) \in Seq(Pairs) /\ Paired(items, r.found) \in Seq(Pairs) /\ PairedWithFirst(items, r.found) \in Seq(Pairs)
  BY <1>0, <1>1, <1>4
<1>. QED  BY <1>6, <1>7 DEF all

\* A request changes a lookup as its answers do, and no job.
LEMMA ClientLists ==
    ASSUME ListInv, NEW c \in Callers, ClientStep(c), UNCHANGED listVars
    PROVE  Lists' /\ FreshAreSent'
<1>0. CallShape(call[c]) /\ JobSound(list[c], call[c]) /\ UNCHANGED <<list, fresh, excused>>
  BY DEF ListInv, IInv, Calls, Sound, Lists, listVars
<1>1. FreshAreSent'
  BY <1>0 DEF ListInv, FreshAreSent
<1>2. ASSUME NEW r, call' = [call EXCEPT ![c] = r],
             LookingUp(list[c].items, call[c]) => LookingUp(list[c].items, r)
      PROVE  Lists'
  <2>1. JobSound(list[c], r)
    BY <1>0, <1>2 DEF JobSound
  <2>. QED  BY <1>0, <1>2, <2>1 DEF ListInv, IInv, Calls, Lists
<1>3. CASE Wait(c) \/ TakeToken(c) \/ AskToken(c) \/ TokenBack(c)
  <2>. DEFINE Like(r) == /\ r.at # "back" /\ r.todo = call[c].todo /\ r.type = call[c].type
                         /\ r.found = call[c].found /\ r.whole = call[c].whole
  <2>0. /\ Like([call[c] EXCEPT !.at = "token"]) /\ Like([call[c] EXCEPT !.at = "asking"])
        /\ Like([call[c] EXCEPT !.at = "sent", !.age = token.age])
        /\ Like([call[c] EXCEPT !.at = "sent", !.age = call[c].since, !.since = 0])
    BY <1>0 DEF CallShape
  <2>. HIDE DEF Like
  <2>1. PICK r : call' = [call EXCEPT ![c] = r] /\ Like(r) /\ call[c].at # "back"
    <3>1. CASE Wait(c)
      BY <2>0, <3>1 DEF Wait
    <3>2. CASE TakeToken(c)
      BY <2>0, <3>2 DEF TakeToken
    <3>3. CASE AskToken(c)
      BY <2>0, <3>3 DEF AskToken
    <3>4. CASE TokenBack(c)
      BY <2>0, <3>4 DEF TokenBack
    <3>. QED  BY <1>3, <3>1, <3>2, <3>3, <3>4
  <2>2. LookingUp(list[c].items, call[c]) => LookingUp(list[c].items, r)
    BY <2>1, LookupSame DEF Like
  <2>. QED  BY <1>1, <1>2, <2>1, <2>2
<1>4. CASE WaitCanceled(c) \/ TokenRefused(c) \/ Answered(c) \/ Throttled(c) \/ Broken(c)
  <2>1. /\ call[c].at # "back"
        /\ \/ call' = [call EXCEPT ![c] = Onward(Taken(call[c]))]
           \/ call' = [call EXCEPT ![c] = Onward(Missed(call[c]))]
    BY <1>4 DEF WaitCanceled, TokenRefused, Answered, Throttled, Broken, Over
  <2>2. LookingUp(list[c].items, call[c]) =>
           LookingUp(list[c].items, Onward(Taken(call[c]))) /\ LookingUp(list[c].items, Onward(Missed(call[c])))
    BY <1>0, <2>1, LookupOn
  <2>. QED  BY <1>1, <1>2, <2>1, <2>2
<1>. QED  BY <1>3, <1>4 DEF ClientStep

\* Nor does the clock.
LEMMA ClockLists ==
    ASSUME ListInv, Tick, UNCHANGED listVars
    PROVE  Lists' /\ FreshAreSent'
<1>0. UNCHANGED <<list, fresh, excused>>
  BY DEF listVars
<1>1. FreshAreSent'
  BY <1>0 DEF ListInv, FreshAreSent
<1>2. ASSUME NEW c \in Callers PROVE JobSound(list[c], call'[c])
  <2>1. JobSound(list[c], call[c]) /\ CallShape(call[c])
    BY DEF ListInv, IInv, Calls, Sound, Lists
  <2>2. call'[c] = IF c \in OnTheWire THEN [call[c] EXCEPT !.since = 1] ELSE call[c]
    BY DEF Tick
  <2>3. /\ call'[c].at = call[c].at /\ call'[c].todo = call[c].todo /\ call'[c].type = call[c].type
        /\ call'[c].found = call[c].found /\ call'[c].whole = call[c].whole
    BY <2>1, <2>2 DEF CallShape
  <2>4. LookingUp(list[c].items, call[c]) => LookingUp(list[c].items, call'[c])
    BY <2>3, LookupSame
  <2>. QED  BY <2>1, <2>4 DEF JobSound
<1>. QED  BY <1>0, <1>1, <1>2 DEF Lists

\* Nothing has been found or sent.
LEMMA InitLists == Init => Lists /\ FreshAreSent
<1>. SUFFICES ASSUME Init PROVE Lists /\ FreshAreSent
  OBVIOUS
<1>1. FreshAreSent
  BY DEF Init, FreshAreSent
<1>2. Has(NoList, "idle", "none", <<>>, <<>>, TRUE, <<>>, {})
  BY DEF NoList, Has
<1>3. JobSound(NoList, NoCall)
  <2>. HIDE DEF NoList
  <2>. QED  BY <1>2 DEF JobSound, Costed, Has
<1>4. Lists
  BY <1>3 DEF Init, ClientInit, Lists
<1>. QED  BY <1>1, <1>4

\* One step of one job.
LEMMA ListLists ==
    ASSUME ListInv, NEW c \in Callers, ListStep(c)
    PROVE  Lists' /\ FreshAreSent'
<1>. DEFINE L == list[c]
            R == call[c]
<1>0. /\ ListShape(L) /\ JobSound(L, R) /\ CallShape(R)
      /\ list = [d \in Callers |-> list[d]] /\ call = [d \in Callers |-> call[d]]
  BY DEF ListInv, IInv, Jobs, Calls, Sound, Lists
<1>a. ASSUME NEW l, NEW r, JobSound(l, r), list' = [list EXCEPT ![c] = l], call' = [call EXCEPT ![c] = r],
             excused \subseteq excused', Held(L) \subseteq Held(l) \cup excused',
             fresh' \subseteq fresh \cup excused' \cup Held(l)
      PROVE  Lists' /\ FreshAreSent'
  BY <1>a, ListsKept, FreshKept DEF ListInv
<1>b. UNCHANGED call => call' = [call EXCEPT ![c] = R]
  BY <1>0
<1>c. AsinsOf(<<>>) = {}
  BY DEF AsinsOf, ToSet
\* A job that only goes on to another stage, in which it may have the rest to send.
<1>d. ASSUME NEW l, NEW r, NEW a, Has(l, a, L.path, L.items, L.pairs, L.whole, L.todo, L.sent),
             a \notin {"idle", "lookup"}, a \in {"probing", "funnel"} => L.todo = <<>>
      PROVE  JobSound(l, r) /\ Held(l) = Held(L)
  BY <1>0, <1>d DEF JobSound, Costed, Has, Held
<1>. DEFINE A == IF L.tries + 1 = Attempts THEN "fail" ELSE L.at
            again == [L EXCEPT !.tries = L.tries + 1, !.at = A]
<1>e. Has(again, A, L.path, L.items, L.pairs, L.whole, L.todo, L.sent)
  BY <1>0, ListFields
<1>f. Retried(c) = [list EXCEPT ![c] = again]
  BY <1>0, Zenon DEF Retried
<1>. HIDE DEF again
<1>g. Retried(c)[c].at = A
  BY <1>0, <1>e, <1>f DEF Has
<1>1. CASE Upload(c)
  <2>1. PICK items \in Uploads, path \in Paths[c] \ {"probe"} :
           /\ call' = [call EXCEPT ![c] =
                          LookupByIdentifier([i \in DOMAIN items |-> IdOf(items[i])], IdType(items))]
           /\ list' = [list EXCEPT ![c] = [NoList EXCEPT !.at = "lookup", !.path = path, !.items = items]]
    BY <1>1, Zenon DEF Upload
  <2>. DEFINE r == LookupByIdentifier([i \in DOMAIN items |-> IdOf(items[i])], IdType(items))
              l == [NoList EXCEPT !.at = "lookup", !.path = path, !.items = items]
  <2>2. items \in Seq(Listed) /\ items # <<>>
    BY ParsedItems DEF Uploads
  <2>3. LookingUp(items, r)
    BY <2>2, LookupBegins
  <2>4. Has(l, "lookup", path, items, <<>>, TRUE, <<>>, {})
    <3>. DEFINE M(f) == [at |-> "idle", path |-> "none", items |-> <<>>, pairs |-> <<>>, whole |-> f,
                         todo |-> <<>>, sent |-> {}, tries |-> 0]
    <3>1. ASSUME NEW f
          PROVE  Has([M(f) EXCEPT !.at = "lookup", !.path = path, !.items = items],
                     "lookup", path, items, <<>>, f, <<>>, {})
      BY DEF Has
    <3>2. NoList = M(TRUE)
      BY Zenon DEF NoList
    <3>. HIDE DEF M
    <3>. QED  BY <3>1, <3>2, Zenon
  <2>5. L.at = "idle" /\ UNCHANGED <<fresh, excused>>
    BY <1>1 DEF Upload
  <2>6. Held(L) = {}
    BY <1>0, <1>c, <2>5 DEF JobSound, Held
  <2>. HIDE DEF l, r
  <2>7. JobSound(l, r)
    BY <2>3, <2>4 DEF JobSound, Costed, Right, Has
  <2>8. call' = [call EXCEPT ![c] = r] /\ list' = [list EXCEPT ![c] = l]
    BY <2>1 DEF r, l
  <2>. QED  BY <1>a, <2>5, <2>6, <2>7, <2>8
<1>2. CASE Probe(c)
  <2>1. PICK probe \in Probes : call' = [call EXCEPT ![c] = probe]
    BY <1>2 DEF Probe
  <2>. DEFINE l == [L EXCEPT !.at = "probing", !.path = "probe"]
  <2>2. Has(l, "probing", "probe", L.items, L.pairs, L.whole, L.todo, L.sent)
    BY <1>0, ListFields
  <2>3. L.at = "idle" /\ UNCHANGED <<fresh, excused>> /\ list' = [list EXCEPT ![c] = l]
    BY <1>0, <1>2 DEF Probe
  <2>. HIDE DEF l
  <2>4. JobSound(l, probe) /\ Held(l) = Held(L)
    BY <1>0, <2>2, <2>3 DEF JobSound, Costed, Has, Held
  <2>. QED  BY <1>a, <2>1, <2>3, <2>4
<1>3. CASE Probed(c)
  <2>. DEFINE l == [L EXCEPT !.at = "done"]
  <2>1. Has(l, "done", L.path, L.items, L.pairs, L.whole, L.todo, L.sent)
    BY <1>0, ListFields
  <2>2. /\ call' = [call EXCEPT ![c] = NoCall] /\ list' = [list EXCEPT ![c] = l]
        /\ UNCHANGED <<fresh, excused>>
    BY <1>3 DEF Probed, Finish
  <2>. HIDE DEF l
  <2>3. JobSound(l, NoCall) /\ Held(l) = Held(L)
    BY <1>d, <2>1
  <2>. QED  BY <1>a, <2>2, <2>3
<1>4. CASE Match(c)
  <2>. DEFINE all == AtMost(Len(L.items), R.found)
              found == IF L.path = "scan" THEN all ELSE R.found
              pairs == IF L.path = "funnel" THEN PairedWithFirst(L.items, found) ELSE Paired(L.items, found)
              next == CASE L.path = "scan" -> "done"
                        [] L.path = "agents" /\ pairs = <<>> -> "close"
                        [] OTHER -> "funnel"
              l == [L EXCEPT !.pairs = pairs, !.whole = R.whole, !.tries = 0, !.at = next]
  <2>1. LookingUp(L.items, R) /\ L.todo = <<>> /\ R.at = "back" /\ L.todo \in Seq(Pairs)
    BY <1>0, <1>4 DEF Match, JobSound
  <2>2. Has(l, next, L.path, L.items, pairs, R.whole, L.todo, L.sent)
    BY <1>0, ListFields, Zenon
  <2>3. next \in {"done", "close", "funnel"}
    OBVIOUS
  <2>4. /\ pairs \in Seq(Pairs)
        /\ L.path \in {"scan", "agents"} /\ R.whole /\ OneEach(L.items) => Right(L.items, pairs)
    <3>1. /\ Paired(L.items, all) \in Seq(Pairs) /\ Paired(L.items, R.found) \in Seq(Pairs)
          /\ PairedWithFirst(L.items, R.found) \in Seq(Pairs)
          /\ R.whole /\ OneEach(L.items) =>
                Right(L.items, Paired(L.items, all)) /\ Right(L.items, Paired(L.items, R.found))
      <4>. HIDE DEF L, R
      <4>. QED  BY <2>1, MatchSound
    <3>2. /\ L.path \in {"scan", "agents"} => pairs = Paired(L.items, all) \/ pairs = Paired(L.items, R.found)
          /\ pairs \in {Paired(L.items, all), Paired(L.items, R.found), PairedWithFirst(L.items, R.found)}
      OBVIOUS
    <3>. HIDE DEF pairs, all
    <3>. QED  BY <3>1, <3>2
  <2>5. /\ call' = [call EXCEPT ![c] = NoCall] /\ list' = [list EXCEPT ![c] = l]
        /\ UNCHANGED <<fresh, excused>>
    BY <1>0, <1>4 DEF Match
  <2>. HIDE DEF l, pairs, next, found, all
  <2>6. JobSound(l, NoCall) /\ Held(l) = Held(L)
    BY <2>1, <2>2, <2>3, <2>4 DEF JobSound, Costed, Has, Held
  <2>. QED  BY <1>a, <2>5, <2>6
<1>5. CASE MatchLost(c)
  <2>. DEFINE items == L.items
              lookup == LookupByIdentifier([i \in DOMAIN items |-> IdOf(items[i])], IdType(items))
              r == IF A = "fail" THEN NoCall ELSE lookup
  <2>1. L.at = "lookup" /\ UNCHANGED <<fresh, excused>>
    BY <1>5 DEF MatchLost
  <2>2. call' = [call EXCEPT ![c] = r]
    BY <1>5, <1>g DEF MatchLost
  <2>3. list' = [list EXCEPT ![c] = again]
    BY <1>5, <1>f DEF MatchLost
  <2>4. items \in Seq(Listed) /\ items # <<>>
    BY <1>0, <2>1 DEF JobSound, LookingUp
  <2>5. LookingUp(items, lookup)
    BY <2>4, LookupBegins
  <2>. HIDE DEF lookup
  <2>6. JobSound(again, r) /\ Held(again) = Held(L)
    BY <1>0, <1>e, <2>1, <2>5 DEF JobSound, Costed, Has, Held
  <2>. HIDE DEF r
  <2>. QED  BY <1>a, <2>1, <2>2, <2>3, <2>6
<1>. DEFINE chosen == Surviving(c)
<1>h. chosen \in Seq(Pairs)
  <2>1. L.pairs \in Seq(Pairs)
    BY <1>0 DEF JobSound
  <2>. QED  BY <2>1, SelectedMembers DEF Surviving
<1>i. ToSet(chosen) \subseteq ToSet(ToSend(chosen)) \cup ToSet(CutOff(chosen)) /\ ToSend(chosen) \in Seq(Pairs)
  <2>1. MaxLLM \in Nat
    BY ListAssumption
  <2>. HIDE DEF chosen
  <2>. QED  BY <1>h, <2>1, Members, AtMostMeans DEF ToSend, CutOff
<1>. HIDE DEF chosen
<1>j. AsinsOf(chosen) \subseteq AsinsOf(ToSend(chosen)) \cup AsinsOf(CutOff(chosen))
  BY <1>i DEF AsinsOf
<1>6. CASE RunFunnel(c)
  <2>1. L.at = "funnel" /\ L.todo = <<>> /\ UNCHANGED call /\ fresh' = fresh \cup AsinsOf(chosen)
    BY <1>0, <1>6 DEF RunFunnel, JobSound, clientVars, chosen
  <2>2. CASE L.path = "agents"
    <3>. DEFINE next == IF chosen = <<>> THEN "close" ELSE "config"
                l == [L EXCEPT !.at = next, !.todo = ToSend(chosen), !.tries = 0]
    <3>1. Has(l, next, L.path, L.items, L.pairs, L.whole, ToSend(chosen), L.sent)
      BY <1>0, ListFields
    <3>2. list' = [list EXCEPT ![c] = l] /\ excused' = excused \cup AsinsOf(CutOff(chosen))
      BY <1>0, <1>6, <2>2 DEF RunFunnel, chosen
    <3>3. next \in {"close", "config"}
      OBVIOUS
    <3>. HIDE DEF l, next
    <3>4. JobSound(l, R)
      BY <1>0, <1>i, <3>1, <3>3 DEF JobSound, Costed, Has
    <3>5. Held(L) = L.sent /\ Held(l) = L.sent \cup AsinsOf(ToSend(chosen))
      BY <1>c, <2>1, <3>1 DEF Has, Held
    <3>. QED  BY <1>a, <1>b, <1>j, <2>1, <3>2, <3>4, <3>5
  <2>3. CASE L.path # "agents"
    <3>. DEFINE l == [L EXCEPT !.at = "done"]
    <3>1. Has(l, "done", L.path, L.items, L.pairs, L.whole, L.todo, L.sent)
      BY <1>0, ListFields
    <3>2. list' = [list EXCEPT ![c] = l] /\ excused' = excused \cup AsinsOf(chosen)
      BY <1>6, <2>3 DEF RunFunnel, Finish, chosen
    <3>. HIDE DEF l
    <3>3. JobSound(l, R) /\ Held(l) = Held(L)
      BY <1>d, <3>1
    <3>. QED  BY <1>a, <1>b, <2>1, <3>2, <3>3
  <2>. QED  BY <2>2, <2>3
<1>7. CASE FunnelLost(c)
  <2>1. L.at = "funnel" /\ L.todo = <<>> /\ UNCHANGED call /\ fresh' = fresh \cup AsinsOf(chosen)
        /\ excused' = excused \cup AsinsOf(chosen)
    BY <1>0, <1>7 DEF FunnelLost, JobSound, chosen
  <2>2. list' = [list EXCEPT ![c] = again]
    BY <1>7, <1>f DEF FunnelLost
  <2>3. A \in {"fail", "funnel"}
    BY <2>1
  <2>. HIDE DEF A
  <2>4. JobSound(again, R) /\ Held(again) = Held(L)
    BY <1>d, <1>e, <2>1, <2>3
  <2>. QED  BY <1>a, <1>b, <2>1, <2>2, <2>4
<1>8. CASE Configure(c)
  <2>1. L.at = "config" /\ UNCHANGED <<call, fresh>> /\ excused \subseteq excused'
    BY <1>8 DEF Configure
  <2>2. CASE list' = Retried(c)
    <3>1. A \in {"fail", "config"}
      BY <2>1
    <3>2. list' = [list EXCEPT ![c] = again]
      BY <1>f, <2>2
    <3>. HIDE DEF A
    <3>3. JobSound(again, R) /\ Held(again) = Held(L)
      BY <1>d, <1>e, <3>1
    <3>. QED  BY <1>a, <1>b, <2>1, <3>2, <3>3
  <2>3. CASE Finish(c, "send")
    <3>. DEFINE l == [L EXCEPT !.at = "send"]
    <3>1. Has(l, "send", L.path, L.items, L.pairs, L.whole, L.todo, L.sent)
      BY <1>0, ListFields
    <3>2. list' = [list EXCEPT ![c] = l]
      BY <2>3 DEF Finish
    <3>. HIDE DEF l
    <3>3. JobSound(l, R) /\ Held(l) = Held(L)
      BY <1>d, <3>1, SMTT(40)
    <3>. QED  BY <1>a, <1>b, <2>1, <3>2, <3>3
  <2>. QED  BY <1>8, <2>2, <2>3 DEF Configure
<1>9. CASE Dispatch(c)
  <2>. DEFINE asin == Head(L.todo).asin
              S == L.sent \cup {asin}
              shorter == [L EXCEPT !.todo = Tail(L.todo)]
              sent == [shorter EXCEPT !.sent = S]
  <2>1. /\ Has(shorter, L.at, L.path, L.items, L.pairs, L.whole, Tail(L.todo), L.sent)
        /\ Has(sent, L.at, L.path, L.items, L.pairs, L.whole, Tail(L.todo), S)
    BY <1>0, ListFields
  <2>2. /\ L.at = "send" /\ L.todo # <<>> /\ UNCHANGED <<call, fresh>>
        /\ \/ list' = [list EXCEPT ![c] = sent] /\ UNCHANGED excused
           \/ list' = [list EXCEPT ![c] = shorter] /\ excused' = excused \cup {asin}
    <3>1. shorter.sent = L.sent
      BY <2>1 DEF Has
    <3>. QED  BY <1>0, <1>9, <3>1 DEF Dispatch
  <2>3. Tail(L.todo) \in Seq(Pairs) /\ AsinsOf(L.todo) \subseteq {asin} \cup AsinsOf(Tail(L.todo))
    <3>1. L.todo \in Seq(Pairs)
      BY <1>0 DEF JobSound
    <3>2. Tail(L.todo) \in Seq(Pairs) /\ ToSet(L.todo) \subseteq {Head(L.todo)} \cup ToSet(Tail(L.todo))
      BY <2>2, <3>1, Members
    <3>. QED  BY <3>2 DEF AsinsOf
  <2>. HIDE DEF shorter, sent, asin
  <2>a. ASSUME NEW l, NEW s, Has(l, L.at, L.path, L.items, L.pairs, L.whole, Tail(L.todo), s)
        PROVE  JobSound(l, R)
    <3>. DEFINE rest == Tail(L.todo)
    <3>1. rest \in Seq(Pairs)
      BY <2>3
    <3>. HIDE DEF rest
    <3>2. Has(l, L.at, L.path, L.items, L.pairs, L.whole, rest, s)
      BY <2>a DEF rest
    <3>. QED  BY <1>0, <2>2, <3>1, <3>2 DEF JobSound, Costed, Has
  <2>4. JobSound(shorter, R) /\ JobSound(sent, R)
    BY <2>1, <2>a
  <2>5. /\ Held(L) \subseteq Held(shorter) \cup {asin}
        /\ Held(L) \subseteq Held(sent)
    BY <2>1, <2>3 DEF Has, Held
  <2>6. CASE list' = [list EXCEPT ![c] = sent] /\ UNCHANGED excused
    BY <1>a, <1>b, <2>2, <2>4, <2>5, <2>6
  <2>7. CASE list' = [list EXCEPT ![c] = shorter] /\ excused' = excused \cup {asin}
    BY <1>a, <1>b, <2>2, <2>4, <2>5, <2>7
  <2>. QED  BY <2>2, <2>6, <2>7
<1>10. CASE Waited(c) \/ CompleteCampaign(c) \/ MarkFailed(c)
  <2>1. PICK a \in {"close", "done"} : list' = [list EXCEPT ![c] = [L EXCEPT !.at = a]]
    BY <1>10 DEF Waited, CompleteCampaign, MarkFailed, Finish
  <2>. DEFINE l == [L EXCEPT !.at = a]
  <2>2. Has(l, a, L.path, L.items, L.pairs, L.whole, L.todo, L.sent)
    BY <1>0, ListFields
  <2>3. UNCHANGED <<call, fresh, excused>> /\ list' = [list EXCEPT ![c] = l]
    BY <1>10, <2>1 DEF Waited, CompleteCampaign, MarkFailed, clientVars
  <2>. HIDE DEF l
  <2>4. JobSound(l, R) /\ Held(l) = Held(L)
    BY <1>d, <2>2
  <2>. QED  BY <1>a, <1>b, <2>3, <2>4
<1>. QED  BY <1>1, <1>2, <1>3, <1>4, <1>5, <1>6, <1>7, <1>8, <1>9, <1>10 DEF ListStep

\* Every step of the specification.
LEMMA NextLists == ListInv /\ [Next]_vars => ListInv'
<1>. SUFFICES ASSUME ListInv, [Next]_vars PROVE ListInv'
  OBVIOUS
<1>0. IInv'
  BY NextIInv DEF ListInv
<1>1. CASE \E c \in Callers : ListStep(c)
  BY <1>0, <1>1, ListLists DEF ListInv
<1>2. CASE \E c \in Callers : ClientRuns(c)
  BY <1>0, <1>2, ClientLists DEF ClientRuns, ListInv
<1>3. CASE TimePasses
  BY <1>0, <1>3, ClockLists DEF TimePasses, ListInv
<1>4. CASE StartCampaign \/ UNCHANGED vars
  <2>1. UNCHANGED <<call, list, fresh, excused>>
    BY <1>4 DEF StartCampaign, vars, clientVars, listVars
  <2>. QED  BY <1>0, <2>1 DEF ListInv, Lists, FreshAreSent
<1>. QED  BY <1>1, <1>2, <1>3, <1>4 DEF Next
-----------------------------------------------------------------------------
(* Theorems.                                                               *)

\* The inductive invariant.
THEOREM Inductive == Spec => []IInv
<1>. QED  BY InitIInv, NextIInv, PTL DEF Spec

\* A token that has run out is never sent, for any life of a token that exceeds
\* the margin and any margin of at least two time-outs (client.go:61 and :99).
THEOREM TokensAreAlive == Spec => []TokenAlive
<1>1. IInv => TokenAlive
  BY ClientAssumption DEF IInv, Calls, Sound, TokenAlive
<1>. QED  BY <1>1, Inductive, PTL

\* However many callers there are, the mutex is held by the one whose token
\* request is under way and by nobody else (client.go:57).
THEOREM OneAsks == Spec => []LockedWhileAsking
<1>1. IInv => LockedWhileAsking
  <2>. SUFFICES ASSUME IInv PROVE LockedWhileAsking
    OBVIOUS
  <2>1. CASE holder = {}
    BY <2>1, FS_EmptySet DEF IInv, Lock, LockedWhileAsking
  <2>2. ASSUME NEW c, holder = {c} PROVE LockedWhileAsking
    <3>1. Cardinality({c}) = 1
      BY FS_Singleton
    <3>. QED  BY <2>2, <3>1 DEF IInv, Lock, LockedWhileAsking
  <2>. QED  BY <2>1, <2>2 DEF IInv, Lock
<1>. QED  BY <1>1, Inductive, PTL

\* The rate of an endpoint stays between the floor and its initial value, from
\* which every period of calm takes it a step further up (rate_limiter.go:69, :98).
THEOREM RatesAreBounded == Spec => []RatesRecover
<1>1. IInv => RatesRecover
  BY RatesBounded DEF IInv, Rates, RatesRecover
<1>. QED  BY <1>1, Inductive, PTL

\* The inductive invariant of costs and of what is fresh.
THEOREM ListsInductive == Spec => []ListInv
<1>1. Init => ListInv
  BY InitIInv, InitLists DEF ListInv
<1>. QED  BY <1>1, NextLists, PTL DEF Spec

\* Whatever the lists, the sizes of chunks and pages and the other callers are, a
\* product is calculated with the cost of the item that lists it, if every request was
\* answered and Amazon has one product for each identifier (pricelist_scanner.go:204, :502).
THEOREM CostsBelong == Spec => []CostBelongs
<1>1. ListInv => CostBelongs
  BY DEF ListInv, Lists, JobSound, Costed, Right, CostBelongs
<1>. QED  BY <1>1, ListsInductive, PTL

\* Whatever is lost, retried or cut off, a product that a list made fresh is sent, about
\* to be sent or among the excused ones (inngest/client.go:630, :679).
THEOREM FreshSent == Spec => []FreshAreSent
<1>1. ListInv => FreshAreSent
  BY DEF ListInv
<1>. QED  BY <1>1, ListsInductive, PTL
=============================================================================
