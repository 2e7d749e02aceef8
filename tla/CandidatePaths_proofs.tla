------------------------- MODULE CandidatePaths_proofs -------------------------
(***************************************************************************)
(* Proofs about what becomes of a candidate: the two ways it is judged     *)
(* (CandidatePaths), for any candidates, answers, thresholds and faults,   *)
(* and the review of the deal that is made of it (DealReview), for any     *)
(* reviewers and requests, where requests do not overlap.                  *)
(***************************************************************************)
EXTENDS CandidatePaths, DealReview, TLAPS

\* The last value that is given decides.
LEMMA Greatest ==
    ASSUME NEW S \in SUBSET Int, NEW m \in S, \A i \in S : i <= m
    PROVE  Max(S) = m
<1>1. \A i \in S : (\A j \in S : i >= j) => i = m
  OBVIOUS
<1>2. \A j \in S : m >= j
  OBVIOUS
<1>. QED  BY <1>1, <1>2 DEF Max

LEMMA LastGiven ==
    ASSUME NEW V, NEW values \in Seq(V), NEW i \in 1 .. Len(values), values[i] # NoValue,
           \A j \in i + 1 .. Len(values) : values[j] = NoValue
    PROVE  Merged(values) = values[i]
<1>. DEFINE given == {j \in 1 .. Len(values) : values[j] # NoValue}
<1>1. given \in SUBSET Int /\ i \in given /\ (\A j \in given : j <= i) /\ given # {}
  OBVIOUS
<1>. HIDE DEF given
<1>2. Max(given) = i
  BY <1>1, Greatest
<1>3. SelectLastInSeq(values, LAMBDA v : v # NoValue) = i
  BY <1>1, <1>2 DEF SelectLastInSeq, given
<1>. QED  BY <1>3 DEF Merged

LEMMA MergedTwo ==
    ASSUME NEW a, NEW b
    PROVE  Merged(<<a, b>>) = IF b # NoValue THEN b ELSE a
<1>. DEFINE values == <<a, b>>
<1>1. values \in Seq({a, b}) /\ Len(values) = 2 /\ values[1] = a /\ values[2] = b
  OBVIOUS
<1>. HIDE DEF values
<1>2. \A i \in 1 .. 2 :
         values[i] # NoValue /\ (\A j \in i + 1 .. 2 : values[j] = NoValue) => Merged(values) = values[i]
  BY <1>1, LastGiven
<1>3. CASE a = NoValue /\ b = NoValue
  <2>1. {i \in 1 .. Len(values) : values[i] # NoValue} = {}
    BY <1>1, <1>3
  <2>2. Merged(values) = NoValue
    BY <2>1 DEF Merged, SelectLastInSeq
  <2>. QED  BY <1>3, <2>2 DEF values
<1>. QED  BY <1>1, <1>2, <1>3 DEF values

LEMMA MergedFour ==
    ASSUME NEW a, NEW b, NEW c, NEW d
    PROVE  Merged(<<a, b, c, d>>) =
              IF d # NoValue THEN d ELSE IF c # NoValue THEN c ELSE IF b # NoValue THEN b ELSE a
<1>. DEFINE values == <<a, b, c, d>>
<1>1. /\ values \in Seq({a, b, c, d}) /\ Len(values) = 4
      /\ values[1] = a /\ values[2] = b /\ values[3] = c /\ values[4] = d
  OBVIOUS
<1>. HIDE DEF values
<1>2. \A i \in 1 .. 4 :
         values[i] # NoValue /\ (\A j \in i + 1 .. 4 : values[j] = NoValue) => Merged(values) = values[i]
  BY <1>1, LastGiven
<1>3. CASE a = NoValue /\ b = NoValue /\ c = NoValue /\ d = NoValue
  <2>1. {i \in 1 .. Len(values) : values[i] # NoValue} = {}
    BY <1>1, <1>3
  <2>2. Merged(values) = NoValue
    BY <2>1 DEF Merged, SelectLastInSeq
  <2>. QED  BY <1>3, <2>2 DEF values
<1>. QED  BY <1>1, <1>2, <1>3 DEF values

\* What passes the rules of the reviewer has a title and enough of a margin.
LEMMA RulesOfDeal ==
    ASSUME NEW got, NEW item, NEW margin, NEW profit, NEW review,
           Scored(got, item, margin, profit, review) # NoDeal
    PROVE  /\ item.titled
           /\ LET m == Merged(<<item.margin, profit, got["demand"].margin, got["supplier"].margin>>)
              IN m # NoValue => m >= MinMargin
<1>. DEFINE m == Merged(<<item.margin, profit, got["demand"].margin, got["supplier"].margin>>)
            r == Merged(<<item.risk, ProfitRisk(got["profit"]), got["demand"].risk, got["supplier"].risk>>)
<1>. HIDE DEF m, r
<1>1. ASSUME ~RulesPass(m, r, item.titled) PROVE FALSE
  <2>1. Review(RulesPass(m, r, item.titled), review).tier = "cut"
    BY <1>1 DEF Review
  <2>. QED  BY <2>1 DEF Scored, m, r
<1>2. item.titled /\ (m # NoValue => m >= MinMargin)
  BY <1>1 DEF RulesPass
<1>. QED  BY <1>2 DEF m

\* A deal depends on four answers besides the ones it is given.
LEMMA SameScores ==
    ASSUME NEW got, NEW other, NEW item, NEW margin, NEW profit, NEW review,
           \A call \in {"gating", "profit", "demand", "supplier"} : got[call] = other[call]
    PROVE  Scored(got, item, margin, profit, review) = Scored(other, item, margin, profit, review)
BY DEF Scored

\* A deal has a composite score and, apart from it, an overall one.
LEMMA DealShape ==
    ASSUME NEW got, NEW item, NEW margin, NEW profit, NEW review, NEW d,
           d = Scored(got, item, margin, profit, review), d # NoDeal
    PROVE  {"overall", "composite"} \subseteq DOMAIN d
<1>. DEFINE margins == <<item.margin, profit, got["demand"].margin, got["supplier"].margin>>
            risks == <<item.risk, ProfitRisk(got["profit"]), got["demand"].risk, got["supplier"].risk>>
            verdict == Review(RulesPass(Merged(margins), Merged(risks), item.titled), review)
            safety == 10 - got["gating"].risk
            overall == Overall(got["demand"].demand, got["demand"].competition, ScoreFromMargin(margin),
                               safety, verdict.sourcing)
            scores == [tier |-> verdict.tier, demand |-> got["demand"].demand,
                       competition |-> got["demand"].competition, margin |-> ScoreFromMargin(margin),
                       risk |-> safety, sourcing |-> verdict.sourcing, composite |-> verdict.composite,
                       overall |-> overall]
<1>1. Scored(got, item, margin, profit, review) = IF verdict.tier = "cut" THEN NoDeal ELSE scores
  BY Zenon DEF Scored
<1>. HIDE DEF verdict, safety, overall
<1>2. {"overall", "composite"} \subseteq DOMAIN scores
  OBVIOUS
<1>. HIDE DEF scores
<1>. QED  BY <1>1, <1>2

LEMMA NoDealShape ==
    ASSUME NEW d, "overall" \in DOMAIN d
    PROVE  d # NoDeal
<1>1. DOMAIN NoDeal = {"tier"}
  BY DEF NoDeal
<1>. QED  BY <1>1
-----------------------------------------------------------------------------
(* The two paths.                                                          *)

LoopPlaces == {"start", "config", "sourcing", "enrich", "gating", "profit", "demand", "supplier", "review",
               "save", "complete", "fail", "ended"}

StepsPlaces == {"enrich", "pregate", "listing", "gating", "profit", "demand", "supplier", "review", "save",
                "ended"}

Agents == {"gating", "profit", "demand", "supplier", "review"}
PastGating == Agents \ {"gating"}

Begun == campaign.status # "none"

IsPath(path) == path = [at |-> path.at, item |-> path.item, got |-> path.got, deal |-> path.deal]

IsCampaign(c) ==
    c = [own |-> c.own, prefers |-> c.prefers, block |-> c.block, known |-> c.known, status |-> c.status,
         late |-> c.late, broken |-> c.broken]

\* What discovery found without a price has a margin of 0 and no price of its own.
FoundUnpriced(p) == p.found /\ p.price = 0 => p.quoted = 0 /\ p.calculated = 0

PathsTyped ==
    /\ faults \in Nat
    /\ IsCampaign(campaign)
    /\ campaign.block = campaign.own \cup campaign.known
    /\ faults = 0 => ~campaign.late
    /\ DOMAIN answers \subseteq Calls /\ \A call \in DOMAIN answers : answers[call] \in Answers[call]
    /\ IsPath(loop) /\ loop.at \in LoopPlaces
    /\ IsPath(steps) /\ steps.at \in StepsPlaces
    /\ IF Begun THEN loop.item \in Candidates /\ steps.item \in Candidates /\ FoundUnpriced(steps.item)
                ELSE loop = Idle /\ steps = Idle

\* A path holds what was answered.
Told(got, call) == call \in DOMAIN got /\ call \in DOMAIN answers /\ got[call] = answers[call]

LoopHas(places) == loop.at \in places \/ loop.deal # NoDeal

\* The gates that lie behind the loop's place, or behind its deal.
LoopGates ==
    /\ loop.deal # NoDeal => loop.at \in {"save", "complete", "ended"} /\ loop.item.titled
    /\ LoopHas(Agents) => EnoughSellers(loop.item.sellers) /\ IsBrandAllowed(loop.item.brand, LoopFilter)
    /\ LoopHas(PastGating) =>
          /\ "gating" \in DOMAIN loop.got /\ loop.got["gating"] # Error /\ PassesLoop(loop.got["gating"])
          /\ LoopMargin >= MinMargin

StepsHas(places) == steps.at \in places \/ steps.deal # NoDeal

\* The margin of the steps, and the deal, by what was answered.
StepsMarginHeard ==
    IF CalcPrice(steps.item) = 0 /\ steps.item.calculated # NoValue THEN steps.item.calculated
    ELSE ProfitMargin(steps.item, answers["profit"])

StepsScored == Scored(answers, steps.item, StepsMarginHeard, StepsMarginHeard, answers["review"])

\* The same for the steps, which never miss an answer.
StepsGates ==
    /\ steps.deal # NoDeal => steps.at \in {"save", "ended"}
    /\ steps.at = "save" => steps.deal # NoDeal
    /\ StepsHas({"listing"} \cup Agents) =>
          /\ EnoughSellers(steps.item.sellers) /\ IsBrandAllowed(steps.item.brand, StepsFilter)
          /\ MarginMet(steps.item.price)
    /\ StepsHas(Agents) => "listing" \in DOMAIN answers /\ answers["listing"] # "refused"
    /\ StepsHas(PastGating) => Told(steps.got, "gating") /\ answers["gating"] # Error /\ PassesSteps(answers["gating"])
    /\ StepsHas({"demand", "supplier", "review"}) => Told(steps.got, "profit") /\ answers["profit"] # Error
    /\ StepsHas({"supplier", "review"}) => Told(steps.got, "demand") /\ answers["demand"] # Error
    /\ StepsHas({"review"}) => Told(steps.got, "supplier") /\ answers["supplier"] # Error
    /\ steps.deal # NoDeal =>
          /\ "review" \in DOMAIN answers /\ StepsScored # NoDeal
          /\ steps.deal \in {StepsScored, [StepsScored EXCEPT !.overall = StepsScored.composite]}

LoopScored ==
    Scored(answers, loop.item, LoopMargin, ProfitMargin(loop.item, answers["profit"]), answers["review"])

\* Why the loop makes no deal where nothing fails.
LoopDropped ==
    \/ "sourcing" \in DOMAIN answers /\ answers["sourcing"] \in {"nothing", Error}
    \/ ~EnoughSellers(loop.item.sellers)
    \/ ~IsBrandAllowed(loop.item.brand, LoopFilter)
    \/ ~(LoopMargin >= MinMargin)
    \/ "gating" \in DOMAIN answers /\ (answers["gating"] = Error \/ ~PassesLoop(answers["gating"]))
    \/ \E call \in {"demand", "supplier"} : call \in DOMAIN answers /\ answers[call] = Error
    \/ Agents \subseteq DOMAIN answers /\ LoopScored = NoDeal

LoopTold ==
    Begun /\ faults = 0 =>
        /\ LoopHas({"enrich"} \cup Agents) =>
              "sourcing" \in DOMAIN answers /\ answers["sourcing"] \notin {"nothing", Error}
        /\ LoopHas(PastGating) => Told(loop.got, "gating")
        /\ LoopHas({"demand", "supplier", "review"}) => Told(loop.got, "profit")
        /\ LoopHas({"supplier", "review"}) => Told(loop.got, "demand") /\ answers["demand"] # Error
        /\ LoopHas({"review"}) => Told(loop.got, "supplier") /\ answers["supplier"] # Error
        /\ loop.deal # NoDeal => "review" \in DOMAIN answers /\ loop.deal = LoopScored
        /\ loop.at \in {"save", "complete", "fail", "ended"} /\ loop.deal = NoDeal => LoopDropped

StepsDropped ==
    \/ ~EnoughSellers(steps.item.sellers)
    \/ ~IsBrandAllowed(steps.item.brand, StepsFilter)
    \/ ~MarginMet(steps.item.price)
    \/ "listing" \in DOMAIN answers /\ answers["listing"] = "refused"
    \/ "gating" \in DOMAIN answers /\ (answers["gating"] = Error \/ ~PassesSteps(answers["gating"]))
    \/ \E call \in {"profit", "demand", "supplier"} : call \in DOMAIN answers /\ answers[call] = Error
    \/ Agents \subseteq DOMAIN answers /\ StepsScored = NoDeal

StepsTold ==
    Begun /\ faults = 0 => (steps.at = "ended" /\ steps.deal = NoDeal => StepsDropped)

Unread == {"start", "config", "sourcing", "enrich"}

\* Both paths started with one candidate and read the same about it.
SameItem ==
    Begun /\ faults = 0 =>
        \E p \in Candidates :
            /\ IF steps.at = "enrich" THEN steps.item = p
               ELSE "enrich" \in DOMAIN answers /\ steps.item = Enriched(p, answers["enrich"])
            /\ IF loop.at \in Unread THEN loop.item = p
               ELSE /\ "sourcing" \in DOMAIN answers
                    /\ answers["sourcing"] \notin {"nothing", Error} =>
                          "enrich" \in DOMAIN answers /\ loop.item = Enriched(p, answers["enrich"])

PathsInv == PathsTyped /\ LoopGates /\ StepsGates /\ LoopTold /\ StepsTold /\ SameItem
-----------------------------------------------------------------------------
\* No campaign has begun.
LEMMA InitPathsInv == Init => PathsInv
<1>. SUFFICES ASSUME Init PROVE PathsInv
  OBVIOUS
<1>1. campaign.status = "none" /\ loop = Idle /\ steps = Idle /\ faults = 0 /\ DOMAIN answers = {}
  BY DEF Init, None
<1>2. IsCampaign(campaign) /\ campaign.block = campaign.own \cup campaign.known /\ ~campaign.late
  BY DEF Init, IsCampaign
<1>3. IsPath(Idle) /\ Idle.at = "ended" /\ Idle.deal = NoDeal
  BY DEF Idle, IsPath
<1>4. PathsTyped
  BY <1>1, <1>2, <1>3 DEF PathsTyped, Begun, LoopPlaces, StepsPlaces
<1>5. LoopGates /\ StepsGates
  BY <1>1, <1>3 DEF LoopGates, StepsGates, LoopHas, StepsHas, Agents, PastGating
<1>6. LoopTold /\ StepsTold /\ SameItem
  BY <1>1 DEF LoopTold, StepsTold, SameItem, Begun
<1>. QED  BY <1>4, <1>5, <1>6 DEF PathsInv

\* Answers are only added.
Grown ==
    /\ DOMAIN answers \subseteq DOMAIN answers'
    /\ \A call \in DOMAIN answers : answers'[call] = answers[call]
    /\ DOMAIN answers' \subseteq Calls /\ \A call \in DOMAIN answers' : answers'[call] \in Answers[call]

Hears(call, a) == call \in DOMAIN answers' /\ answers'[call] = a

LEMMA HeardFacts ==
    ASSUME PathsTyped, NEW call \in Calls, NEW a, Heard(call, a)
    PROVE  Grown /\ Hears(call, a)
<1>1. /\ answers' = Noted(answers, call, a)
      /\ a \in Answers[call] /\ (call \in DOMAIN answers => a = answers[call])
  BY DEF Heard, PathsTyped
<1>2. /\ DOMAIN answers' = DOMAIN answers \cup {call} /\ answers'[call] = a
      /\ \A c \in DOMAIN answers \ {call} : answers'[c] = answers[c]
  BY <1>1 DEF Noted
<1>3. DOMAIN answers \subseteq Calls /\ \A c \in DOMAIN answers : answers[c] \in Answers[c]
  BY DEF PathsTyped
<1>. HIDE DEF Calls
<1>. QED  BY <1>1, <1>2, <1>3 DEF Grown, Hears

LEMMA SilentFacts ==
    ASSUME PathsTyped, UNCHANGED answers
    PROVE  Grown
BY DEF Grown, PathsTyped

LEMMA LoopHearsFacts ==
    ASSUME PathsTyped, NEW call \in Calls, NEW a, LoopHears(call, a)
    PROVE  Grown /\ (faults = 0 => Hears(call, a))
BY HeardFacts, SilentFacts DEF LoopHears, PathsTyped

\* What the pricing call makes of a candidate is a candidate.
LEMMA EnrichedFacts ==
    ASSUME NEW p \in Candidates, NEW a \in Answers["enrich"]
    PROVE  /\ Enriched(p, a) \in Candidates
           /\ FoundUnpriced(p) => FoundUnpriced(Enriched(p, a))
<1>1. a.sellers \in Nat /\ a.price \in Nat
  BY PathsAssumption
<1>. DEFINE sellers == IF a.sellers > 0 THEN a.sellers ELSE p.sellers
            price == IF a.price > 0 THEN a.price ELSE p.price
<1>2. Enriched(p, a) = [[p EXCEPT !.sellers = sellers] EXCEPT !.price = price]
  BY DEF Enriched, Candidates
<1>3. sellers \in Nat /\ price \in Nat /\ (price = 0 => p.price = 0)
  BY <1>1 DEF Candidates
<1>. HIDE DEF sellers, price
<1>4. Enriched(p, a) \in Candidates
  BY <1>2, <1>3 DEF Candidates
<1>5. /\ Enriched(p, a).found = p.found /\ Enriched(p, a).quoted = p.quoted
      /\ Enriched(p, a).calculated = p.calculated /\ Enriched(p, a).price = price
  BY <1>2 DEF Candidates
<1>. QED  BY <1>3, <1>4, <1>5 DEF FoundUnpriced

\* What a step of either path leaves of the campaign.
CampaignKept ==
    /\ campaign'.own = campaign.own /\ campaign'.prefers = campaign.prefers
    /\ campaign'.block = campaign.block /\ campaign'.known = campaign.known
    /\ IsCampaign(campaign') /\ (Begun => Begun')
    /\ faults' \in {faults, faults + 1}
    /\ faults' = 0 => ~campaign'.late

LEMMA SettleFacts ==
    ASSUME PathsTyped, Begun, NEW status \in {"running", "completed", "failed"}, Settle(status)
    PROVE  CampaignKept /\ (faults' = 0 => campaign'.status = status)
<1>1. \/ campaign' = [campaign EXCEPT !.status = status] /\ faults' = faults
      \/ campaign' = [campaign EXCEPT !.broken = TRUE] /\ faults' = faults + 1
      \/ campaign' = campaign /\ faults' = faults /\ campaign.late
  BY DEF Settle, Works, Fails
<1>0. IsCampaign(campaign)
  BY DEF PathsTyped
<1>2. IsCampaign([campaign EXCEPT !.status = status]) /\ IsCampaign([campaign EXCEPT !.broken = TRUE])
  <2>1. DOMAIN campaign = {"own", "prefers", "block", "known", "status", "late", "broken"}
    BY <1>0 DEF IsCampaign
  <2>2. ASSUME NEW c, c = [f \in DOMAIN campaign |-> c[f]] PROVE IsCampaign(c)
    BY <2>1, <2>2 DEF IsCampaign
  <2>. QED  BY <2>2
<1>3. /\ campaign'.own = campaign.own /\ campaign'.prefers = campaign.prefers
      /\ campaign'.block = campaign.block /\ campaign'.known = campaign.known
      /\ campaign'.late = campaign.late
      /\ campaign'.status \in {campaign.status, status}
      /\ faults' = 0 => campaign'.status = status
  BY <1>1 DEF PathsTyped, IsCampaign
<1>4. IsCampaign(campaign') /\ faults' \in {faults, faults + 1}
  BY <1>0, <1>1, <1>2
<1>5. (Begun => Begun') /\ (faults' = 0 => ~campaign'.late)
  BY <1>1, <1>3 DEF PathsTyped, Begun
<1>. QED  BY <1>3, <1>4, <1>5 DEF CampaignKept
-----------------------------------------------------------------------------
(* What one step of the loop does to its place, candidate, answers and     *)
(* deal.                                                                   *)

LoopSame == loop'.item = loop.item /\ loop'.got = loop.got /\ loop'.deal = loop.deal

LoopBegins ==
    /\ LoopSame
    /\ \/ loop.at = "start" /\ loop'.at \in {"config", "ended"} /\ (faults' = 0 => loop'.at = "config")
       \/ loop.at = "config" /\ loop'.at \in {"sourcing", "ended"} /\ (faults' = 0 => loop'.at = "sourcing")

LoopFinds(a) ==
    /\ loop.at = "sourcing" /\ LoopSame
    /\ faults' = 0 => Hears("sourcing", a)
    /\ IF a \in {"nothing", Error} THEN loop'.at \in {"save", "fail"} ELSE loop'.at = "enrich"

LoopReads(a) ==
    /\ loop.at = "enrich" /\ loop'.got = loop.got /\ loop'.deal = loop.deal
    /\ faults' = 0 => Hears("enrich", a)
    /\ loop'.item = IF a = Error THEN loop.item ELSE Enriched(loop.item, a)
    /\ loop'.at = IF EnoughSellers(loop'.item.sellers) /\ IsBrandAllowed(loop'.item.brand, LoopFilter)
                  THEN "gating" ELSE "save"

LoopGated(a) ==
    /\ loop.at = "gating" /\ loop'.item = loop.item /\ loop'.deal = loop.deal
    /\ faults' = 0 => Hears("gating", a)
    /\ loop'.got = Noted(None, "gating", a)
    /\ loop'.at = IF a # Error /\ PassesLoop(a) /\ LoopMargin >= MinMargin THEN "profit" ELSE "save"

LoopAsked(call, next, a) ==
    /\ loop.at = call /\ loop'.item = loop.item /\ loop'.deal = loop.deal
    /\ faults' = 0 => Hears(call, a)
    /\ loop'.got = Noted(loop.got, call, a)
    /\ loop'.at = IF a # Error \/ call = "profit" THEN next ELSE "save"

LoopReviewed(a) ==
    /\ loop.at = "review" /\ loop'.item = loop.item /\ loop'.got = loop.got
    /\ faults' = 0 => Hears("review", a)
    /\ loop'.deal = Scored(loop.got, loop.item, LoopMargin, ProfitMargin(loop.item, loop.got["profit"]), a)
    /\ loop'.at = "save"

LoopEnds ==
    /\ loop'.item = loop.item /\ loop'.got = loop.got
    /\ \/ loop.at = "save" /\ loop'.at = "complete" /\ loop'.deal = loop.deal
       \/ loop.at = "save" /\ loop'.at = "fail" /\ loop'.deal = NoDeal /\ faults' # 0
       \/ loop.at \in {"complete", "fail"} /\ loop'.at = "ended" /\ loop'.deal = loop.deal

LoopMove ==
    /\ UNCHANGED <<learned, steps>> /\ Grown /\ CampaignKept /\ Begun
    /\ IsPath(loop')
    /\ \/ LoopBegins
       \/ \E a : LoopFinds(a)
       \/ \E a \in Answers["enrich"] \cup {Error} : LoopReads(a)
       \/ \E a : LoopGated(a)
       \/ \E a : LoopAsked("profit", "demand", a)
       \/ \E a : LoopAsked("demand", "supplier", a)
       \/ \E a : LoopAsked("supplier", "review", a)
       \/ \E a : LoopReviewed(a)
       \/ LoopEnds

\* A change of some of a path's fields.
LEMMA PathFields ==
    ASSUME NEW path, IsPath(path), NEW at, NEW item, NEW got
    PROVE  /\ [path EXCEPT !.at = at] = [at |-> at, item |-> path.item, got |-> path.got, deal |-> path.deal]
           /\ [path EXCEPT !.item = item, !.at = at] =
                 [at |-> at, item |-> item, got |-> path.got, deal |-> path.deal]
           /\ [path EXCEPT !.at = at, !.item = item] =
                 [at |-> at, item |-> item, got |-> path.got, deal |-> path.deal]
           /\ [path EXCEPT !.got = got, !.at = at] =
                 [at |-> at, item |-> path.item, got |-> got, deal |-> path.deal]
<1>0. DOMAIN path = {"at", "item", "got", "deal"}
  BY DEF IsPath
<1>1. [path EXCEPT !.at = at] = [at |-> at, item |-> path.item, got |-> path.got, deal |-> path.deal]
  BY <1>0
<1>2. [path EXCEPT !.item = item, !.at = at] =
         [at |-> at, item |-> item, got |-> path.got, deal |-> path.deal]
  <2>. DEFINE new == [path EXCEPT !.item = item, !.at = at]
  <2>1. DOMAIN new = DOMAIN path /\ new = [f \in DOMAIN new |-> new[f]]
    OBVIOUS
  <2>2. new.at = at /\ new.item = item /\ new.got = path.got /\ new.deal = path.deal
    BY <1>0
  <2>. HIDE DEF new
  <2>3. new = [at |-> at, item |-> item, got |-> path.got, deal |-> path.deal]
    BY <1>0, <2>1, <2>2
  <2>. QED  BY <2>3 DEF new
<1>3. [path EXCEPT !.at = at, !.item = item] =
         [at |-> at, item |-> item, got |-> path.got, deal |-> path.deal]
  <2>. DEFINE new == [path EXCEPT !.at = at, !.item = item]
  <2>1. DOMAIN new = DOMAIN path /\ new = [f \in DOMAIN new |-> new[f]]
    OBVIOUS
  <2>2. new.at = at /\ new.item = item /\ new.got = path.got /\ new.deal = path.deal
    BY <1>0
  <2>. HIDE DEF new
  <2>3. new = [at |-> at, item |-> item, got |-> path.got, deal |-> path.deal]
    BY <1>0, <2>1, <2>2
  <2>. QED  BY <2>3 DEF new
<1>4. [path EXCEPT !.got = got, !.at = at] =
         [at |-> at, item |-> path.item, got |-> got, deal |-> path.deal]
  <2>. DEFINE new == [path EXCEPT !.got = got, !.at = at]
  <2>1. DOMAIN new = DOMAIN path /\ new = [f \in DOMAIN new |-> new[f]]
    OBVIOUS
  <2>2. new.at = at /\ new.item = path.item /\ new.got = got /\ new.deal = path.deal
    BY <1>0
  <2>. HIDE DEF new
  <2>3. new = [at |-> at, item |-> path.item, got |-> got, deal |-> path.deal]
    BY <1>0, <2>1, <2>2
  <2>. QED  BY <2>3 DEF new
<1>. QED  BY <1>1, <1>2, <1>3, <1>4

LEMMA PathDeal ==
    ASSUME NEW path, IsPath(path), NEW at, NEW d
    PROVE  [path EXCEPT !.at = at, !.deal = d] = [at |-> at, item |-> path.item, got |-> path.got, deal |-> d]
<1>. DEFINE new == [path EXCEPT !.at = at, !.deal = d]
<1>0. DOMAIN path = {"at", "item", "got", "deal"}
  BY DEF IsPath
<1>1. DOMAIN new = DOMAIN path /\ new = [f \in DOMAIN new |-> new[f]]
  OBVIOUS
<1>2. new.at = at /\ new.item = path.item /\ new.got = path.got /\ new.deal = d
  BY <1>0
<1>. HIDE DEF new
<1>3. new = [at |-> at, item |-> path.item, got |-> path.got, deal |-> d]
  BY <1>0, <1>1, <1>2
<1>. QED  BY <1>3 DEF new

\* A record of these fields is a path.
LEMMA PathOf ==
    ASSUME NEW path, NEW at, NEW item, NEW got, NEW d,
           path = [at |-> at, item |-> item, got |-> got, deal |-> d]
    PROVE  IsPath(path) /\ path.at = at /\ path.item = item /\ path.got = got /\ path.deal = d
BY DEF IsPath

LEMMA CampaignSame ==
    ASSUME PathsTyped, UNCHANGED campaign, faults' \in {faults, faults + 1}
    PROVE  CampaignKept
BY DEF CampaignKept, PathsTyped, Begun

LEMMA LoopMoves ==
    ASSUME PathsTyped, LoopStep
    PROVE  LoopMove
<1>0. IsPath(loop) /\ faults \in Nat /\ (faults = 0 => ~campaign.late)
  BY DEF PathsTyped
<1>b. ASSUME loop.at # "ended" PROVE Begun
  BY <1>b DEF PathsTyped, Idle
<1>w. Works => faults' = faults
  BY DEF Works
<1>f. Fails => faults' = faults + 1 /\ faults' # 0
  BY <1>0 DEF Fails
<1>1. CASE LoopStart
  <2>1. loop.at = "start" /\ Settle("running") /\ UNCHANGED answers /\ UNCHANGED <<learned, steps>>
        /\ loop' = [loop EXCEPT !.at = IF campaign'.status = "running" THEN "config" ELSE "ended"]
    BY <1>1 DEF LoopStart, LoopOnly, LoopTo
  <2>2. Begun /\ CampaignKept /\ (faults' = 0 => campaign'.status = "running")
    BY <1>b, <2>1, SettleFacts
  <2>. DEFINE to == IF campaign'.status = "running" THEN "config" ELSE "ended"
  <2>3. to \in {"config", "ended"} /\ (faults' = 0 => to = "config")
    BY <2>2
  <2>. HIDE DEF to
  <2>4. loop' = [at |-> to, item |-> loop.item, got |-> loop.got, deal |-> loop.deal]
    BY <1>0, <2>1, PathFields DEF to
  <2>5. IsPath(loop') /\ loop'.at = to /\ LoopSame
    BY <2>4, PathOf DEF LoopSame
  <2>. QED  BY <2>1, <2>2, <2>3, <2>5, SilentFacts DEF LoopMove, LoopBegins
<1>2. CASE LoopConfig
  <2>1. loop.at = "config" /\ UNCHANGED answers /\ UNCHANGED <<learned, steps>>
    BY <1>2 DEF LoopConfig, LoopOnly
  <2>2. PICK to \in {"sourcing", "ended"} :
           /\ loop' = [loop EXCEPT !.at = to]
           /\ faults' = 0 => to = "sourcing"
           /\ \/ UNCHANGED campaign /\ faults' = faults
              \/ campaign' = [campaign EXCEPT !.broken = TRUE] /\ faults' = faults + 1
    BY <1>0, <1>2, <1>w, <1>f DEF LoopConfig, LoopTo
  <2>3. CampaignKept
    <3>1. CASE UNCHANGED campaign /\ faults' = faults
      BY <3>1, CampaignSame
    <3>2. CASE campaign' = [campaign EXCEPT !.broken = TRUE] /\ faults' = faults + 1
      <4>1. DOMAIN campaign = {"own", "prefers", "block", "known", "status", "late", "broken"}
        BY DEF PathsTyped, IsCampaign
      <4>2. IsCampaign(campaign')
        BY <3>2, <4>1 DEF IsCampaign
      <4>. QED  BY <1>0, <3>2, <4>1, <4>2 DEF CampaignKept, Begun
    <3>. QED  BY <2>2, <3>1, <3>2
  <2>4. loop' = [at |-> to, item |-> loop.item, got |-> loop.got, deal |-> loop.deal]
    BY <1>0, <2>2, PathFields
  <2>5. IsPath(loop') /\ loop'.at = to /\ LoopSame
    BY <2>4, PathOf DEF LoopSame
  <2>. QED  BY <1>b, <2>1, <2>2, <2>3, <2>5, SilentFacts DEF LoopMove, LoopBegins
<1>3. CASE LoopSourcing
  <2>1. loop.at = "sourcing" /\ Works /\ UNCHANGED campaign /\ UNCHANGED <<learned, steps>>
    BY <1>3 DEF LoopSourcing, LoopOnly
  <2>2. PICK a \in Answers["sourcing"] \cup {Error} :
           /\ LoopHears("sourcing", a)
           /\ LoopTo(CASE a = Error -> "fail" [] a = "nothing" -> "save" [] OTHER -> "enrich")
    BY <1>3 DEF LoopSourcing
  <2>. DEFINE to == CASE a = Error -> "fail" [] a = "nothing" -> "save" [] OTHER -> "enrich"
  <2>3. IF a \in {"nothing", Error} THEN to \in {"save", "fail"} ELSE to = "enrich"
    OBVIOUS
  <2>4. loop' = [loop EXCEPT !.at = to]
    BY <2>2 DEF LoopTo
  <2>. HIDE DEF to
  <2>5. loop' = [at |-> to, item |-> loop.item, got |-> loop.got, deal |-> loop.deal]
    BY <1>0, <2>4, PathFields
  <2>6. IsPath(loop') /\ loop'.at = to /\ LoopSame
    BY <2>5, PathOf DEF LoopSame
  <2>7. Grown /\ (faults = 0 => Hears("sourcing", a))
    BY <2>2, LoopHearsFacts DEF Calls
  <2>8. LoopFinds(a)
    BY <1>w, <2>1, <2>3, <2>6, <2>7 DEF LoopFinds
  <2>. QED  BY <1>b, <1>w, <2>1, <2>6, <2>7, <2>8, CampaignSame DEF LoopMove
<1>4. CASE LoopFilters
  <2>1. loop.at = "enrich" /\ Works /\ UNCHANGED campaign /\ UNCHANGED <<learned, steps>>
    BY <1>4 DEF LoopFilters, LoopOnly
  <2>2. PICK a \in Answers["enrich"] \cup {Error} :
          LET item == IF a = Error THEN loop.item ELSE Enriched(loop.item, a)
          IN /\ LoopHears("enrich", a)
             /\ loop' = [loop EXCEPT !.item = item,
                           !.at = IF EnoughSellers(item.sellers) /\ IsBrandAllowed(item.brand, LoopFilter)
                                  THEN "gating" ELSE "save"]
    BY <1>4 DEF LoopFilters
  <2>. DEFINE item == IF a = Error THEN loop.item ELSE Enriched(loop.item, a)
              to == IF EnoughSellers(item.sellers) /\ IsBrandAllowed(item.brand, LoopFilter)
                    THEN "gating" ELSE "save"
  <2>3. LoopHears("enrich", a) /\ loop' = [loop EXCEPT !.item = item, !.at = to]
    BY <2>2
  <2>. HIDE DEF item, to
  <2>4. loop' = [at |-> to, item |-> item, got |-> loop.got, deal |-> loop.deal]
    BY <1>0, <2>3, PathFields
  <2>5. IsPath(loop') /\ loop'.at = to /\ loop'.item = item /\ loop'.got = loop.got /\ loop'.deal = loop.deal
    BY <2>4, PathOf
  <2>6. Grown /\ (faults = 0 => Hears("enrich", a))
    BY <2>3, LoopHearsFacts DEF Calls
  <2>7. LoopReads(a)
    BY <1>w, <2>1, <2>5, <2>6 DEF LoopReads, item, to
  <2>. QED  BY <1>b, <1>w, <2>1, <2>5, <2>6, <2>7, CampaignSame DEF LoopMove
<1>5. CASE LoopGating
  <2>1. loop.at = "gating" /\ Works /\ UNCHANGED campaign /\ UNCHANGED <<learned, steps>>
    BY <1>5 DEF LoopGating, LoopOnly
  <2>2. PICK a \in Answers["gating"] \cup {Error} :
          /\ LoopHears("gating", a)
          /\ loop' = [loop EXCEPT !.got = Noted(None, "gating", a),
                        !.at = IF a # Error /\ PassesLoop(a) /\ LoopMargin >= MinMargin
                               THEN "profit" ELSE "save"]
    BY <1>5 DEF LoopGating
  <2>. DEFINE to == IF a # Error /\ PassesLoop(a) /\ LoopMargin >= MinMargin THEN "profit" ELSE "save"
  <2>4. loop' = [at |-> to, item |-> loop.item, got |-> Noted(None, "gating", a), deal |-> loop.deal]
    BY <1>0, <2>2, PathFields
  <2>. HIDE DEF to
  <2>5. /\ IsPath(loop') /\ loop'.at = to /\ loop'.item = loop.item /\ loop'.deal = loop.deal
        /\ loop'.got = Noted(None, "gating", a)
    BY <2>4, PathOf
  <2>6. Grown /\ (faults = 0 => Hears("gating", a))
    BY <2>2, LoopHearsFacts DEF Calls
  <2>7. LoopGated(a)
    BY <1>w, <2>1, <2>5, <2>6 DEF LoopGated, to
  <2>. QED  BY <1>b, <1>w, <2>1, <2>5, <2>6, <2>7, CampaignSame DEF LoopMove
<1>6. ASSUME NEW call \in {"profit", "demand", "supplier"}, NEW next, LoopAgent(call, next)
      PROVE  /\ UNCHANGED <<learned, steps>> /\ Grown /\ CampaignKept /\ Begun /\ IsPath(loop')
             /\ \E a : LoopAsked(call, next, a)
  <2>1. loop.at = call /\ Works /\ UNCHANGED campaign /\ UNCHANGED <<learned, steps>>
    BY <1>6 DEF LoopAgent, LoopOnly
  <2>2. PICK a \in Answers[call] \cup {Error} :
          /\ LoopHears(call, a)
          /\ loop' = [loop EXCEPT !.got = Noted(loop.got, call, a),
                                  !.at = IF a # Error \/ call = "profit" THEN next ELSE "save"]
    BY <1>6 DEF LoopAgent
  <2>. DEFINE to == IF a # Error \/ call = "profit" THEN next ELSE "save"
  <2>4. loop' = [at |-> to, item |-> loop.item, got |-> Noted(loop.got, call, a), deal |-> loop.deal]
    BY <1>0, <2>2, PathFields
  <2>. HIDE DEF to
  <2>5. /\ IsPath(loop') /\ loop'.at = to /\ loop'.item = loop.item /\ loop'.deal = loop.deal
        /\ loop'.got = Noted(loop.got, call, a)
    BY <2>4, PathOf
  <2>6. Grown /\ (faults = 0 => Hears(call, a))
    BY <2>2, LoopHearsFacts DEF Calls
  <2>7. LoopAsked(call, next, a)
    BY <1>w, <2>1, <2>5, <2>6 DEF LoopAsked, to
  <2>. QED  BY <1>b, <1>w, <2>1, <2>5, <2>6, <2>7, CampaignSame
<1>7. CASE LoopReview
  <2>1. loop.at = "review" /\ Works /\ UNCHANGED campaign /\ UNCHANGED <<learned, steps>>
    BY <1>7 DEF LoopReview, LoopOnly
  <2>2. PICK a \in Answers["review"] \cup {Error} :
          /\ LoopHears("review", a)
          /\ loop' = [loop EXCEPT !.at = "save",
                        !.deal = Scored(loop.got, loop.item, LoopMargin,
                                        ProfitMargin(loop.item, loop.got["profit"]), a)]
    BY <1>7 DEF LoopReview
  <2>. DEFINE d == Scored(loop.got, loop.item, LoopMargin, ProfitMargin(loop.item, loop.got["profit"]), a)
  <2>3. loop' = [loop EXCEPT !.at = "save", !.deal = d]
    BY <2>2, Zenon
  <2>. HIDE DEF d
  <2>4. loop' = [at |-> "save", item |-> loop.item, got |-> loop.got, deal |-> d]
    BY <1>0, <2>3, PathDeal
  <2>5. /\ IsPath(loop') /\ loop'.at = "save" /\ loop'.item = loop.item /\ loop'.got = loop.got
        /\ loop'.deal = d
    BY <2>4, PathOf
  <2>6. Grown /\ (faults = 0 => Hears("review", a))
    BY <2>2, LoopHearsFacts DEF Calls
  <2>7. LoopReviewed(a)
    BY <1>w, <2>1, <2>5, <2>6 DEF LoopReviewed, d
  <2>. QED  BY <1>b, <1>w, <2>1, <2>5, <2>6, <2>7, CampaignSame DEF LoopMove
<1>8. CASE LoopSave
  <2>1. loop.at = "save" /\ UNCHANGED <<campaign, answers>> /\ UNCHANGED <<learned, steps>>
    BY <1>8 DEF LoopSave, LoopOnly
  <2>2. \/ loop' = [loop EXCEPT !.at = "complete"] /\ faults' = faults
        \/ /\ loop' = [loop EXCEPT !.at = "fail", !.deal = NoDeal]
           /\ faults' \in {faults, faults + 1} /\ faults' # 0
    BY <1>0, <1>8, <1>w, <1>f DEF LoopSave, LoopTo
  <2>3. \/ loop' = [at |-> "complete", item |-> loop.item, got |-> loop.got, deal |-> loop.deal]
        \/ loop' = [at |-> "fail", item |-> loop.item, got |-> loop.got, deal |-> NoDeal] /\ faults' # 0
    <3>1. [loop EXCEPT !.at = "complete"] = [at |-> "complete", item |-> loop.item, got |-> loop.got, deal |-> loop.deal]
      BY <1>0, PathFields
    <3>2. [loop EXCEPT !.at = "fail", !.deal = NoDeal] =
             [at |-> "fail", item |-> loop.item, got |-> loop.got, deal |-> NoDeal]
      BY <1>0, PathDeal
    <3>. QED  BY <2>2, <3>1, <3>2
  <2>4. IsPath(loop') /\ LoopEnds
    BY <2>1, <2>3, PathOf DEF LoopEnds
  <2>5. CampaignKept
    BY <1>0, <2>1, <2>2, CampaignSame
  <2>. QED  BY <1>b, <2>1, <2>4, <2>5, SilentFacts DEF LoopMove
<1>9. CASE LoopEnd
  <2>1. /\ loop.at \in {"complete", "fail"} /\ UNCHANGED answers /\ UNCHANGED <<learned, steps>>
        /\ Settle("completed") \/ Settle("failed")
        /\ loop' = [loop EXCEPT !.at = "ended"]
    BY <1>9 DEF LoopEnd, LoopOnly, LoopTo
  <2>2. loop' = [at |-> "ended", item |-> loop.item, got |-> loop.got, deal |-> loop.deal]
    BY <1>0, <2>1, PathFields
  <2>3. IsPath(loop') /\ LoopEnds
    BY <2>1, <2>2, PathOf DEF LoopEnds
  <2>4. CampaignKept /\ Begun
    BY <1>b, <2>1, SettleFacts
  <2>. QED  BY <2>1, <2>3, <2>4, SilentFacts DEF LoopMove
<1>. QED  BY <1>1, <1>2, <1>3, <1>4, <1>5, <1>6, <1>7, <1>8, <1>9 DEF LoopStep, LoopMove
-----------------------------------------------------------------------------
(* What one of the steps does.                                             *)

StepsSame == steps'.item = steps.item /\ steps'.got = steps.got /\ steps'.deal = steps.deal

StepsReads(a) ==
    /\ steps.at = "enrich" /\ steps'.at = "pregate"
    /\ steps'.item = Enriched(steps.item, a) /\ steps'.got = steps.got /\ steps'.deal = steps.deal
    /\ Hears("enrich", a) /\ a \in Answers["enrich"]

StepsFiltered ==
    /\ steps.at = "pregate" /\ StepsSame
    /\ steps'.at = IF /\ EnoughSellers(steps.item.sellers)
                      /\ IsBrandAllowed(steps.item.brand, StepsFilter) /\ MarginMet(steps.item.price)
                   THEN "listing" ELSE "ended"

StepsListed(a) ==
    /\ steps.at = "listing" /\ StepsSame /\ Hears("listing", a)
    /\ steps'.at = IF a = "refused" THEN "ended" ELSE "gating"

StepsGated(a) ==
    /\ steps.at = "gating" /\ steps'.item = steps.item /\ steps'.deal = steps.deal /\ Hears("gating", a)
    /\ steps'.got = Noted(None, "gating", a)
    /\ steps'.at = IF a # Error /\ PassesSteps(a) THEN "profit" ELSE "ended"

StepsAsked(call, next, a) ==
    /\ steps.at = call /\ steps'.item = steps.item /\ steps'.deal = steps.deal /\ Hears(call, a)
    /\ steps'.got = Noted(steps.got, call, a)
    /\ steps'.at = IF a = Error THEN "ended" ELSE next

StepsReviewed(a) ==
    /\ steps.at = "review" /\ steps'.item = steps.item /\ steps'.got = steps.got /\ Hears("review", a)
    /\ steps'.deal = Scored(steps.got, steps.item, StepsMargin, StepsMargin, a)
    /\ steps'.at = IF steps'.deal = NoDeal THEN "ended" ELSE "save"

StepsEnds ==
    /\ steps.at = "save" /\ steps'.at = "ended" /\ steps'.item = steps.item /\ steps'.got = steps.got
    /\ \/ steps'.deal = [steps.deal EXCEPT !.overall = steps.deal.composite]
       \/ steps'.deal = NoDeal /\ faults' # 0

StepsMove ==
    /\ UNCHANGED <<campaign, loop>> /\ Grown /\ CampaignKept /\ Begun
    /\ IsPath(steps')
    /\ \/ \E a : StepsReads(a)
       \/ StepsFiltered
       \/ \E a : StepsListed(a)
       \/ \E a : StepsGated(a)
       \/ \E a : StepsAsked("profit", "demand", a)
       \/ \E a : StepsAsked("demand", "supplier", a)
       \/ \E a : StepsAsked("supplier", "review", a)
       \/ \E a : StepsReviewed(a)
       \/ StepsEnds

LEMMA StepsMoves ==
    ASSUME PathsTyped, StepsStep
    PROVE  StepsMove
<1>0. IsPath(steps) /\ faults \in Nat
  BY DEF PathsTyped
<1>b. ASSUME steps.at # "ended" PROVE Begun
  BY <1>b DEF PathsTyped, Idle
<1>w. Works => faults' = faults
  BY DEF Works
<1>f. Fails => faults' = faults + 1 /\ faults' # 0
  BY <1>0 DEF Fails
<1>a. \A brand : AutoBlock(brand) => faults' \in {faults, faults + 1}
  BY <1>w, <1>f DEF AutoBlock
<1>1. CASE StepsEnrich
  <2>1. steps.at = "enrich" /\ Works /\ UNCHANGED <<campaign, loop>>
    BY <1>1 DEF StepsEnrich, StepsOnly
  <2>2. PICK a \in Answers["enrich"] :
          /\ Heard("enrich", a)
          /\ steps' = [steps EXCEPT !.at = "pregate", !.item = Enriched(steps.item, a)]
    BY <1>1 DEF StepsEnrich
  <2>3. steps' = [at |-> "pregate", item |-> Enriched(steps.item, a), got |-> steps.got, deal |-> steps.deal]
    BY <1>0, <2>2, PathFields
  <2>4. /\ IsPath(steps') /\ steps'.at = "pregate" /\ steps'.item = Enriched(steps.item, a)
        /\ steps'.got = steps.got /\ steps'.deal = steps.deal
    BY <2>3, PathOf
  <2>5. Grown /\ Hears("enrich", a)
    BY <2>2, HeardFacts DEF Calls
  <2>6. StepsReads(a)
    BY <2>1, <2>4, <2>5 DEF StepsReads
  <2>. QED  BY <1>b, <1>w, <2>1, <2>4, <2>5, <2>6, CampaignSame DEF StepsMove
<1>2. CASE StepsPreGate
  <2>1. steps.at = "pregate" /\ UNCHANGED answers /\ UNCHANGED <<campaign, loop>>
    BY <1>2 DEF StepsPreGate, StepsOnly
  <2>. DEFINE to == IF /\ EnoughSellers(steps.item.sellers)
                       /\ IsBrandAllowed(steps.item.brand, StepsFilter) /\ MarginMet(steps.item.price)
                    THEN "listing" ELSE "ended"
  <2>2. steps' = [steps EXCEPT !.at = to] /\ faults' \in {faults, faults + 1}
    <3>1. CASE ~EnoughSellers(steps.item.sellers)
      <4>1. AutoBlock(steps.item.brand) /\ StepsTo("ended")
        BY <1>2, <3>1 DEF StepsPreGate
      <4>. QED  BY <1>a, <3>1, <4>1 DEF StepsTo
    <3>2. CASE EnoughSellers(steps.item.sellers)
      <4>1. /\ Works
            /\ StepsTo(IF IsBrandAllowed(steps.item.brand, StepsFilter) /\ MarginMet(steps.item.price)
                       THEN "listing" ELSE "ended")
        BY <1>2, <3>2 DEF StepsPreGate
      <4>. QED  BY <1>w, <3>2, <4>1 DEF StepsTo
    <3>. QED  BY <3>1, <3>2
  <2>. HIDE DEF to
  <2>3. steps' = [at |-> to, item |-> steps.item, got |-> steps.got, deal |-> steps.deal]
    BY <1>0, <2>2, PathFields
  <2>4. IsPath(steps') /\ steps'.at = to /\ StepsSame
    BY <2>3, PathOf DEF StepsSame
  <2>5. StepsFiltered
    BY <2>1, <2>4 DEF StepsFiltered, to
  <2>. QED  BY <1>b, <2>1, <2>2, <2>4, <2>5, SilentFacts, CampaignSame DEF StepsMove
<1>3. CASE StepsListing
  <2>1. steps.at = "listing" /\ UNCHANGED <<campaign, loop>>
    BY <1>3 DEF StepsListing, StepsOnly
  <2>2. PICK a \in Answers["listing"] :
          /\ Heard("listing", a)
          /\ IF a = "refused" THEN AutoBlock(steps.item.brand) /\ StepsTo("ended")
             ELSE UNCHANGED learned /\ Works /\ StepsTo("gating")
    BY <1>3 DEF StepsListing
  <2>. DEFINE to == IF a = "refused" THEN "ended" ELSE "gating"
  <2>3. steps' = [steps EXCEPT !.at = to] /\ faults' \in {faults, faults + 1}
    BY <1>a, <1>w, <2>2 DEF StepsTo
  <2>. HIDE DEF to
  <2>4. steps' = [at |-> to, item |-> steps.item, got |-> steps.got, deal |-> steps.deal]
    BY <1>0, <2>3, PathFields
  <2>5. IsPath(steps') /\ steps'.at = to /\ StepsSame
    BY <2>4, PathOf DEF StepsSame
  <2>6. Grown /\ Hears("listing", a)
    BY <2>2, HeardFacts DEF Calls
  <2>7. StepsListed(a)
    BY <2>1, <2>5, <2>6 DEF StepsListed, to
  <2>. QED  BY <1>b, <2>1, <2>3, <2>5, <2>6, <2>7, CampaignSame DEF StepsMove
<1>4. CASE StepsGating
  <2>1. steps.at = "gating" /\ Works /\ UNCHANGED <<campaign, loop>>
    BY <1>4 DEF StepsGating, StepsOnly
  <2>2. PICK a \in Answers["gating"] :
          /\ Heard("gating", a)
          /\ steps' = [steps EXCEPT !.got = Noted(None, "gating", a),
                         !.at = IF a # Error /\ PassesSteps(a) THEN "profit" ELSE "ended"]
    BY <1>4 DEF StepsGating
  <2>. DEFINE to == IF a # Error /\ PassesSteps(a) THEN "profit" ELSE "ended"
  <2>3. steps' = [at |-> to, item |-> steps.item, got |-> Noted(None, "gating", a), deal |-> steps.deal]
    BY <1>0, <2>2, PathFields
  <2>. HIDE DEF to
  <2>4. /\ IsPath(steps') /\ steps'.at = to /\ steps'.item = steps.item /\ steps'.deal = steps.deal
        /\ steps'.got = Noted(None, "gating", a)
    BY <2>3, PathOf
  <2>5. Grown /\ Hears("gating", a)
    BY <2>2, HeardFacts DEF Calls
  <2>6. StepsGated(a)
    BY <2>1, <2>4, <2>5 DEF StepsGated, to
  <2>. QED  BY <1>b, <1>w, <2>1, <2>4, <2>5, <2>6, CampaignSame DEF StepsMove
<1>5. ASSUME NEW call \in {"profit", "demand", "supplier"}, NEW next, StepsAgent(call, next)
      PROVE  /\ UNCHANGED <<campaign, loop>> /\ Grown /\ CampaignKept /\ Begun /\ IsPath(steps')
             /\ \E a : StepsAsked(call, next, a)
  <2>1. steps.at = call /\ Works /\ UNCHANGED <<campaign, loop>>
    BY <1>5 DEF StepsAgent, StepsOnly
  <2>2. PICK a \in Answers[call] :
          /\ Heard(call, a)
          /\ steps' = [steps EXCEPT !.got = Noted(steps.got, call, a), !.at = IF a = Error THEN "ended" ELSE next]
    BY <1>5 DEF StepsAgent
  <2>. DEFINE to == IF a = Error THEN "ended" ELSE next
  <2>3. steps' = [at |-> to, item |-> steps.item, got |-> Noted(steps.got, call, a), deal |-> steps.deal]
    BY <1>0, <2>2, PathFields
  <2>. HIDE DEF to
  <2>4. /\ IsPath(steps') /\ steps'.at = to /\ steps'.item = steps.item /\ steps'.deal = steps.deal
        /\ steps'.got = Noted(steps.got, call, a)
    BY <2>3, PathOf
  <2>5. Grown /\ Hears(call, a)
    BY <2>2, HeardFacts DEF Calls
  <2>6. StepsAsked(call, next, a)
    BY <2>1, <2>4, <2>5 DEF StepsAsked, to
  <2>. QED  BY <1>b, <1>w, <2>1, <2>4, <2>5, <2>6, CampaignSame
<1>6. CASE StepsReview
  <2>1. steps.at = "review" /\ Works /\ UNCHANGED <<campaign, loop>>
    BY <1>6 DEF StepsReview, StepsOnly
  <2>2. PICK a \in Answers["review"] :
          /\ Heard("review", a)
          /\ LET d == Scored(steps.got, steps.item, StepsMargin, StepsMargin, a)
             IN steps' = [steps EXCEPT !.at = IF d = NoDeal THEN "ended" ELSE "save", !.deal = d]
    BY <1>6 DEF StepsReview
  <2>. DEFINE d == Scored(steps.got, steps.item, StepsMargin, StepsMargin, a)
              to == IF d = NoDeal THEN "ended" ELSE "save"
  <2>3. steps' = [steps EXCEPT !.at = to, !.deal = d]
    BY <2>2, Zenon
  <2>. HIDE DEF d, to
  <2>4. steps' = [at |-> to, item |-> steps.item, got |-> steps.got, deal |-> d]
    BY <1>0, <2>3, PathDeal
  <2>5. /\ IsPath(steps') /\ steps'.at = to /\ steps'.item = steps.item /\ steps'.got = steps.got
        /\ steps'.deal = d
    BY <2>4, PathOf
  <2>6. Grown /\ Hears("review", a)
    BY <2>2, HeardFacts DEF Calls
  <2>7. StepsReviewed(a)
    BY <2>1, <2>5, <2>6 DEF StepsReviewed, d, to
  <2>. QED  BY <1>b, <1>w, <2>1, <2>5, <2>6, <2>7, CampaignSame DEF StepsMove
<1>7. CASE StepsSave
  <2>1. steps.at = "save" /\ UNCHANGED answers /\ UNCHANGED <<campaign, loop>>
    BY <1>7 DEF StepsSave, StepsOnly
  <2>2. PICK d : /\ steps' = [steps EXCEPT !.at = "ended", !.deal = d]
                 /\ \/ d = [steps.deal EXCEPT !.overall = steps.deal.composite] /\ faults' = faults
                    \/ d = NoDeal /\ faults' = faults + 1 /\ faults' # 0
    <3>1. CASE Works /\ steps' = [steps EXCEPT !.at = "ended", !.deal.overall = steps.deal.composite]
      <4>1. steps' = [steps EXCEPT !.at = "ended", !.deal = [steps.deal EXCEPT !.overall = steps.deal.composite]]
        BY <1>0, <3>1 DEF IsPath
      <4>. QED  BY <1>w, <3>1, <4>1
    <3>2. CASE Fails /\ steps' = [steps EXCEPT !.at = "ended", !.deal = NoDeal]
      BY <1>f, <3>2
    <3>. QED  BY <1>7, <3>1, <3>2 DEF StepsSave
  <2>3. steps' = [at |-> "ended", item |-> steps.item, got |-> steps.got, deal |-> d]
    BY <1>0, <2>2, PathDeal
  <2>4. /\ IsPath(steps') /\ steps'.at = "ended" /\ steps'.item = steps.item /\ steps'.got = steps.got
        /\ steps'.deal = d
    BY <2>3, PathOf
  <2>5. StepsEnds
    BY <2>1, <2>2, <2>4 DEF StepsEnds
  <2>. QED  BY <1>b, <2>1, <2>2, <2>4, <2>5, SilentFacts, CampaignSame DEF StepsMove
<1>. QED  BY <1>1, <1>2, <1>3, <1>4, <1>5, <1>6, <1>7 DEF StepsStep, StepsMove

\* The deadline of the loop, an edit of the list, and nothing at all.
Aside ==
    /\ UNCHANGED <<answers, loop, steps>>
    /\ CampaignKept /\ campaign'.status = campaign.status

LEMMA AsideMoves ==
    ASSUME PathsTyped, Expire \/ (\E b \in Brands : EditBlocklist(b)) \/ UNCHANGED vars
    PROVE  Aside
<1>1. CASE Expire
  <2>1. /\ campaign' = [campaign EXCEPT !.late = TRUE] /\ faults' = faults + 1
        /\ UNCHANGED <<answers, loop, steps>>
    BY <1>1 DEF Expire, Fails
  <2>2. DOMAIN campaign = {"own", "prefers", "block", "known", "status", "late", "broken"}
    BY DEF PathsTyped, IsCampaign
  <2>3. IsCampaign(campaign')
    BY <2>1, <2>2 DEF IsCampaign
  <2>. QED  BY <2>1, <2>2, <2>3 DEF PathsTyped, Aside, CampaignKept, Begun
<1>2. CASE (\E b \in Brands : EditBlocklist(b)) \/ UNCHANGED vars
  <2>1. UNCHANGED <<campaign, answers, loop, steps, faults>>
    BY <1>2 DEF EditBlocklist, vars
  <2>. QED  BY <2>1, CampaignSame DEF Aside
<1>. QED  BY <1>1, <1>2

\* A campaign begins with one candidate, for both paths, and no answers.
Fresh ==
    \E p \in Candidates :
        /\ FoundUnpriced(p)
        /\ IsPath(loop') /\ loop'.at = "start" /\ loop'.item = p /\ loop'.deal = NoDeal
        /\ IsPath(steps') /\ steps'.at = "enrich" /\ steps'.item = p /\ steps'.deal = NoDeal
        /\ DOMAIN answers' = {}
        /\ IsCampaign(campaign') /\ campaign'.block = campaign'.own \cup campaign'.known
        /\ campaign'.status = "pending" /\ ~campaign'.late
        /\ faults' \in {faults, faults + 1}

LEMMA CreateMoves ==
    ASSUME PathsTyped, NEW p \in Products, NEW wish \in Wishes, Create(p, wish)
    PROVE  Fresh
<1>1. /\ loop' = [Idle EXCEPT !.at = "start", !.item = p]
      /\ steps' = [Idle EXCEPT !.at = "enrich", !.item = p]
      /\ answers' = None
  BY DEF Create
<1>2. PICK list : /\ campaign' = [own |-> wish.own, prefers |-> wish.prefers, block |-> wish.own \cup list,
                                  known |-> list, status |-> "pending", late |-> FALSE, broken |-> FALSE]
                  /\ faults' \in {faults, faults + 1}
  BY DEF Create, Works, Fails
<1>3. /\ loop' = [at |-> "start", item |-> p, got |-> None, deal |-> NoDeal]
      /\ steps' = [at |-> "enrich", item |-> p, got |-> None, deal |-> NoDeal]
  BY <1>1 DEF Idle
<1>4. /\ IsPath(loop') /\ loop'.at = "start" /\ loop'.item = p /\ loop'.deal = NoDeal
      /\ IsPath(steps') /\ steps'.at = "enrich" /\ steps'.item = p /\ steps'.deal = NoDeal
  BY <1>3, PathOf
<1>5. p \in Candidates /\ FoundUnpriced(p) /\ DOMAIN answers' = {}
  BY <1>1, PathsAssumption DEF None, Discovered, FoundUnpriced
<1>. QED  BY <1>2, <1>4, <1>5 DEF Fresh, IsCampaign

\* The steps there are.
LEMMA PathsCases ==
    ASSUME PathsTyped, [Next]_vars
    PROVE  Fresh \/ LoopMove \/ StepsMove \/ Aside
BY CreateMoves, LoopMoves, StepsMoves, AsideMoves DEF Next
-----------------------------------------------------------------------------
\* Every variable keeps its shape.
LEMMA PathsTypedKept ==
    ASSUME PathsTyped, [Next]_vars
    PROVE  PathsTyped'
<1>0. faults \in Nat /\ campaign.block = campaign.own \cup campaign.known
  BY DEF PathsTyped
<1>1. CASE Fresh
  BY <1>0, <1>1 DEF Fresh, PathsTyped, Begun, LoopPlaces, StepsPlaces
<1>2. ASSUME Grown, CampaignKept
      PROVE  /\ faults' \in Nat /\ IsCampaign(campaign') /\ campaign'.block = campaign'.own \cup campaign'.known
             /\ faults' = 0 => ~campaign'.late
             /\ DOMAIN answers' \subseteq Calls /\ \A call \in DOMAIN answers' : answers'[call] \in Answers[call]
  BY <1>0, <1>2 DEF Grown, CampaignKept
<1>3. CASE LoopMove
  <2>1. Begun /\ Begun' /\ loop.item \in Candidates /\ steps.item \in Candidates /\ UNCHANGED steps
        /\ FoundUnpriced(steps.item)
    BY <1>3 DEF LoopMove, CampaignKept, PathsTyped
  <2>2. loop'.item \in Candidates
    <3>1. ASSUME NEW a \in Answers["enrich"] \cup {Error}, LoopReads(a) PROVE loop'.item \in Candidates
      BY <2>1, <3>1, EnrichedFacts DEF LoopReads
    <3>. QED  BY <1>3, <2>1, <3>1 DEF LoopMove, LoopBegins, LoopSame, LoopFinds, LoopGated, LoopAsked, LoopReviewed, LoopEnds
  <2>3. loop'.at \in LoopPlaces
    BY <1>3 DEF LoopMove, LoopBegins, LoopFinds, LoopReads, LoopGated, LoopAsked, LoopReviewed, LoopEnds, LoopPlaces
  <2>4. IsPath(loop') /\ Grown /\ CampaignKept
    BY <1>3 DEF LoopMove
  <2>. QED  BY <1>2, <2>1, <2>2, <2>3, <2>4 DEF PathsTyped, Begun
<1>4. CASE StepsMove
  <2>1. Begun /\ Begun' /\ loop.item \in Candidates /\ steps.item \in Candidates /\ UNCHANGED loop
        /\ FoundUnpriced(steps.item)
    BY <1>4 DEF StepsMove, CampaignKept, PathsTyped
  <2>2. steps'.item \in Candidates /\ FoundUnpriced(steps'.item)
    <3>1. ASSUME NEW a, StepsReads(a) PROVE steps'.item \in Candidates /\ FoundUnpriced(steps'.item)
      BY <2>1, <3>1, EnrichedFacts DEF StepsReads
    <3>. QED  BY <1>4, <2>1, <3>1 DEF StepsMove, StepsSame, StepsFiltered, StepsListed, StepsGated, StepsAsked, StepsReviewed, StepsEnds
  <2>3. steps'.at \in StepsPlaces
    BY <1>4 DEF StepsMove, StepsReads, StepsFiltered, StepsListed, StepsGated, StepsAsked, StepsReviewed, StepsEnds, StepsPlaces
  <2>4. IsPath(steps') /\ Grown /\ CampaignKept
    BY <1>4 DEF StepsMove
  <2>. QED  BY <1>2, <2>1, <2>2, <2>3, <2>4 DEF PathsTyped, Begun
<1>5. CASE Aside
  BY <1>2, <1>5, SilentFacts DEF Aside, PathsTyped, Begun
<1>. QED  BY <1>1, <1>3, <1>4, <1>5, PathsCases

\* The loop passes its gates in order.
LEMMA LoopGatesKept ==
    ASSUME PathsTyped, LoopGates, [Next]_vars
    PROVE  LoopGates'
<1>. USE DEF LoopHas, Agents, PastGating
<1>1. CASE Fresh
  BY <1>1 DEF Fresh, LoopGates
<1>2. ASSUME CampaignKept PROVE LoopFilter' = LoopFilter
  BY <1>2 DEF CampaignKept, LoopFilter
<1>3. CASE StepsMove \/ Aside
  <2>1. UNCHANGED loop /\ LoopFilter' = LoopFilter
    BY <1>2, <1>3 DEF StepsMove, Aside
  <2>. QED  BY <2>1 DEF LoopGates, LoopMargin
<1>4. CASE LoopMove
  <2>1. LoopFilter' = LoopFilter
    BY <1>2, <1>4 DEF LoopMove
  <2>2. ASSUME loop'.item = loop.item PROVE LoopMargin' = LoopMargin
    BY <2>2 DEF LoopMargin
  <2>3. CASE LoopBegins \/ LoopEnds \/ (\E a : LoopFinds(a))
    BY <2>1, <2>2, <2>3 DEF LoopGates, LoopBegins, LoopEnds, LoopFinds, LoopSame
  <2>4. ASSUME NEW a, LoopReads(a) PROVE LoopGates'
    BY <2>1, <2>4 DEF LoopGates, LoopReads
  <2>5. ASSUME NEW a, LoopGated(a) PROVE LoopGates'
    <3>1. "gating" \in DOMAIN loop'.got /\ loop'.got["gating"] = a
      BY <2>5 DEF LoopGated, Noted
    <3>. QED  BY <2>1, <2>2, <2>5, <3>1 DEF LoopGates, LoopGated
  <2>6. ASSUME NEW call \in {"profit", "demand", "supplier"}, NEW next \in {"demand", "supplier", "review"}, NEW a,
               LoopAsked(call, next, a)
        PROVE  LoopGates'
    <3>1. /\ loop'.item = loop.item /\ loop'.deal = loop.deal /\ loop.at \in PastGating
          /\ loop'.at \in {"demand", "supplier", "review", "save"}
      BY <2>6 DEF LoopAsked
    <3>2. "gating" \in DOMAIN loop.got
      BY <3>1 DEF LoopGates
    <3>3. "gating" \in DOMAIN loop'.got /\ loop'.got["gating"] = loop.got["gating"]
      BY <2>6, <3>2 DEF LoopAsked, Noted
    <3>. QED  BY <2>1, <2>2, <3>1, <3>3 DEF LoopGates
  <2>7. ASSUME NEW a, LoopReviewed(a) PROVE LoopGates'
    <3>1. loop'.deal # NoDeal => loop.item.titled
      BY <2>7, RulesOfDeal DEF LoopReviewed
    <3>. QED  BY <2>1, <2>2, <2>7, <3>1 DEF LoopGates, LoopReviewed
  <2>. QED  BY <1>4, <2>3, <2>4, <2>5, <2>6, <2>7 DEF LoopMove
<1>. QED  BY <1>1, <1>3, <1>4, PathsCases

\* What was answered is what counts for a deal.
LEMMA StepsScoredKept ==
    ASSUME steps'.item = steps.item, Grown, Agents \subseteq DOMAIN answers
    PROVE  StepsScored' = StepsScored
<1>1. \A call \in Agents : answers'[call] = answers[call]
  BY DEF Grown
<1>2. StepsMarginHeard' = StepsMarginHeard
  BY <1>1 DEF StepsMarginHeard, ProfitMargin, Agents
<1>3. /\ answers'["review"] = answers["review"]
      /\ \A call \in {"gating", "profit", "demand", "supplier"} : answers'[call] = answers[call]
  BY <1>1 DEF Agents
<1>. QED  BY <1>2, <1>3, SameScores DEF StepsScored

LEMMA LoopScoredKept ==
    ASSUME loop'.item = loop.item, Grown, Agents \subseteq DOMAIN answers
    PROVE  LoopScored' = LoopScored
<1>1. \A call \in Agents : answers'[call] = answers[call]
  BY DEF Grown
<1>2. /\ ProfitMargin(loop.item, answers["profit"])' = ProfitMargin(loop.item, answers["profit"])
      /\ LoopMargin' = LoopMargin
  BY <1>1 DEF LoopMargin, ProfitMargin, Agents
<1>3. /\ answers'["review"] = answers["review"]
      /\ \A call \in {"gating", "profit", "demand", "supplier"} : answers'[call] = answers[call]
  BY <1>1 DEF Agents
<1>. QED  BY <1>2, <1>3, SameScores DEF LoopScored

LEMMA ToldKept ==
    ASSUME Grown, NEW got, NEW call, call \in DOMAIN got /\ call \in DOMAIN answers /\ got[call] = answers[call]
    PROVE  call \in DOMAIN answers' /\ got[call] = answers'[call]
BY DEF Grown

\* The reviewer of the steps scores what was answered.
LEMMA StepsReviewHeard ==
    ASSUME StepsGates, Grown, NEW a, StepsReviewed(a)
    PROVE  /\ steps'.deal = StepsScored' /\ "review" \in DOMAIN answers'
           /\ \A call \in {"gating", "profit", "demand", "supplier"} :
                 /\ call \in DOMAIN steps'.got /\ call \in DOMAIN answers'
                 /\ steps'.got[call] = answers'[call] /\ answers'[call] = answers[call]
<1>1. /\ Told(steps.got, "gating") /\ Told(steps.got, "profit") /\ Told(steps.got, "demand")
      /\ Told(steps.got, "supplier") /\ steps'.item = steps.item /\ steps'.got = steps.got
      /\ answers'["review"] = a /\ "review" \in DOMAIN answers'
  BY DEF StepsGates, StepsReviewed, StepsHas, Agents, PastGating, Hears
<1>2. \A call \in DOMAIN answers : call \in DOMAIN answers' /\ answers'[call] = answers[call]
  BY DEF Grown
<1>3. \A call \in {"gating", "profit", "demand", "supplier"} :
         /\ call \in DOMAIN steps'.got /\ call \in DOMAIN answers'
         /\ steps'.got[call] = answers'[call] /\ answers'[call] = answers[call] /\ steps.got[call] = answers'[call]
  BY <1>1, <1>2 DEF Told
<1>4. StepsMarginHeard' = StepsMargin
  BY <1>1, <1>3 DEF StepsMarginHeard, StepsMargin, ProfitMargin
<1>5. Scored(steps.got, steps.item, StepsMargin, StepsMargin, a) =
         Scored(answers', steps.item, StepsMargin, StepsMargin, a)
  BY <1>3, SameScores
<1>6. steps'.deal = StepsScored'
  BY <1>1, <1>4, <1>5 DEF StepsReviewed, StepsScored
<1>. QED  BY <1>1, <1>3, <1>6

\* Without a failure the deal is kept, with the reviewer's score.
LEMMA StepsEndHeard ==
    ASSUME StepsGates, Grown, StepsEnds
    PROVE  /\ Agents \subseteq DOMAIN answers /\ StepsScored # NoDeal /\ StepsScored' = StepsScored
           /\ steps'.deal \in {[StepsScored EXCEPT !.overall = StepsScored.composite], NoDeal}
           /\ faults' = 0 => steps'.deal # NoDeal
<1>1. /\ steps.at = "save" /\ steps'.item = steps.item
      /\ steps'.deal \in {[steps.deal EXCEPT !.overall = steps.deal.composite], NoDeal}
      /\ faults' = 0 => steps'.deal = [steps.deal EXCEPT !.overall = steps.deal.composite]
  BY DEF StepsEnds
<1>2. /\ Agents \subseteq DOMAIN answers /\ StepsScored # NoDeal
      /\ steps.deal \in {StepsScored, [StepsScored EXCEPT !.overall = StepsScored.composite]}
  BY <1>1 DEF StepsGates, Told, StepsHas, Agents, PastGating
<1>3. StepsScored' = StepsScored
  BY <1>1, <1>2, StepsScoredKept
<1>. DEFINE scored == StepsScored
<1>4. scored = Scored(answers, steps.item, StepsMarginHeard, StepsMarginHeard, answers["review"])
      /\ scored # NoDeal
  BY <1>2 DEF StepsScored
<1>. HIDE DEF scored
<1>5. {"overall", "composite"} \subseteq DOMAIN scored
  BY <1>4, DealShape
<1>6. /\ [scored EXCEPT !.overall = scored.composite].composite = scored.composite
      /\ [[scored EXCEPT !.overall = scored.composite] EXCEPT !.overall = scored.composite] =
            [scored EXCEPT !.overall = scored.composite]
  BY <1>5
<1>7. [scored EXCEPT !.overall = scored.composite] # NoDeal
  <2>. DEFINE d == [scored EXCEPT !.overall = scored.composite]
  <2>1. "overall" \in DOMAIN d
    BY <1>5
  <2>. HIDE DEF d
  <2>2. d # NoDeal
    BY <2>1, NoDealShape
  <2>. QED  BY <2>2 DEF d
<1>. QED  BY <1>1, <1>2, <1>3, <1>6, <1>7 DEF scored

\* The steps pass their gates in order, and their deal is made of the answers.
LEMMA StepsGatesKept ==
    ASSUME PathsTyped, StepsGates, [Next]_vars
    PROVE  StepsGates'
<1>. USE DEF StepsHas, Agents, PastGating
<1>1. CASE Fresh
  BY <1>1 DEF Fresh, StepsGates
<1>2. ASSUME CampaignKept PROVE StepsFilter' = StepsFilter
  BY <1>2 DEF CampaignKept, StepsFilter
<1>3. CASE LoopMove \/ Aside
  <2>1. UNCHANGED steps /\ StepsFilter' = StepsFilter /\ Grown
    BY <1>2, <1>3, SilentFacts DEF LoopMove, Aside
  <2>2. \A call \in DOMAIN answers : call \in DOMAIN answers' /\ answers'[call] = answers[call]
    BY <2>1 DEF Grown
  <2>3. steps.deal # NoDeal => StepsScored' = StepsScored
    <3>1. steps.deal # NoDeal => Agents \subseteq DOMAIN answers
      BY DEF StepsGates, Told
    <3>. QED  BY <2>1, <3>1, StepsScoredKept
  <2>. QED  BY <2>1, <2>2, <2>3 DEF StepsGates, Told
<1>4. CASE StepsMove
  <2>1. StepsFilter' = StepsFilter /\ Grown
    BY <1>2, <1>4 DEF StepsMove
  <2>2. \A call \in DOMAIN answers : call \in DOMAIN answers' /\ answers'[call] = answers[call]
    BY <2>1 DEF Grown
  <2>3. ASSUME NEW a, StepsReads(a) PROVE StepsGates'
    BY <2>3 DEF StepsGates, StepsReads
  <2>4. CASE StepsFiltered
    BY <2>1, <2>2, <2>4 DEF StepsGates, StepsFiltered, StepsSame
  <2>5. ASSUME NEW a, StepsListed(a) PROVE StepsGates'
    BY <2>1, <2>2, <2>5 DEF StepsGates, StepsListed, StepsSame, Hears
  <2>6. ASSUME NEW a, StepsGated(a) PROVE StepsGates'
    <3>1. "gating" \in DOMAIN steps'.got /\ steps'.got["gating"] = a
      BY <2>6 DEF StepsGated, Noted
    <3>. QED  BY <2>1, <2>2, <2>6, <3>1 DEF StepsGates, StepsGated, Hears, Told
  <2>7. ASSUME NEW call \in {"profit", "demand", "supplier"}, NEW next, NEW a,
               StepsAsked(call, next, a),
               <<call, next>> \in {<<"profit", "demand">>, <<"demand", "supplier">>, <<"supplier", "review">>}
        PROVE  StepsGates'
    <3>1. /\ call \in DOMAIN steps'.got /\ steps'.got[call] = a
          /\ \A c \in DOMAIN steps.got \ {call} : c \in DOMAIN steps'.got /\ steps'.got[c] = steps.got[c]
      BY <2>7 DEF StepsAsked, Noted
    <3>2. steps.deal = NoDeal /\ steps'.deal = NoDeal
      BY <2>7 DEF StepsGates, StepsAsked
    <3>. QED  BY <2>1, <2>2, <2>7, <3>1, <3>2 DEF StepsGates, StepsAsked, Hears, Told
  <2>8. ASSUME NEW a, StepsReviewed(a) PROVE StepsGates'
    <3>. QED  BY <2>1, <2>2, <2>8, StepsReviewHeard DEF StepsGates, StepsReviewed, Told
  <2>9. CASE StepsEnds
    <3>1. /\ steps.at = "save" /\ steps'.at = "ended" /\ steps'.item = steps.item /\ steps'.got = steps.got
          /\ steps.deal # NoDeal
      BY <2>9 DEF StepsEnds, StepsGates
    <3>. QED  BY <2>1, <2>2, <2>9, <3>1, StepsEndHeard DEF StepsGates, Told
  <2>. QED  BY <1>4, <2>3, <2>4, <2>5, <2>6, <2>7, <2>8, <2>9 DEF StepsMove
<1>. QED  BY <1>1, <1>3, <1>4, PathsCases
-----------------------------------------------------------------------------
(* What was answered, where nothing failed.                                *)

LEMMA LoopDroppedKept ==
    ASSUME loop'.item = loop.item, LoopFilter' = LoopFilter, Grown, LoopDropped
    PROVE  LoopDropped'
<1>1. \A call \in DOMAIN answers : call \in DOMAIN answers' /\ answers'[call] = answers[call]
  BY DEF Grown
<1>2. LoopMargin' = LoopMargin
  BY DEF LoopMargin
<1>3. Agents \subseteq DOMAIN answers => LoopScored' = LoopScored
  BY LoopScoredKept
<1>. QED  BY <1>1, <1>2, <1>3 DEF LoopDropped

LEMMA StepsDroppedKept ==
    ASSUME steps'.item = steps.item, StepsFilter' = StepsFilter, Grown, StepsDropped
    PROVE  StepsDropped'
<1>1. \A call \in DOMAIN answers : call \in DOMAIN answers' /\ answers'[call] = answers[call]
  BY DEF Grown
<1>2. Agents \subseteq DOMAIN answers => StepsScored' = StepsScored
  BY StepsScoredKept
<1>. QED  BY <1>1, <1>2 DEF StepsDropped

\* The campaign goes on, and nothing has failed so far.
LEMMA Unfailing ==
    ASSUME PathsTyped, CampaignKept, Begun, faults' = 0
    PROVE  faults = 0 /\ LoopFilter' = LoopFilter /\ StepsFilter' = StepsFilter /\ Begun'
BY DEF PathsTyped, CampaignKept, LoopFilter, StepsFilter

\* The loop holds what was answered, and makes no deal only for a reason.
LEMMA LoopToldKept ==
    ASSUME PathsTyped, LoopGates, LoopTold, [Next]_vars
    PROVE  LoopTold'
<1>. SUFFICES ASSUME Begun', faults' = 0 PROVE LoopTold'
  BY DEF LoopTold
<1>. USE DEF LoopHas, Agents, PastGating
<1>1. CASE Fresh
  BY <1>1 DEF Fresh, LoopTold
<1>2. CASE (StepsMove \/ Aside) /\ Begun
  <2>1. UNCHANGED loop /\ Grown /\ CampaignKept
    BY <1>2, SilentFacts DEF StepsMove, Aside
  <2>2. faults = 0 /\ LoopFilter' = LoopFilter
    BY <1>2, <2>1, Unfailing
  <2>3. \A call \in DOMAIN answers : call \in DOMAIN answers' /\ answers'[call] = answers[call]
    BY <2>1 DEF Grown
  <2>4. loop.deal # NoDeal => LoopScored' = LoopScored
    <3>1. loop.deal # NoDeal => Agents \subseteq DOMAIN answers
      BY <1>2, <2>2 DEF LoopTold, Told
    <3>. QED  BY <2>1, <3>1, LoopScoredKept
  <2>5. LoopDropped => LoopDropped'
    BY <2>1, <2>2, LoopDroppedKept
  <2>. QED  BY <1>2, <2>1, <2>2, <2>3, <2>4, <2>5 DEF LoopTold, Told
<1>3. CASE LoopMove
  <2>1. Begun /\ Grown /\ faults = 0 /\ LoopFilter' = LoopFilter
    BY <1>3, Unfailing DEF LoopMove
  <2>2. \A call \in DOMAIN answers : call \in DOMAIN answers' /\ answers'[call] = answers[call]
    BY <2>1 DEF Grown
  <2>3. CASE LoopBegins
    BY <2>3 DEF LoopBegins, LoopSame, LoopGates, LoopTold
  <2>4. ASSUME NEW a, LoopFinds(a) PROVE LoopTold'
    <3>1. loop'.deal = NoDeal /\ "sourcing" \in DOMAIN answers' /\ answers'["sourcing"] = a
          /\ loop'.at \in {"save", "fail", "enrich"} /\ (loop'.at = "enrich" <=> a \notin {"nothing", Error})
      BY <2>4 DEF LoopFinds, LoopSame, LoopGates, Hears
    <3>2. a \in {"nothing", Error} => LoopDropped'
      BY <3>1 DEF LoopDropped
    <3>. QED  BY <3>1, <3>2 DEF LoopTold
  <2>5. ASSUME NEW a, LoopReads(a) PROVE LoopTold'
    <3>1. loop'.deal = NoDeal /\ loop'.at \in {"gating", "save"}
          /\ (loop'.at = "save" => LoopDropped')
      BY <2>1, <2>5 DEF LoopReads, LoopGates, LoopDropped
    <3>2. "sourcing" \in DOMAIN answers' /\ answers'["sourcing"] \notin {"nothing", Error}
      BY <2>1, <2>2, <2>5 DEF LoopReads, LoopTold
    <3>. QED  BY <3>1, <3>2 DEF LoopTold
  <2>6. ASSUME NEW a, LoopGated(a) PROVE LoopTold'
    <3>1. loop'.deal = NoDeal /\ loop'.at \in {"profit", "save"} /\ loop'.item = loop.item
          /\ "gating" \in DOMAIN loop'.got /\ loop'.got["gating"] = a
          /\ "gating" \in DOMAIN answers' /\ answers'["gating"] = a
      BY <2>6 DEF LoopGated, LoopGates, Hears, Noted
    <3>2. LoopMargin' = LoopMargin
      BY <3>1 DEF LoopMargin
    <3>3. loop'.at = "save" => LoopDropped'
      BY <2>6, <3>1, <3>2 DEF LoopGated, LoopDropped
    <3>4. "sourcing" \in DOMAIN answers' /\ answers'["sourcing"] \notin {"nothing", Error}
      BY <2>1, <2>2, <2>6 DEF LoopGated, LoopTold
    <3>. QED  BY <3>1, <3>3, <3>4 DEF LoopTold, Told
  <2>7. ASSUME NEW call \in {"profit", "demand", "supplier"}, NEW next, NEW a, LoopAsked(call, next, a),
               <<call, next>> \in {<<"profit", "demand">>, <<"demand", "supplier">>, <<"supplier", "review">>}
        PROVE  LoopTold'
    <3>1. /\ call \in DOMAIN loop'.got /\ loop'.got[call] = a
          /\ \A c \in DOMAIN loop.got \ {call} : c \in DOMAIN loop'.got /\ loop'.got[c] = loop.got[c]
          /\ call \in DOMAIN answers' /\ answers'[call] = a
      BY <2>7 DEF LoopAsked, Noted, Hears
    <3>2. loop.deal = NoDeal /\ loop'.deal = NoDeal /\ loop.at = call /\ loop'.at \in {next, "save"}
          /\ (loop'.at = next <=> a # Error \/ call = "profit")
      BY <2>7 DEF LoopGates, LoopAsked
    <3>3. loop'.at = "save" => LoopDropped'
      BY <2>7, <3>1, <3>2 DEF LoopDropped
    <3>4. "sourcing" \in DOMAIN answers' /\ answers'["sourcing"] \notin {"nothing", Error}
      BY <2>1, <2>2, <2>7, <3>2 DEF LoopTold
    <3>5. /\ Told(loop.got, "gating")
          /\ call \in {"demand", "supplier"} => Told(loop.got, "profit")
          /\ call = "supplier" => Told(loop.got, "demand") /\ answers["demand"] # Error
      BY <2>1, <2>7, <3>2 DEF LoopTold
    <3>6. \A c \in Agents \ {call} : Told(loop.got, c) =>
             c \in DOMAIN loop'.got /\ c \in DOMAIN answers' /\ loop'.got[c] = answers'[c] /\ answers'[c] = answers[c]
      BY <2>2, <3>1 DEF Told
    <3>. QED  BY <2>7, <3>1, <3>2, <3>3, <3>4, <3>5, <3>6 DEF LoopTold, Told
  <2>8. ASSUME NEW a, LoopReviewed(a) PROVE LoopTold'
    <3>1. /\ Told(loop.got, "gating") /\ Told(loop.got, "profit") /\ Told(loop.got, "demand")
          /\ Told(loop.got, "supplier") /\ answers["demand"] # Error /\ answers["supplier"] # Error
          /\ "sourcing" \in DOMAIN answers /\ answers["sourcing"] \notin {"nothing", Error}
      BY <2>1, <2>8 DEF LoopTold, LoopReviewed
    <3>2. loop'.item = loop.item /\ loop'.got = loop.got /\ loop'.at = "save"
          /\ "review" \in DOMAIN answers' /\ answers'["review"] = a
      BY <2>8 DEF LoopReviewed, Hears
    <3>3. \A call \in {"gating", "profit", "demand", "supplier"} :
             /\ call \in DOMAIN loop'.got /\ call \in DOMAIN answers' /\ loop'.got[call] = answers'[call]
             /\ answers'[call] = answers[call] /\ loop.got[call] = answers'[call]
      BY <2>2, <3>1, <3>2 DEF Told
    <3>4. /\ ProfitMargin(loop.item, loop.got["profit"]) = ProfitMargin(loop'.item, answers'["profit"])
          /\ LoopMargin' = LoopMargin
      BY <3>2, <3>3 DEF LoopMargin, ProfitMargin
    <3>5. Scored(loop.got, loop.item, LoopMargin, ProfitMargin(loop.item, loop.got["profit"]), a) =
             Scored(answers', loop.item, LoopMargin, ProfitMargin(loop.item, loop.got["profit"]), a)
      BY <3>3, SameScores
    <3>6. loop'.deal = LoopScored'
      BY <2>8, <3>2, <3>4, <3>5 DEF LoopReviewed, LoopScored
    <3>7. loop'.deal = NoDeal => LoopDropped'
      BY <3>2, <3>3, <3>6 DEF LoopDropped
    <3>. QED  BY <2>2, <3>1, <3>2, <3>3, <3>6, <3>7 DEF LoopTold, Told
  <2>9. CASE LoopEnds
    <3>1. /\ loop'.item = loop.item /\ loop'.got = loop.got /\ loop'.deal = loop.deal
          /\ loop.at \in {"save", "complete", "fail"} /\ loop'.at \in {"complete", "ended"}
      BY <2>9 DEF LoopEnds
    <3>2. loop.deal # NoDeal => LoopScored' = LoopScored
      <4>1. loop.deal # NoDeal => Agents \subseteq DOMAIN answers
        BY <2>1 DEF LoopTold, Told
      <4>. QED  BY <2>1, <3>1, <4>1, LoopScoredKept
    <3>3. LoopDropped => LoopDropped'
      BY <2>1, <3>1, LoopDroppedKept
    <3>. QED  BY <2>1, <2>2, <3>1, <3>2, <3>3 DEF LoopTold, Told
  <2>. QED  BY <1>3, <2>3, <2>4, <2>5, <2>6, <2>7, <2>8, <2>9 DEF LoopMove
<1>4. Fresh \/ LoopMove \/ ((StepsMove \/ Aside) /\ Begun)
  BY PathsCases DEF StepsMove, Aside, Begun
<1>. QED  BY <1>1, <1>2, <1>3, <1>4

\* The steps make no deal only for a reason.
LEMMA StepsToldKept ==
    ASSUME PathsTyped, StepsGates, StepsTold, [Next]_vars
    PROVE  StepsTold'
<1>. SUFFICES ASSUME Begun', faults' = 0, steps'.at = "ended", steps'.deal = NoDeal PROVE StepsDropped'
  BY DEF StepsTold
<1>1. CASE Fresh
  BY <1>1 DEF Fresh
<1>2. CASE (LoopMove \/ Aside) /\ Begun
  <2>1. UNCHANGED steps /\ Grown /\ CampaignKept
    BY <1>2, SilentFacts DEF LoopMove, Aside
  <2>2. faults = 0 /\ StepsFilter' = StepsFilter
    BY <1>2, <2>1, Unfailing
  <2>3. StepsDropped
    BY <1>2, <2>1, <2>2 DEF StepsTold
  <2>. QED  BY <2>1, <2>2, <2>3, StepsDroppedKept
<1>3. CASE StepsMove
  <2>1. Begun /\ Grown /\ faults = 0 /\ StepsFilter' = StepsFilter
    BY <1>3, Unfailing DEF StepsMove
  <2>2. ASSUME NEW a, StepsReads(a) PROVE FALSE
    BY <2>2 DEF StepsReads
  <2>3. CASE StepsFiltered
    BY <2>1, <2>3 DEF StepsFiltered, StepsSame, StepsDropped
  <2>4. ASSUME NEW a, StepsListed(a) PROVE StepsDropped'
    BY <2>4 DEF StepsListed, StepsDropped, Hears
  <2>5. ASSUME NEW a, StepsGated(a) PROVE StepsDropped'
    BY <2>5 DEF StepsGated, StepsDropped, Hears
  <2>6. ASSUME NEW call \in {"profit", "demand", "supplier"}, NEW next \in {"demand", "supplier", "review"}, NEW a,
               StepsAsked(call, next, a)
        PROVE  StepsDropped'
    BY <2>6 DEF StepsAsked, StepsDropped, Hears
  <2>7. ASSUME NEW a, StepsReviewed(a) PROVE StepsDropped'
    <3>1. StepsScored' = NoDeal /\ Agents \subseteq DOMAIN answers'
      BY <2>1, <2>7, StepsReviewHeard DEF Agents
    <3>. QED  BY <3>1 DEF StepsDropped
  <2>8. CASE StepsEnds
    BY <2>1, <2>8, StepsEndHeard
  <2>. QED  BY <1>3, <2>2, <2>3, <2>4, <2>5, <2>6, <2>7, <2>8 DEF StepsMove
<1>4. Fresh \/ StepsMove \/ ((LoopMove \/ Aside) /\ Begun)
  BY PathsCases DEF LoopMove, Aside, Begun
<1>. QED  BY <1>1, <1>2, <1>3, <1>4

\* The pricing call answers both paths alike.
LEMMA SameItemKept ==
    ASSUME PathsTyped, LoopTold, SameItem, [Next]_vars
    PROVE  SameItem'
<1>. SUFFICES ASSUME Begun', faults' = 0 PROVE SameItem'
  BY DEF SameItem
<1>1. CASE Fresh
  BY <1>1 DEF Fresh, SameItem, Unread
<1>2. CASE ~Fresh
  <2>1. Begun /\ Grown /\ CampaignKept /\ (LoopMove \/ StepsMove \/ Aside)
    BY <1>2, PathsCases, SilentFacts DEF LoopMove, StepsMove, Aside, Begun
  <2>2. faults = 0
    BY <2>1, Unfailing
  <2>3. \A call \in DOMAIN answers : call \in DOMAIN answers' /\ answers'[call] = answers[call]
    BY <2>1 DEF Grown
  <2>4. PICK p \in Candidates :
            /\ IF steps.at = "enrich" THEN steps.item = p
               ELSE "enrich" \in DOMAIN answers /\ steps.item = Enriched(p, answers["enrich"])
            /\ IF loop.at \in Unread THEN loop.item = p
               ELSE /\ "sourcing" \in DOMAIN answers
                    /\ answers["sourcing"] \notin {"nothing", Error} =>
                          "enrich" \in DOMAIN answers /\ loop.item = Enriched(p, answers["enrich"])
    BY <2>1, <2>2 DEF SameItem
  <2>5. IF steps'.at = "enrich" THEN steps'.item = p
        ELSE "enrich" \in DOMAIN answers' /\ steps'.item = Enriched(p, answers'["enrich"])
    <3>1. CASE LoopMove \/ Aside
      BY <2>3, <2>4, <3>1 DEF LoopMove, Aside
    <3>2. ASSUME NEW a, StepsReads(a)
          PROVE  "enrich" \in DOMAIN answers' /\ steps'.item = Enriched(p, answers'["enrich"]) /\ steps'.at # "enrich"
      BY <2>4, <3>2 DEF StepsReads, Hears
    <3>3. CASE StepsMove /\ ~ \E a : StepsReads(a)
      <4>1. steps.at # "enrich" /\ steps'.at # "enrich" /\ steps'.item = steps.item
        BY <3>3 DEF StepsMove, StepsFiltered, StepsSame, StepsListed, StepsGated, StepsAsked, StepsReviewed, StepsEnds
      <4>. QED  BY <2>3, <2>4, <4>1
    <3>. QED  BY <2>1, <3>1, <3>2, <3>3
  <2>. DEFINE Alike == IF loop'.at \in Unread THEN loop'.item = p
                      ELSE /\ "sourcing" \in DOMAIN answers'
                           /\ answers'["sourcing"] \notin {"nothing", Error} =>
                                 "enrich" \in DOMAIN answers' /\ loop'.item = Enriched(p, answers'["enrich"])
  <2>6. Alike
    <3>. USE DEF Unread
    <3>1. CASE StepsMove \/ Aside
      BY <2>3, <2>4, <3>1 DEF StepsMove, Aside
    <3>2. CASE LoopBegins
      BY <2>4, <3>2 DEF LoopBegins, LoopSame
    <3>3. ASSUME NEW a, LoopFinds(a) PROVE Alike
      BY <2>4, <3>3 DEF LoopFinds, LoopSame, Hears
    <3>4. ASSUME NEW a \in Answers["enrich"] \cup {Error}, LoopReads(a) PROVE Alike
      <4>1. loop.at = "enrich" /\ "enrich" \in DOMAIN answers' /\ answers'["enrich"] = a
            /\ loop'.item = (IF a = Error THEN loop.item ELSE Enriched(loop.item, a)) /\ loop'.at \in {"gating", "save"}
        BY <3>4 DEF LoopReads, Hears
      <4>2. a # Error
        BY <2>1, <4>1, PathsAssumption DEF Grown
      <4>3. "sourcing" \in DOMAIN answers
        BY <2>1, <2>2, <4>1 DEF LoopTold, LoopHas
      <4>. QED  BY <2>3, <2>4, <4>1, <4>2, <4>3
    <3>5. CASE LoopEnds \/ (\E a : LoopGated(a)) \/ (\E a : LoopAsked("profit", "demand", a))
               \/ (\E a : LoopAsked("demand", "supplier", a)) \/ (\E a : LoopAsked("supplier", "review", a))
               \/ (\E a : LoopReviewed(a))
      <4>1. loop.at \notin Unread /\ loop'.at \notin Unread /\ loop'.item = loop.item
        BY <3>5 DEF LoopEnds, LoopGated, LoopAsked, LoopReviewed
      <4>. QED  BY <2>3, <2>4, <4>1
    <3>. QED  BY <2>1, <3>1, <3>2, <3>3, <3>4, <3>5 DEF LoopMove
  <2>. QED  BY <2>5, <2>6 DEF SameItem
<1>. QED  BY <1>1, <1>2

\* The invariant that the two theorems on the paths rest on.
THEOREM PathsInvariance == Spec => []PathsInv
<1>1. PathsInv /\ [Next]_vars => PathsInv'
  BY PathsTypedKept, LoopGatesKept, StepsGatesKept, LoopToldKept, StepsToldKept, SameItemKept DEF PathsInv
<1>. QED  BY <1>1, InitPathsInv, PTL DEF Spec

\* A calculated margin is a number.
LEMMA CalculatedIsInt ==
    ASSUME NEW p \in Candidates, CalcPrice(p) > 0
    PROVE  Calculated(p) \in Int
<1>1. CalcPrice(p) \in Nat /\ p.wholesale \in Nat
  BY DEF CalcPrice, Candidates
<1>. QED  BY <1>1 DEF Calculated, NetMargin

\* A deal of either path went through its gates, whatever failed and whatever the
\* list became meanwhile: the state formula GatesHold follows from the places,
\* the calculated margin and the rules on what the agents claim.
LEMMA GatesHoldInv ==
    ASSUME PathsInv
    PROVE  GatesHold
<1>0. PathsTyped /\ LoopGates /\ StepsGates
  BY DEF PathsInv
<1>1. ASSUME loop.deal # NoDeal
      PROVE  /\ EnoughSellers(loop.item.sellers) /\ loop.item.titled
             /\ IF campaign.prefers # {} THEN loop.item.brand \in campaign.prefers \cup {NoBrand}
                                         ELSE loop.item.brand \notin campaign.own \ {NoBrand}
             /\ CalcPrice(loop.item) > 0 => Calculated(loop.item) >= MinMargin
             /\ MinMargin > 0 => CalcPrice(loop.item) > 0
             /\ loop.got["gating"].said = "passed"
  <2>1. /\ EnoughSellers(loop.item.sellers) /\ loop.item.titled /\ IsBrandAllowed(loop.item.brand, LoopFilter)
        /\ PassesLoop(loop.got["gating"]) /\ LoopMargin >= MinMargin
    BY <1>0, <1>1 DEF LoopGates, LoopHas
  <2>2. IF campaign.prefers # {} THEN loop.item.brand \in campaign.prefers \cup {NoBrand}
                                 ELSE loop.item.brand \notin campaign.own \ {NoBrand}
    BY <2>1 DEF IsBrandAllowed, LoopFilter
  <2>3. /\ CalcPrice(loop.item) > 0 => Calculated(loop.item) >= MinMargin
        /\ MinMargin > 0 => CalcPrice(loop.item) > 0
    BY <2>1, RulesAssumption DEF LoopMargin
  <2>. QED  BY <2>1, <2>2, <2>3 DEF PassesLoop
<1>2. ASSUME steps.deal # NoDeal
      PROVE  /\ EnoughSellers(steps.item.sellers) /\ steps.item.titled
             /\ steps.item.brand \notin (campaign.own \cup campaign.known) \ {NoBrand}
             /\ answers["listing"] # "refused"
             /\ MarginMet(steps.item.price)
             /\ IF Claimed(steps.got) # NoValue THEN Claimed(steps.got) >= MinMargin
                ELSE /\ CalcPrice(steps.item) > 0 => Calculated(steps.item) >= MinMargin
                     /\ steps.item.found /\ steps.item.price = 0 => MinMargin = 0
  <2>1. /\ EnoughSellers(steps.item.sellers) /\ IsBrandAllowed(steps.item.brand, StepsFilter)
        /\ MarginMet(steps.item.price) /\ answers["listing"] # "refused" /\ StepsScored # NoDeal
        /\ Told(steps.got, "demand") /\ Told(steps.got, "supplier")
    BY <1>0, <1>2 DEF StepsGates, StepsHas
  <2>2. steps.item.brand \notin (campaign.own \cup campaign.known) \ {NoBrand}
    BY <1>0, <2>1 DEF IsBrandAllowed, StepsFilter, PathsTyped
  <2>3. /\ steps.item.titled
        /\ LET m == Merged(<<steps.item.margin, StepsMarginHeard, answers["demand"].margin,
                             answers["supplier"].margin>>)
           IN m # NoValue => m >= MinMargin
    BY <2>1, RulesOfDeal DEF StepsScored
  <2>4. Claimed(steps.got) =
           IF answers["supplier"].margin # NoValue THEN answers["supplier"].margin ELSE answers["demand"].margin
    BY <2>1, MergedTwo DEF Claimed, Told
  <2>5. CASE Claimed(steps.got) # NoValue
    <3>1. Merged(<<steps.item.margin, StepsMarginHeard, answers["demand"].margin,
                   answers["supplier"].margin>>) = Claimed(steps.got)
      BY <2>4, <2>5, MergedFour
    <3>. QED  BY <2>1, <2>2, <2>3, <2>5, <3>1
  <2>6. CASE Claimed(steps.got) = NoValue
    <3>1. StepsMarginHeard # NoValue => StepsMarginHeard >= MinMargin
      <4>1. StepsMarginHeard # NoValue =>
               Merged(<<steps.item.margin, StepsMarginHeard, answers["demand"].margin,
                        answers["supplier"].margin>>) = StepsMarginHeard
        BY <2>4, <2>6, MergedFour
      <4>. QED  BY <2>3, <4>1
    <3>2. steps.item \in Candidates /\ FoundUnpriced(steps.item)
      BY <1>0, <1>2 DEF PathsTyped, Idle
    <3>3. CalcPrice(steps.item) > 0 => Calculated(steps.item) >= MinMargin
      <4>1. CalcPrice(steps.item) > 0 => StepsMarginHeard = Calculated(steps.item)
        BY DEF StepsMarginHeard, ProfitMargin
      <4>2. CalcPrice(steps.item) > 0 => Calculated(steps.item) \in Int
        BY <3>2, CalculatedIsInt
      <4>. QED  BY <3>1, <4>1, <4>2, RulesAssumption
    <3>4. steps.item.found /\ steps.item.price = 0 => MinMargin = 0
      <4>1. steps.item.found /\ steps.item.price = 0 => StepsMarginHeard = 0 /\ 0 # NoValue
        BY <3>2, RulesAssumption DEF FoundUnpriced, CalcPrice, StepsMarginHeard
      <4>. QED  BY <3>1, <4>1, RulesAssumption
    <3>. QED  BY <2>1, <2>2, <2>3, <2>6, <3>3, <3>4
  <2>. QED  BY <2>5, <2>6
<1>. QED  BY <1>1, <1>2 DEF GatesHold

\* No interleaving of the two paths, no failure, no passed deadline and no edit of
\* the list brings a deal past a gate, for any candidates, answers and thresholds:
\* the brand that a campaign was told to leave out, the number of sellers, Amazon's
\* refusal, and the margin, which is the calculated one in the loop and may be an
\* agent's claim in the steps (pipeline_orchestrator.go:86-162,
\* tool_resolver.go:90-117, client.go:267-419, reviewer.go:43-61).
THEOREM DealsPassTheGates == Spec => []GatesHold
BY PathsInvariance, GatesHoldInv, PTL

\* With a price, the two paths score the same answers alike.
LEMMA ScoredAlike ==
    ASSUME loop.item = steps.item, CalcPrice(steps.item) \in Nat, CalcPrice(steps.item) > 0
    PROVE  LoopScored = StepsScored
<1>1. /\ LoopMargin = Calculated(steps.item)
      /\ ProfitMargin(loop.item, answers["profit"]) = Calculated(steps.item)
      /\ StepsMarginHeard = Calculated(steps.item)
  BY DEF LoopMargin, ProfitMargin, StepsMarginHeard
<1>. QED  BY <1>1 DEF LoopScored, StepsScored

\* Where nothing failed, what the two paths read and heard decides whether they agree.
LEMMA PathsAgreeInv ==
    ASSUME PathsInv
    PROVE  PathsAgree
<1>. SUFFICES ASSUME Done, faults = 0, Begun PROVE PathsAgree
  BY DEF PathsAgree, Begun
<1>0. PathsTyped /\ LoopGates /\ StepsGates /\ LoopTold /\ StepsTold /\ SameItem
  BY DEF PathsInv
<1>1. loop.at = "ended" /\ steps.at = "ended" /\ steps.item \in Candidates /\ CalcPrice(steps.item) \in Nat
      /\ steps.item.price \in Nat /\ steps.item.wholesale \in Nat
  BY <1>0 DEF Done, PathsTyped, Candidates, CalcPrice
<1>2. PICK p \in Candidates :
         /\ "enrich" \in DOMAIN answers /\ steps.item = Enriched(p, answers["enrich"])
         /\ "sourcing" \in DOMAIN answers
         /\ answers["sourcing"] \notin {"nothing", Error} => loop.item = Enriched(p, answers["enrich"])
  BY <1>0, <1>1 DEF SameItem, Unread
<1>3. answers["sourcing"] \notin {"nothing", Error} => loop.item = steps.item
  BY <1>2
<1>4. ASSUME loop.deal # NoDeal
      PROVE  /\ loop.item = steps.item /\ loop.deal = LoopScored
             /\ EnoughSellers(loop.item.sellers) /\ LoopMargin >= MinMargin
             /\ answers["gating"] # Error /\ PassesLoop(answers["gating"])
             /\ answers["demand"] # Error /\ answers["supplier"] # Error
  BY <1>0, <1>3, <1>4 DEF LoopGates, LoopTold, LoopHas, Told
<1>5. ASSUME steps.deal # NoDeal
      PROVE  /\ StepsScored # NoDeal
             /\ steps.deal \in {StepsScored, [StepsScored EXCEPT !.overall = StepsScored.composite]}
             /\ EnoughSellers(steps.item.sellers) /\ MarginMet(steps.item.price)
             /\ answers["gating"] # Error /\ answers["demand"] # Error /\ answers["supplier"] # Error
  BY <1>0, <1>5 DEF StepsGates, StepsHas
<1>6. ASSUME loop.deal # NoDeal, steps.deal # NoDeal, CalcPrice(loop.item) > 0
      PROVE  [loop.deal EXCEPT !.overall = 0] = [steps.deal EXCEPT !.overall = 0]
  <2>1. loop.deal = StepsScored
    BY <1>1, <1>4, <1>6, ScoredAlike
  <2>2. {"overall", "composite"} \subseteq DOMAIN loop.deal
    BY <1>6, <2>1, DealShape DEF StepsScored
  <2>3. [[loop.deal EXCEPT !.overall = loop.deal.composite] EXCEPT !.overall = 0] = [loop.deal EXCEPT !.overall = 0]
    BY <2>2
  <2>4. steps.deal \in {loop.deal, [loop.deal EXCEPT !.overall = loop.deal.composite]}
    BY <1>5, <1>6, <2>1
  <2>. QED  BY <2>3, <2>4
<1>7. ASSUME loop.deal # NoDeal, steps.deal = NoDeal, CalcPrice(loop.item) > 0
      PROVE  \/ "listing" \in DOMAIN answers /\ answers["listing"] = "refused"
             \/ answers["profit"] = Error
             \/ loop.item.brand \in campaign.block
             \/ loop.item.wholesale > 0 /\ ~MarginMet(loop.item.price)
  <2>1. StepsDropped
    BY <1>0, <1>1, <1>7 DEF StepsTold
  <2>2. /\ EnoughSellers(steps.item.sellers) /\ PassesSteps(answers["gating"])
        /\ ~MarginMet(steps.item.price) => steps.item.wholesale > 0
    <3>1. steps.item.wholesale = 0 => MarginMet(steps.item.price)
      BY <1>1, <1>4, <1>7 DEF LoopMargin, MarginMet, CalcPrice, Calculated
    <3>. QED  BY <1>1, <1>4, <1>7, <3>1 DEF PassesLoop, PassesSteps
  <2>3. StepsScored # NoDeal
    BY <1>1, <1>4, <1>7, ScoredAlike
  <2>4. ~IsBrandAllowed(steps.item.brand, StepsFilter) => loop.item.brand \in campaign.block
    BY <1>4, <1>7 DEF IsBrandAllowed, StepsFilter
  <2>. QED  BY <1>4, <1>7, <2>1, <2>2, <2>3, <2>4 DEF StepsDropped
<1>8. ASSUME loop.deal = NoDeal, steps.deal # NoDeal
      PROVE  \/ answers["sourcing"] \in {"nothing", Error}
             \/ answers["gating"].said # "passed"
             \/ CalcPrice(steps.item) = 0
             \/ /\ steps.item.wholesale > 0 \/ steps.item.price = 0
                /\ Calculated(steps.item) < MinMargin
                /\ Claimed(steps.got) # NoValue /\ Claimed(steps.got) >= MinMargin
             \/ ~IsBrandAllowed(steps.item.brand, LoopFilter)
  <2>. SUFFICES ASSUME answers["sourcing"] \notin {"nothing", Error}, CalcPrice(steps.item) # 0,
                       answers["gating"].said = "passed", IsBrandAllowed(steps.item.brand, LoopFilter),
                       ~(/\ steps.item.wholesale > 0 \/ steps.item.price = 0
                         /\ Calculated(steps.item) < MinMargin
                         /\ Claimed(steps.got) # NoValue /\ Claimed(steps.got) >= MinMargin)
                PROVE  FALSE
    OBVIOUS
  <2>1. LoopDropped
    BY <1>0, <1>1, <1>8 DEF LoopTold
  <2>2. loop.item = steps.item /\ CalcPrice(steps.item) > 0
    BY <1>1, <1>3
  <2>3. EnoughSellers(loop.item.sellers) /\ LoopMargin >= MinMargin /\ PassesLoop(answers["gating"])
    <3>1. Calculated(steps.item) \in Int
      BY <1>1, <2>2, CalculatedIsInt
    <3>2. IF Claimed(steps.got) # NoValue THEN Claimed(steps.got) >= MinMargin
          ELSE Calculated(steps.item) >= MinMargin
      BY <1>8, <2>2, GatesHoldInv DEF GatesHold
    <3>3. ~(steps.item.wholesale > 0 \/ steps.item.price = 0) => Calculated(steps.item) >= MinMargin
      BY <1>1, <1>5, <1>8 DEF MarginMet, CalcPrice, Calculated
    <3>4. Calculated(steps.item) >= MinMargin
      BY <3>1, <3>2, <3>3, RulesAssumption
    <3>. QED  BY <1>5, <1>8, <2>2, <3>4 DEF LoopMargin, PassesLoop
  <2>4. LoopScored # NoDeal
    BY <1>1, <1>5, <1>8, <2>2, ScoredAlike
  <2>. QED  BY <1>5, <1>8, <2>1, <2>2, <2>3, <2>4 DEF LoopDropped
<1>. QED  BY <1>6, <1>7, <1>8 DEF PathsAgree

\* Without a failure the loop and the steps decide alike on every candidate with a
\* price, Amazon's or its own, but for the reasons listed, in whatever order the two ask and whatever
\* they are answered (pipeline_orchestrator.go:65-318, client.go:241-569).
THEOREM PathsDecideAlike == Spec => []PathsAgree
BY PathsInvariance, PathsAgreeInv, PTL

\* The status that belongs to the loop's place, unless writing it went wrong.
StatusOfPlace ==
    \/ campaign.broken \/ campaign.late
    \/ loop.at = "start" /\ campaign.status = "pending"
    \/ loop.at \notin {"start", "ended"} /\ campaign.status = "running"
    \/ loop.at = "ended" /\ campaign.status \in {"none", "completed", "failed"}

\* The status follows the loop; the steps and the list leave both alone.
LEMMA StatusOfPlaceKept ==
    ASSUME PathsTyped, StatusOfPlace, [Next]_vars
    PROVE  StatusOfPlace'
<1>0. /\ "at" \in DOMAIN loop
      /\ DOMAIN campaign = {"own", "prefers", "block", "known", "status", "late", "broken"}
  BY DEF PathsTyped, IsPath, IsCampaign
<1>1. ASSUME NEW status, Settle(status)
      PROVE  /\ campaign' = [campaign EXCEPT !.status = status] \/ campaign'.broken \/ campaign'.late
             /\ campaign.broken \/ campaign.late => campaign'.broken \/ campaign'.late
  BY <1>0, <1>1 DEF Settle
<1>2. ASSUME NEW p \in Products, NEW wish \in Wishes, Create(p, wish) PROVE StatusOfPlace'
  <2>1. loop'.at = "start" /\ campaign'.status = "pending"
    BY <1>2 DEF Create, Idle
  <2>. QED  BY <2>1 DEF StatusOfPlace
<1>3. CASE Expire
  BY <1>0, <1>3 DEF Expire, StatusOfPlace
<1>4. CASE LoopStart
  <2>1. /\ loop.at = "start" /\ Settle("running")
        /\ loop' = [loop EXCEPT !.at = IF campaign'.status = "running" THEN "config" ELSE "ended"]
    BY <1>4 DEF LoopStart, LoopTo
  <2>2. CASE campaign' = [campaign EXCEPT !.status = "running"]
    <3>1. campaign'.status = "running" /\ loop'.at = "config"
      BY <1>0, <2>1, <2>2
    <3>. QED  BY <3>1 DEF StatusOfPlace
  <2>3. CASE campaign'.broken \/ campaign'.late
    BY <2>3 DEF StatusOfPlace
  <2>. QED  BY <1>1, <2>1, <2>2, <2>3
<1>5. CASE LoopConfig
  <2>1. \/ loop.at = "config" /\ loop' = [loop EXCEPT !.at = "sourcing"] /\ UNCHANGED campaign
        \/ campaign.late /\ UNCHANGED campaign
        \/ campaign' = [campaign EXCEPT !.broken = TRUE]
    BY <1>5 DEF LoopConfig, LoopTo
  <2>. QED  BY <1>0, <2>1 DEF StatusOfPlace
<1>6. ASSUME UNCHANGED campaign, loop.at \notin {"start", "ended"}, loop'.at \notin {"start", "ended"}
      PROVE  StatusOfPlace'
  BY <1>6 DEF StatusOfPlace
<1>7. CASE LoopSourcing
  BY <1>0, <1>6, <1>7 DEF LoopSourcing, LoopTo
<1>8. CASE LoopFilters
  BY <1>0, <1>6, <1>8 DEF LoopFilters
<1>9. CASE LoopGating
  BY <1>0, <1>6, <1>9 DEF LoopGating
<1>10. ASSUME NEW call \in {"profit", "demand", "supplier"}, NEW next \in {"demand", "supplier", "review"},
              LoopAgent(call, next)
       PROVE  StatusOfPlace'
  BY <1>0, <1>6, <1>10 DEF LoopAgent
<1>11. CASE LoopReview \/ LoopSave
  BY <1>0, <1>6, <1>11 DEF LoopReview, LoopSave, LoopTo
<1>12. CASE LoopEnd
  <2>1. /\ Settle("completed") \/ Settle("failed")
        /\ loop' = [loop EXCEPT !.at = "ended"]
    BY <1>12 DEF LoopEnd, LoopTo
  <2>2. /\ loop'.at = "ended"
        /\ campaign'.broken \/ campaign'.late \/ campaign'.status \in {"completed", "failed"}
    BY <1>0, <1>1, <2>1
  <2>. QED  BY <2>2 DEF StatusOfPlace
<1>13. CASE LoopStep
  BY <1>4, <1>5, <1>7, <1>8, <1>9, <1>10, <1>11, <1>12, <1>13 DEF LoopStep
<1>14. CASE StepsStep
  <2>1. UNCHANGED <<campaign, loop>>
    BY <1>14 DEF StepsStep, StepsEnrich, StepsPreGate, StepsListing, StepsGating, StepsAgent, StepsReview,
                 StepsSave, StepsOnly
  <2>. QED  BY <2>1 DEF StatusOfPlace
<1>15. CASE (\E b \in Brands : EditBlocklist(b)) \/ UNCHANGED vars
  BY <1>15 DEF EditBlocklist, vars, StatusOfPlace
<1>. QED  BY <1>2, <1>3, <1>13, <1>14, <1>15 DEF Next

\* However the goroutine ends, its campaign is settled, or one of the three
\* failures that leave it unsettled happened (pipeline_service.go:22-74,
\* campaign_service.go:69-78).
THEOREM LoopSettles == Spec => []EndSettles
<1>1. Init => StatusOfPlace
  BY DEF Init, Idle, StatusOfPlace
<1>2. PathsTyped /\ StatusOfPlace /\ [Next]_vars => StatusOfPlace'
  BY StatusOfPlaceKept
<1>3. StatusOfPlace => EndSettles
  BY DEF StatusOfPlace, EndSettles
<1>4. PathsInv => PathsTyped
  BY DEF PathsInv
<1>. QED  BY <1>1, <1>2, <1>3, <1>4, PathsInvariance, PTL DEF Spec
-----------------------------------------------------------------------------
(* The review of a deal: DealReview, where requests do not overlap.        *)

\* One request at a time; what it checked before it writes is still true.
Alone == \A q, r \in Reviewers : request[q].at # "idle" /\ request[r].at # "idle" => q = r

UnderWay ==
    \A r \in Reviewers :
        /\ request[r].at = "update" => deal = "needs_review"
        /\ request[r].at = "emit" => deal = request[r].decision /\ events = <<>>

Undecided == deal = "needs_review" => events = <<>>

ReviewInv == LogAgrees /\ Alone /\ UnderWay /\ Undecided
-----------------------------------------------------------------------------
\* Nothing is decided or asked for at first.
LEMMA InitReviewInv == ReviewInit => ReviewInv
<1>. SUFFICES ASSUME ReviewInit PROVE ReviewInv
  OBVIOUS
<1>1. LogAgrees
  BY MaxRequestsAssumption DEF ReviewInit, LogAgrees, TypeOK, Decisions
<1>. QED  BY <1>1 DEF ReviewInit, ReviewInv, Alone, UnderWay, Undecided

\* What a request's change of itself leaves alone.
LEMMA Others ==
    ASSUME TypeOK, NEW r \in Reviewers, NEW x, request' = [request EXCEPT ![r] = x]
    PROVE  request'[r] = x /\ \A q \in Reviewers \ {r} : request'[q] = request[q]
BY DEF TypeOK

\* A step of one request among requests that do not overlap.
LEMMA NextReviewInv == ASSUME Overlap = FALSE PROVE ReviewInv /\ [ReviewNext]_reviewVars => ReviewInv'
<1>. SUFFICES ASSUME ReviewInv, [ReviewNext]_reviewVars PROVE ReviewInv'
  OBVIOUS
<1>. USE DEF ReviewInv, LogAgrees
<1>1. ASSUME NEW r \in Reviewers, NEW decision \in Decisions, Read(r, decision) PROVE ReviewInv'
  <2>. DEFINE x == [at |-> IF Allowed(deal, decision) THEN "update" ELSE "idle",
                    decision |-> decision, count |-> request[r].count + 1]
  <2>1. request' = [request EXCEPT ![r] = x] /\ UNCHANGED <<deal, events>>
    BY <1>1 DEF Read
  <2>2. request'[r] = x /\ \A q \in Reviewers \ {r} : request'[q] = request[q]
    BY <2>1, Others
  <2>3. x \in [at : {"idle", "update", "emit"}, decision : Decisions, count : 0 .. MaxRequests]
    <3>1. request[r].count + 1 \in 0 .. MaxRequests
      BY <1>1, MaxRequestsAssumption DEF Read, TypeOK
    <3>2. x.at \in {"idle", "update", "emit"}
      BY Zenon
    <3>. QED  BY <3>1, <3>2
  <2>4. TypeOK'
    BY <2>1, <2>3 DEF TypeOK
  <2>5. \A q \in Reviewers : request[q].at = "idle"
    BY <1>1 DEF Read
  <2>6. x.at = "update" => deal = "needs_review"
    BY DEF Allowed
  <2>7. x.at # "emit"
    OBVIOUS
  <2>. HIDE DEF x
  <2>8. Alone' /\ UnderWay'
    BY <2>1, <2>2, <2>5, <2>6, <2>7 DEF Alone, UnderWay
  <2>. QED  BY <2>1, <2>4, <2>8 DEF Undecided
<1>2. ASSUME NEW r \in Reviewers, Update(r) PROVE ReviewInv'
  <2>. DEFINE x == [request[r] EXCEPT !.at = "emit"]
  <2>1. request' = [request EXCEPT ![r] = x] /\ deal' = request[r].decision /\ UNCHANGED events
    BY <1>2 DEF Update
  <2>2. request'[r] = x /\ \A q \in Reviewers \ {r} : request'[q] = request[q]
    BY <2>1, Others
  <2>3. x \in [at : {"idle", "update", "emit"}, decision : Decisions, count : 0 .. MaxRequests]
        /\ x.at = "emit" /\ x.decision = request[r].decision
    BY DEF TypeOK
  <2>4. TypeOK'
    BY <2>1, <2>3 DEF TypeOK
  <2>5. events = <<>> /\ \A q \in Reviewers \ {r} : request[q].at = "idle"
    BY <1>2 DEF Update, UnderWay, Undecided, Alone
  <2>. HIDE DEF x
  <2>6. Alone' /\ UnderWay'
    BY <2>1, <2>2, <2>3, <2>5 DEF Alone, UnderWay
  <2>7. (\A i \in DOMAIN events : events[i].decision = deal)'
    BY <2>1, <2>5
  <2>. QED  BY <2>1, <2>4, <2>5, <2>6, <2>7 DEF Undecided
<1>3. ASSUME NEW r \in Reviewers, request[r].at # "idle", request' = Stopped(r),
             UNCHANGED deal,
             events' = events \/ (request[r].at = "emit" /\ events' = Logged(r))
      PROVE  ReviewInv'
  <2>. DEFINE x == [request[r] EXCEPT !.at = "idle"]
              entry == [by |-> r, decision |-> request[r].decision]
  <2>1. request' = [request EXCEPT ![r] = x]
    BY <1>3 DEF Stopped
  <2>2. request'[r] = x /\ \A q \in Reviewers \ {r} : request'[q] = request[q]
    BY <2>1, Others
  <2>3. x \in [at : {"idle", "update", "emit"}, decision : Decisions, count : 0 .. MaxRequests]
        /\ x.at = "idle"
    BY DEF TypeOK
  <2>4. \A q \in Reviewers \ {r} : request[q].at = "idle"
    BY <1>3 DEF Alone
  <2>5. entry \in [by : Reviewers, decision : Decisions] /\ entry.decision = request[r].decision
    BY DEF TypeOK
  <2>. HIDE DEF x, entry
  <2>6. events' = events \/ (request[r].at = "emit" /\ events = <<>> /\ events' = <<entry>> /\ request[r].decision = deal)
    <3>1. CASE events' = events
      BY <3>1
    <3>2. CASE request[r].at = "emit" /\ events' = Logged(r)
      <4>1. events = <<>> /\ request[r].decision = deal
        BY <3>2 DEF UnderWay
      <4>2. events' = Append(events, entry)
        BY <3>2 DEF Logged, entry
      <4>3. Append(<<>>, entry) = <<entry>>
        OBVIOUS
      <4>. QED  BY <3>2, <4>1, <4>2, <4>3
    <3>. QED  BY <1>3, <3>1, <3>2
  <2>7. Alone' /\ UnderWay'
    BY <2>2, <2>3, <2>4 DEF Alone, UnderWay
  <2>8. CASE events' = events
    BY <1>3, <2>1, <2>3, <2>7, <2>8 DEF TypeOK, Undecided
  <2>9. CASE request[r].at = "emit" /\ events = <<>> /\ events' = <<entry>> /\ request[r].decision = deal
    <3>1. TypeOK'
      BY <1>3, <2>1, <2>3, <2>5, <2>9 DEF TypeOK
    <3>2. deal \in Decisions /\ deal # "needs_review"
      BY <2>9 DEF TypeOK, Decisions
    <3>3. Len(events') = 1 /\ events'[1] = entry /\ DOMAIN events' = {1}
      BY <2>9
    <3>4. (\A i \in DOMAIN events : events[i].decision = deal)'
      BY <1>3, <2>5, <2>9, <3>3
    <3>. QED  BY <1>3, <2>7, <3>1, <3>2, <3>3, <3>4 DEF Undecided
  <2>. QED  BY <2>6, <2>8, <2>9
<1>4. ASSUME NEW r \in Reviewers, Emit(r) \/ Stop(r) PROVE ReviewInv'
  BY <1>3, <1>4 DEF Emit, Stop
<1>5. CASE UNCHANGED reviewVars
  BY <1>5 DEF reviewVars, TypeOK, Alone, UnderWay, Undecided
<1>. QED  BY <1>1, <1>2, <1>4, <1>5 DEF ReviewNext

\* One request at a time, which may fail or stop anywhere: the log holds at most
\* one decision, the one that the row holds (deal_service.go:69-111).
THEOREM OneStory == ASSUME Overlap = FALSE PROVE ReviewSpec => []LogAgrees
<1>1. ReviewInv /\ [ReviewNext]_reviewVars => ReviewInv'
  BY NextReviewInv
<1>2. ReviewInv => LogAgrees
  BY DEF ReviewInv
<1>. QED  BY <1>1, <1>2, InitReviewInv, PTL DEF ReviewSpec

\* Under the same premise a decision is never replaced: only a row in review
\* passes the check, and it is still in review when it is written.
THEOREM DecidedForGood == ASSUME Overlap = FALSE PROVE ReviewSpec => DecisionsFinal
<1>1. ReviewInv /\ [ReviewNext]_reviewVars => ReviewInv'
  BY NextReviewInv
<1>2. ReviewInv /\ [ReviewNext]_reviewVars => [(deal \in Decisions) => (deal' = deal)]_reviewVars
  <2>. SUFFICES ASSUME ReviewInv, ReviewNext, deal \in Decisions PROVE deal' = deal
    OBVIOUS
  <2>1. ASSUME NEW r \in Reviewers, Update(r) PROVE FALSE
    BY <2>1 DEF ReviewInv, UnderWay, Update, Decisions
  <2>. QED  BY <2>1 DEF ReviewNext, Read, Emit, Stop
<1>. QED  BY <1>1, <1>2, InitReviewInv, PTL DEF ReviewSpec, DecisionsFinal
=============================================================================
