---------------------------- MODULE VerdictProofs ----------------------------
(***************************************************************************)
(* Proofs about the verdicts of the backend.  Of a connection              *)
(* (PreSession): what is decided without the language model is decided     *)
(* with confidence, reconnecting sprays are only cleared by a sure model,  *)
(* and the whitelist stands.  Of a lookup (VpnLookup): a provider is not   *)
(* asked if those before were sure.  Of a session (ThreatScores): it is    *)
(* judged by what the model said of it lately.  Of a log line              *)
(* (IpCorrelation): it counts for one client.  For any user names, times,  *)
(* models and any number of connections, lookups and sessions.             *)
(***************************************************************************)
EXTENDS PreSession, VpnLookup, ThreatScores, IpCorrelation, FiniteSetTheorems, TLAPS

-----------------------------------------------------------------------------
(* The rule table. *)

RuleOK(rule) ==
    rule.says \in {"real", "honeypot", "undecided"} /\ rule.conf \in 50 .. 100

\* The rule that counts is one that fires, and none before it does.
LEMMA FirstRule ==
    ASSUME NEW s, NEW reconnect
    PROVE  \E i \in 1 .. 18 :
             /\ Recommendation(s, reconnect) = Rules(s, reconnect)[i]
             /\ Rules(s, reconnect)[i].fires
             /\ \A j \in 1 .. 18 : Rules(s, reconnect)[j].fires => i <= j
<1> DEFINE table == Rules(s, reconnect)
           Firing == {i \in 1 .. 18 : table[i].fires}
           First(i) == table[i].fires /\ \A j \in DOMAIN table : table[j].fires => i <= j
<1>1. DOMAIN table = 1 .. 18 /\ table[18].fires
  BY DEF Rules, Rule
<1> HIDE DEF table
<1>2. \E i \in Firing : \A j \in Firing : i <= j
  <2>1. Firing \in SUBSET Nat /\ Firing # {}
    BY <1>1
  <2> QED BY <2>1
<1>3. \E i \in DOMAIN table : First(i)
  BY <1>1, <1>2
<1>4. Recommendation(s, reconnect) = table[CHOOSE i \in DOMAIN table : First(i)]
  BY DEF Recommendation, table
<1>5. First(CHOOSE i \in DOMAIN table : First(i)) /\ (CHOOSE i \in DOMAIN table : First(i)) \in DOMAIN table
  BY <1>3
<1> QED BY <1>1, <1>4, <1>5 DEF table

\* Every rule says one of three things, with a confidence of at least 50.
LEMMA RuleRange ==
    ASSUME NEW s, NEW reconnect, NEW i \in 1 .. 18
    PROVE  /\ Rules(s, reconnect)[i].says \in {"real", "honeypot", "undecided"}
           /\ Rules(s, reconnect)[i].conf \in 50 .. 100
BY DEF Rules, Rule

\* So does the one that counts.
LEMMA RecommendationRange ==
    ASSUME NEW s, NEW reconnect
    PROVE  RuleOK(Recommendation(s, reconnect))
BY FirstRule, RuleRange DEF RuleOK

\* The whitelist is the first rule.
LEMMA WhitelistFirst ==
    ASSUME NEW s, NEW reconnect, "whitelist" \in s.marks
    PROVE  /\ Recommendation(s, reconnect).says = "real"
           /\ Recommendation(s, reconnect).conf = 100
<1>1. Rules(s, reconnect)[1] = Rule(TRUE, "real", 100)
  BY DEF Rules, Rule
<1>2. PICK i \in 1 .. 18 : /\ Recommendation(s, reconnect) = Rules(s, reconnect)[i]
                          /\ \A j \in 1 .. 18 : Rules(s, reconnect)[j].fires => i <= j
  BY FirstRule
<1>3. i = 1
  BY <1>1, <1>2 DEF Rule
<1> QED BY <1>1, <1>2, <1>3 DEF Rule

\* A spray, or a reconnect, without a key and off the whitelist meets a rule
\* for the honeypot before any rule for the real server.
LEMMA SprayToHoneypot ==
    ASSUME NEW s, NEW reconnect, "whitelist" \notin s.marks, ~Key(s), s.attempts \in Nat,
           s.attempts >= 4 \/ reconnect
    PROVE  Recommendation(s, reconnect).says = "honeypot"
<1> DEFINE table == Rules(s, reconnect)
<1>1. PICK i \in 1 .. 18 : /\ Recommendation(s, reconnect) = table[i]
                          /\ table[i].fires
                          /\ \A j \in 1 .. 18 : table[j].fires => i <= j
  BY FirstRule
<1>2. ~table[1].fires /\ ~table[5].fires
  BY DEF Rules, Rule
<1>3. table[7].fires \/ table[12].fires
  BY DEF Rules, Rule
<1>4. i <= 12 /\ i # 1 /\ i # 5
  <2> HIDE DEF table
  <2> QED BY <1>1, <1>2, <1>3
<1>5. \A j \in 2 .. 12 : j # 5 => table[j].says = "honeypot"
  BY DEF Rules, Rule
<1> HIDE DEF table
<1> QED BY <1>1, <1>4, <1>5

-----------------------------------------------------------------------------
(* The model and the arbitration. *)

ModelOK(ml) ==
    ml.level # "none" => ml.says \in {"real", "honeypot"} /\ ml.conf \in 50 .. 100

\* What is decided is decided with at least 75; against a rule for the honeypot
\* a model must be 85 sure, and against a certain rule for the real server
\* nothing helps.
VerdictOK(rule, v) ==
    /\ v.says \in {"inconclusive", "real", "honeypot"}
    /\ v.conf \in 0 .. 100
    /\ v.says # "inconclusive" => v.conf >= 75
    /\ rule.says = "honeypot" /\ v.says = "real" => v.conf >= 85
    /\ rule.says = "real" /\ rule.conf = 100 => v.says # "honeypot"

\* A model that answers names a class with at least 50.
LEMMA ModelRange ==
    ASSUME NEW p \in ModelAnswers
    PROVE  ModelOK(MlVerdict(p))
BY PreSessionConstantsOK DEF PreSessionConstantsOK, MlVerdict, ModelOK

\* The arbitration keeps to this.
LEMMA Arbitrated ==
    ASSUME NEW rule, NEW ml, RuleOK(rule), ModelOK(ml)
    PROVE  VerdictOK(rule, Arbitrate(rule, ml))
<1> USE DEF RuleOK, ModelOK, VerdictOK, Arbitrate, Verdict, Inconclusive, Larger, Smaller
<1>1. CASE ml.level = "none"
  BY <1>1
<1>2. CASE ml.level # "none" /\ rule.says = "undecided"
  BY <1>2
<1>3. CASE ml.level # "none" /\ rule.says # "undecided" /\ rule.says = ml.says
  BY <1>3
<1>4. CASE ml.level # "none" /\ rule.says # "undecided" /\ rule.says # ml.says
  BY <1>4
<1> QED BY <1>1, <1>2, <1>3, <1>4

\* What a question is answered with, if the arbitration answers it.
LEMMA Judged ==
    ASSUME NEW s, NEW reconnect, NEW p \in ModelAnswers
    PROVE  VerdictOK(Recommendation(s, reconnect), Arbitrate(Recommendation(s, reconnect), MlVerdict(p)))
BY RecommendationRange, ModelRange, Arbitrated

\* A whitelisted address is never sent to the honeypot by it.
LEMMA WhitelistJudged ==
    ASSUME NEW s, NEW reconnect, NEW p \in ModelAnswers, "whitelist" \in s.marks
    PROVE  Arbitrate(Recommendation(s, reconnect), MlVerdict(p)).says # "honeypot"
<1>1. Recommendation(s, reconnect).says = "real" /\ Recommendation(s, reconnect).conf = 100
  BY WhitelistFirst
<1> QED BY <1>1, Judged DEF VerdictOK

\* Answers are records of their three fields.
LEMMA AnswerRecord ==
    ASSUME NEW says \in {"inconclusive", "real", "honeypot"}, NEW conf \in 0 .. 100, NEW tier \in Tiers
    PROVE  [says |-> says, conf |-> conf, tier |-> tier] \in Answers
BY DEF Answers

\* So are the two that need no judgement.
LEMMA FixedAnswers ==
    /\ [says |-> "honeypot", conf |-> 100, tier |-> "known"] \in Answers
    /\ [says |-> "honeypot", conf |-> 55, tier |-> "fallback"] \in Answers
BY DEF Answers, Tiers

-----------------------------------------------------------------------------
(* The specification. *)

\* A new connection is of its type.
LEMMA PreTypeInit == PreInit => PreTypeOK
BY PreSessionConstantsOK
   DEF PreSessionConstantsOK, PreInit, PreTypeOK, NewSignals, Signals, NoAnswer, Answers, Tiers, Commands

\* What a question is answered with, tier by tier.
LEMMA ConcludeRange ==
    ASSUME NEW attempt \in 1 .. 2, NEW reconnect \in BOOLEAN, NEW p \in ModelAnswers,
           NEW decision \in LlmDecisions, Classify(attempt, reconnect, p, decision)
    PROVE  LET v == Arbitrate(Recommendation(sig, reconnect), MlVerdict(p))
           IN  \/ answer' = [says |-> v.says, conf |-> v.conf, tier |-> "rules and model"]
               \/ answer' \in Answers /\ answer'.tier \in {"llm", "fallback"}
<1>1. decision \in {"none", "honeypot", "real"}
  BY DEF LlmDecisions, LlmDecision, Settles, Replies
<1> DEFINE v == Arbitrate(Recommendation(sig, reconnect), MlVerdict(p))
<1>2. Conclude(attempt, v, decision)
  BY DEF Classify
<1> HIDE DEF v
<1>3. ASSUME v.is = "decided" \/ attempt = 1
      PROVE  answer' = [says |-> v.says, conf |-> v.conf, tier |-> "rules and model"]
  BY <1>2, <1>3 DEF Conclude, Answered
<1>4. ASSUME ~(v.is = "decided" \/ attempt = 1), decision # "none"
      PROVE  answer' \in Answers /\ answer'.tier = "llm"
  <2>1. PICK conf \in LlmConfidences : answer' = [says |-> decision, conf |-> conf, tier |-> "llm"]
    BY <1>2, <1>4 DEF Conclude, Answered
  <2>2. conf \in 0 .. 100
    BY PreSessionConstantsOK DEF PreSessionConstantsOK
  <2> QED BY <2>1, <2>2, <1>1, <1>4, AnswerRecord DEF Tiers
<1>5. ASSUME ~(v.is = "decided" \/ attempt = 1), decision = "none"
      PROVE  answer' \in Answers /\ answer'.tier = "fallback"
  <2>1. answer' = [says |-> "honeypot", conf |-> 55, tier |-> "fallback"]
    BY <1>2, <1>5 DEF Conclude, Answered
  <2>2. answer'.tier = "fallback"
    BY <2>1
  <2> QED BY <2>1, <2>2, FixedAnswers
<1> QED BY <1>3, <1>4, <1>5 DEF v

\* Every step keeps the type.
LEMMA PreTypeStep == PreTypeOK /\ [PreNext]_preVars => PreTypeOK'
<1> SUFFICES ASSUME PreTypeOK, [PreNext]_preVars PROVE PreTypeOK'
  OBVIOUS
<1> USE DEF PreTypeOK
<1>1. ASSUME NEW name \in Usernames, NEW method \in Methods,
             NEW time \in FirstAuthTimes \cup Intervals, RecordAuth(name, method, time)
      PROVE  PreTypeOK'
  <2>1. time \in Nat
    BY PreSessionConstantsOK DEF PreSessionConstantsOK
  <2> DEFINE first == IF sig.attempts = 0 THEN time ELSE sig.first
             interval == IF sig.attempts = 0 THEN sig.interval ELSE time
  <2>3. first \in Nat /\ interval \in Nat /\ sig.attempts + 1 \in Nat
    BY <2>1 DEF Signals
  <2>4. sig' = [sig EXCEPT !.attempts = sig.attempts + 1, !.names = sig.names \cup {name},
                           !.methods = sig.methods \cup {method}, !.first = first,
                           !.interval = interval]
    BY <1>1 DEF RecordAuth
  <2> HIDE DEF first, interval
  <2>2. sig' \in Signals(Usernames)
    BY <2>3, <2>4 DEF Signals
  <2> QED BY <1>1, <2>2 DEF RecordAuth
<1>2. ASSUME NEW command \in Commands, RecordSession(command) PROVE PreTypeOK'
  <2>1. sig' \in Signals(Usernames)
    BY <1>2 DEF RecordSession, Signals
  <2> QED BY <1>2, <2>1 DEF RecordSession
<1>3. ASSUME NEW attempt \in 1 .. 2, NEW reconnect \in BOOLEAN, NEW p \in ModelAnswers,
             NEW decision \in LlmDecisions, Classify(attempt, reconnect, p, decision)
      PROVE  PreTypeOK'
  <2> DEFINE v == Arbitrate(Recommendation(sig, reconnect), MlVerdict(p))
  <2>1. v.says \in {"inconclusive", "real", "honeypot"} /\ v.conf \in 0 .. 100
    BY Judged DEF VerdictOK
  <2> HIDE DEF v
  <2>2. answer' \in Answers
    <3>1. [says |-> v.says, conf |-> v.conf, tier |-> "rules and model"] \in Answers
      BY <2>1, AnswerRecord DEF Tiers
    <3> QED BY <1>3, <3>1, ConcludeRange DEF v
  <2> QED BY <1>3, <2>2 DEF Classify
<1>4. ASSUME NEW attempt \in 1 .. 2, KnownAttacker(attempt) PROVE PreTypeOK'
  <2>1. answer' = [says |-> "honeypot", conf |-> 100, tier |-> "known"]
    BY <1>4 DEF KnownAttacker, Answered
  <2>2. answer' \in Answers
    BY <2>1, FixedAnswers
  <2>3. round' \in 0 .. 2 /\ sig' = sig
    BY <1>4 DEF KnownAttacker
  <2> QED BY <2>2, <2>3
<1>5. CASE UNCHANGED preVars
  BY <1>5 DEF preVars
<1> QED BY <1>1, <1>2, <1>3, <1>4, <1>5 DEF PreNext

\* Signals, rounds and answers keep their types.
THEOREM PreTypes == PreSpec => []PreTypeOK
BY PreTypeInit, PreTypeStep, PTL DEF PreSpec

-----------------------------------------------------------------------------
(* The three properties of a verdict, which hold together. *)

Sound == ConfidentVerdict /\ OnlyModelOrLlmClears /\ WhitelistHonoured

\* Nothing has been said of a new connection.
LEMMA SoundInit == PreInit => Sound
BY DEF PreInit, Sound, NoAnswer, ConfidentVerdict, OnlyModelOrLlmClears, WhitelistHonoured, Settled

\* Every answer is sound, and signals change no answer.
LEMMA SoundStep == PreTypeOK /\ Sound /\ [PreNext]_preVars => Sound'
<1> SUFFICES ASSUME PreTypeOK, Sound, [PreNext]_preVars PROVE Sound'
  OBVIOUS
<1> USE DEF Sound, ConfidentVerdict, OnlyModelOrLlmClears, WhitelistHonoured, Settled
<1>1. ASSUME NEW name \in Usernames, NEW method \in Methods,
             NEW time \in FirstAuthTimes \cup Intervals, RecordAuth(name, method, time)
      PROVE  Sound'
  BY <1>1 DEF RecordAuth
<1>2. ASSUME NEW command \in Commands, RecordSession(command) PROVE Sound'
  BY <1>2 DEF RecordSession
<1>3. ASSUME NEW attempt \in 1 .. 2, NEW reconnect \in BOOLEAN, NEW p \in ModelAnswers,
             NEW decision \in LlmDecisions, Classify(attempt, reconnect, p, decision)
      PROVE  Sound'
  <2> DEFINE rule == Recommendation(sig, reconnect)
             v == Arbitrate(rule, MlVerdict(p))
  <2>1. CASE answer'.tier \in {"llm", "fallback"}
    BY <2>1
  <2>2. CASE answer' = [says |-> v.says, conf |-> v.conf, tier |-> "rules and model"]
    <3> HIDE DEF v
    <3>1. ConfidentVerdict'
      <4>1. v.says # "inconclusive" => v.conf >= 75
        BY Judged DEF v, VerdictOK
      <4> QED BY <2>2, <4>1
    <3>2. WhitelistHonoured'
      <4>1. ASSUME "whitelist" \in sig.marks PROVE v.says # "honeypot"
        BY <4>1, WhitelistJudged DEF v
      <4> QED BY <1>3, <2>2, <4>1 DEF Classify
    <3>3. OnlyModelOrLlmClears'
      <4>1. sig' = sig /\ round' = attempt /\ (attempt = 2 => reconnect)
        BY <1>3 DEF Classify
      <4>2. sig.attempts \in Nat
        BY DEF PreTypeOK, Signals
      <4>3. ASSUME "whitelist" \notin sig.marks, ~Key(sig), sig.attempts >= 4 \/ attempt = 2,
                   v.says = "real"
            PROVE  v.conf >= 85
        <5>1. rule.says = "honeypot"
          BY <4>1, <4>2, <4>3, SprayToHoneypot
        <5>2. VerdictOK(rule, v)
          BY Judged DEF v
        <5> HIDE DEF rule
        <5> QED BY <4>3, <5>1, <5>2 DEF VerdictOK
      <4> QED BY <2>2, <4>1, <4>3 DEF Key
    <3> QED BY <3>1, <3>2, <3>3
  <2> QED BY <1>3, <2>1, <2>2, ConcludeRange
<1>4. ASSUME NEW attempt \in 1 .. 2, KnownAttacker(attempt) PROVE Sound'
  BY <1>4 DEF KnownAttacker, Answered
<1>5. CASE UNCHANGED preVars
  BY <1>5 DEF preVars, Key
<1> QED BY <1>1, <1>2, <1>3, <1>4, <1>5 DEF PreNext

\* All three at once.
LEMMA AlwaysSound == PreSpec => []Sound
<1>1. PreInit => Sound
  BY SoundInit
<1>2. PreTypeOK /\ Sound /\ [PreNext]_preVars => Sound'
  BY SoundStep
<1> QED BY <1>1, <1>2, PreTypes, PTL DEF PreSpec

\* A verdict without the language model has a confidence of at least 75,
\* whatever rules and model say (classify_connection, _arbitrate).
THEOREM VerdictIsConfident == PreSpec => []ConfidentVerdict
<1>1. Sound => ConfidentVerdict
  BY DEF Sound
<1> QED BY <1>1, AlwaysSound, PTL

\* A spray, and a password login asked about twice, is only cleared by a model
\* that is 85 sure, or by the language model (_run_heuristic_rules, _arbitrate).
THEOREM SpraysNotCleared == PreSpec => []OnlyModelOrLlmClears
<1>1. Sound => OnlyModelOrLlmClears
  BY DEF Sound
<1> QED BY <1>1, AlwaysSound, PTL

\* No rule and no model sends a whitelisted address to the honeypot.
THEOREM WhitelistStands == PreSpec => []WhitelistHonoured
<1>1. Sound => WhitelistHonoured
  BY DEF Sound
<1> QED BY <1>1, AlwaysSound, PTL

-----------------------------------------------------------------------------
(* Asking a provider only if those before were not sure loses no report.   *)

\* The part of the type that the argument rests on.
VpnShape ==
    /\ step \in [Lookups -> Steps]
    /\ found \in [Lookups -> VpnResults]
    /\ opinion \in [Lookups -> [Providers -> Opinions]]
    /\ vpnCache \in VpnResults \cup {Uncached}

Bad(l, p) == opinion[l][p] = "bad"

\* What is known when a provider's turn comes: a result that flags the address
\* is sure enough for the providers before it, and one that does not is empty.
BeforeAbuseipdb(l) ==
    /\ found[l].flagged <=> Bad(l, "ipinfo")
    /\ found[l].confidence = IF found[l].flagged THEN 90 ELSE 0

BeforeIpApi(l) ==
    /\ found[l].flagged <=> Bad(l, "ipinfo") \/ Bad(l, "abuseipdb")
    /\ IF found[l].flagged THEN found[l].confidence >= 75 ELSE found[l].confidence = 0

Told(l) ==
    /\ step[l] = "abuseipdb" => BeforeAbuseipdb(l)
    /\ step[l] = "ip-api" => BeforeIpApi(l)
    /\ step[l] = "done" => (found[l].flagged <=> \E p \in Providers : Bad(l, p))

VpnInv == VpnShape /\ \A l \in Lookups : Told(l)

-----------------------------------------------------------------------------
\* Nobody has been asked yet.
LEMMA VpnInitInv == VpnInit => VpnInv
BY DEF VpnInit, VpnInv, VpnShape, Told, Steps, VpnResults, Unknown

\* A lookup whose step, result and answers stay keeps what is known of it.
LEMMA OthersKeep ==
    ASSUME NEW l, Told(l), step'[l] = step[l], found'[l] = found[l], opinion' = opinion
    PROVE  Told(l)'
BY DEF Told, BeforeAbuseipdb, BeforeIpApi, Bad

\* One action at a time; only QueryX adds to what is known.
LEMMA VpnStepInv == VpnInv /\ [VpnNext]_vpnVars => VpnInv'
<1> SUFFICES ASSUME VpnInv, [VpnNext]_vpnVars PROVE VpnInv'
  OBVIOUS
<1> USE DEF VpnInv
<1>1. CASE VpnCacheExpires
  BY <1>1 DEF VpnCacheExpires, VpnShape, Told, BeforeAbuseipdb, BeforeIpApi, Bad
<1>2. CASE UNCHANGED vpnVars
  BY <1>2 DEF vpnVars, VpnShape, Told, BeforeAbuseipdb, BeforeIpApi, Bad
<1>3. ASSUME NEW l \in Lookups, CheckAddress(l) PROVE VpnInv'
  <2>1. VpnShape'
    BY <1>3 DEF CheckAddress, StepTo, VpnShape, Steps
  <2>2. ASSUME NEW k \in Lookups, k # l PROVE Told(k)'
    BY <1>3, <2>2, OthersKeep DEF CheckAddress, StepTo, VpnShape
  <2>3. Told(l)'
    BY <1>3 DEF CheckAddress, StepTo, VpnShape, Told
  <2> QED BY <2>1, <2>2, <2>3
<1>4. ASSUME NEW l \in Lookups, TakeSlot(l) PROVE VpnInv'
  <2>1. VpnShape'
    BY <1>4 DEF TakeSlot, StepTo, VpnShape, Steps
  <2>2. ASSUME NEW k \in Lookups, k # l PROVE Told(k)'
    BY <1>4, <2>2, OthersKeep DEF TakeSlot, StepTo, VpnShape
  <2>3. Told(l)'
    BY <1>4 DEF TakeSlot, StepTo, VpnShape, Told
  <2> QED BY <2>1, <2>2, <2>3
<1>5. ASSUME NEW l \in Lookups, QueryIpinfo(l) PROVE VpnInv'
  <2> DEFINE bad == opinion[l]["ipinfo"] = "bad"
             conf == IpinfoConfidence(opinion[l]["ipinfo"])
  <2>1. bad \in BOOLEAN /\ conf = IF bad THEN 90 ELSE 0
    BY DEF IpinfoConfidence
  <2>2. found' = [found EXCEPT ![l] = [flagged |-> bad, confidence |-> conf]]
    BY <1>5 DEF QueryIpinfo
  <2>3. step' = [step EXCEPT ![l] = "abuseipdb"] /\ opinion' = opinion /\ vpnCache' = vpnCache
    BY <1>5 DEF QueryIpinfo, StepTo
  <2>4. bad <=> Bad(l, "ipinfo")
    BY DEF Bad
  <2> HIDE DEF bad, conf
  <2>5. [flagged |-> bad, confidence |-> conf] \in VpnResults
    BY <2>1 DEF VpnResults
  <2>6. VpnShape'
    BY <2>2, <2>3, <2>5 DEF VpnShape, Steps
  <2>7. ASSUME NEW k \in Lookups, k # l PROVE Told(k)'
    BY <2>2, <2>3, <2>7, OthersKeep DEF VpnShape
  <2>8. Told(l)'
    BY <2>1, <2>2, <2>3, <2>4 DEF VpnShape, Told, BeforeAbuseipdb, Bad
  <2> QED BY <2>6, <2>7, <2>8
<1>6. ASSUME NEW l \in Lookups, QueryAbuseipdb(l) PROVE VpnInv'
  <2> DEFINE result == IF found[l].confidence < 90 /\ opinion[l]["abuseipdb"] = "bad"
                       THEN Flagged(found[l], 75) ELSE found[l]
  <2>1. found' = [found EXCEPT ![l] = result]
    BY <1>6 DEF QueryAbuseipdb, VpnShape
  <2>2. step' = [step EXCEPT ![l] = "ip-api"] /\ opinion' = opinion /\ vpnCache' = vpnCache
    BY <1>6 DEF QueryAbuseipdb, StepTo
  <2>3. BeforeAbuseipdb(l) /\ found[l] \in VpnResults
    BY <1>6 DEF QueryAbuseipdb, Told, VpnShape
  <2>4. /\ result \in VpnResults
        /\ result.flagged <=> Bad(l, "ipinfo") \/ Bad(l, "abuseipdb")
        /\ IF result.flagged THEN result.confidence >= 75 ELSE result.confidence = 0
    BY <2>3 DEF BeforeAbuseipdb, VpnResults, Flagged, Bad
  <2> HIDE DEF result
  <2>5. VpnShape'
    BY <2>1, <2>2, <2>4 DEF VpnShape, Steps
  <2>6. ASSUME NEW k \in Lookups, k # l PROVE Told(k)'
    BY <2>1, <2>2, <2>6, OthersKeep DEF VpnShape
  <2>7. Told(l)'
    BY <2>1, <2>2, <2>4 DEF VpnShape, Told, BeforeIpApi, Bad
  <2> QED BY <2>5, <2>6, <2>7
<1>7. ASSUME NEW l \in Lookups, QueryIpApi(l) PROVE VpnInv'
  <2> DEFINE result == IF found[l].confidence < 60 /\ opinion[l]["ip-api"] = "bad"
                       THEN Flagged(found[l], 60) ELSE found[l]
  <2>1. found' = [found EXCEPT ![l] = result] /\ vpnCache' = result
    BY <1>7 DEF QueryIpApi
  <2>2. step' = [step EXCEPT ![l] = "done"] /\ opinion' = opinion
    BY <1>7 DEF QueryIpApi, StepTo
  <2>3. BeforeIpApi(l) /\ found[l] \in VpnResults
    BY <1>7 DEF QueryIpApi, Told, VpnShape
  <2>4. /\ result \in VpnResults
        /\ result.flagged <=> \E p \in Providers : Bad(l, p)
    BY <2>3 DEF BeforeIpApi, VpnResults, Flagged, Bad, Providers
  <2> HIDE DEF result
  <2>5. VpnShape'
    BY <2>1, <2>2, <2>4 DEF VpnShape, Steps
  <2>6. ASSUME NEW k \in Lookups, k # l PROVE Told(k)'
    BY <2>1, <2>2, <2>6, OthersKeep DEF VpnShape
  <2>7. Told(l)'
    BY <2>1, <2>2, <2>4 DEF VpnShape, Told, Bad
  <2> QED BY <2>5, <2>6, <2>7
<1> QED BY <1>1, <1>2, <1>3, <1>4, <1>5, <1>6, <1>7 DEF VpnNext

\* Skipping a provider never hides a report, and never invents one
\* (VPNDetector.check and its three _query functions).
THEOREM ReportsCount == VpnSpec => []NoReportMasked
<1>1. VpnInv => NoReportMasked
  BY DEF VpnInv, Told, Bad, NoReportMasked
<1> QED BY <1>1, VpnInitInv, VpnStepInv, PTL DEF VpnSpec

-----------------------------------------------------------------------------
(* A session is judged by a recent word of the model about itself.          *)

\* What a result is: the model's word, or 0, about features seen by now.
Honest(result, now) ==
    /\ result.level \in 0 .. 4 /\ result.of \in Features
    /\ result.level \in {0, ModelLevel[result.of]}
    /\ result.since \in 0 .. now

\* A cached result is honest, and about as many commands as its key says.
CacheHonest ==
    \A key \in DOMAIN cache : Honest(cache[key], second) /\ cache[key].of.commands = key

ThreatInv ==
    /\ second \in Nat
    /\ CacheHonest
    /\ ScoreLagsBounded

-----------------------------------------------------------------------------
\* The model gives every combination of features a level.
LEMMA LevelRange == ASSUME NEW f \in Features PROVE Level(f) \in 0 .. 4 /\ Level(f) \in {0, ModelLevel[f]}
BY ThreatConstantsOK DEF ThreatConstantsOK, Level

\* Honesty does not expire.
LEMMA StaysHonest ==
    ASSUME NEW result, NEW now \in Nat, Honest(result, now)
    PROVE  Honest(result, now + 1)
BY DEF Honest

\* At the start nothing is cached, and the 0 stands for no verdict.
LEMMA ThreatInitInv == ThreatInit => ThreatInv
<1> SUFFICES ASSUME ThreatInit PROVE ThreatInv
  OBVIOUS
<1>1. CacheHonest
  BY DEF ThreatInit, CacheHonest
<1>2. ScoreLagsBounded
  BY ThreatConstantsOK DEF ThreatConstantsOK, ThreatInit, ScoreLagsBounded, NoFacts
<1> QED BY <1>1, <1>2 DEF ThreatInit, ThreatInv

\* Scoring is the step that matters: the result is a fresh one of the cache or
\* the model's word of now, both under the number of commands.
LEMMA ScoringKeeps ==
    ASSUME ThreatInv, NEW f \in Features, ScoreSession(f), UNCHANGED second
    PROVE  ThreatInv'
<1> DEFINE key == CacheKey(f)
           new == [level |-> Level(f), since |-> second, of |-> f]
           result == IF Fresh(key) THEN cache[key] ELSE new
<1>1. key = f.commands
  BY DEF CacheKey
<1>2. Honest(new, second)
  BY LevelRange DEF Honest, ThreatInv
<1>3. Honest(result, second) /\ result.of.commands = key /\ second - result.since < CacheTtl
  <2>1. CASE Fresh(key)
    BY <2>1 DEF Fresh, ThreatInv, CacheHonest
  <2>2. CASE ~Fresh(key)
    BY <1>1, <1>2, <2>2, ThreatConstantsOK DEF ThreatConstantsOK, ThreatInv
  <2> QED BY <2>1, <2>2
<1>4. /\ cache' = [k \in DOMAIN cache \cup {key} |-> IF k = key THEN result ELSE cache[k]]
      /\ scored' = [at |-> second, commands |-> f.commands, got |-> result]
  BY DEF ScoreSession
<1> HIDE DEF result, key
<1>5. CacheHonest'
  BY <1>3, <1>4 DEF CacheHonest, ThreatInv, Honest
<1>6. ScoreLagsBounded'
  BY <1>1, <1>3, <1>4 DEF ScoreLagsBounded, Honest
<1> QED BY <1>5, <1>6 DEF ThreatInv

\* The other actions drop results, and time passes.
LEMMA ThreatStepInv == ThreatInv /\ [ThreatNext]_threatVars => ThreatInv'
<1> SUFFICES ASSUME ThreatInv, [ThreatNext]_threatVars PROVE ThreatInv'
  OBVIOUS
<1>1. CASE SecondPasses
  <2>1. CacheHonest'
    BY <1>1, StaysHonest DEF SecondPasses, ThreatInv, CacheHonest
  <2> QED BY <1>1, <2>1 DEF SecondPasses, ThreatInv, ScoreLagsBounded
<1>2. CASE ScorerRestarts
  BY <1>2 DEF ScorerRestarts, ThreatInv, CacheHonest, ScoreLagsBounded
<1>3. ASSUME NEW f \in Features, EventScored(f) PROVE ThreatInv'
  BY <1>3, ScoringKeeps DEF EventScored
<1>4. ASSUME NEW key \in 0 .. MaxCommands, CacheEvicts(key) PROVE ThreatInv'
  BY <1>4 DEF CacheEvicts, Restrict, ThreatInv, CacheHonest, ScoreLagsBounded
<1>5. CASE UNCHANGED threatVars
  BY <1>5 DEF threatVars, ThreatInv, CacheHonest, ScoreLagsBounded
<1> QED BY <1>1, <1>2, <1>3, <1>4, <1>5 DEF ThreatNext

\* A verdict is the model's, about this session with as many commands as now,
\* and less than the lifetime of a cached result old, for any model, also when
\* the transaction that asked for it first was rolled back (ThreatScorer.score,
\* _score_sync).
THEOREM VerdictsAreRecent == ThreatSpec => []ScoreLagsBounded
<1>1. ThreatInv => ScoreLagsBounded
  BY DEF ThreatInv
<1> QED BY <1>1, ThreatInitInv, ThreatStepInv, PTL DEF ThreatSpec

-----------------------------------------------------------------------------
(* The types of lookups and scores.                                         *)

\* The slots of the semaphore: who asks are few.
SlotsKept == IsFiniteSet(Asking) /\ VpnTypeOK

\* A lookup that steps from provider to provider, or away, takes no new slot.
LEMMA AskingFewer ==
    ASSUME SlotsKept, Asking' \subseteq Asking
    PROVE  IsFiniteSet(Asking') /\ Cardinality(Asking') <= Slots
<1>1. IsFiniteSet(Asking') /\ Cardinality(Asking') <= Cardinality(Asking)
  BY FS_Subset DEF SlotsKept
<1>2. Cardinality(Asking) \in Nat /\ Cardinality(Asking') \in Nat /\ Cardinality(Asking) <= Slots
  BY <1>1, FS_CardinalityType DEF SlotsKept, VpnTypeOK
<1> QED BY <1>1, <1>2, VpnConstantsOK DEF VpnConstantsOK

\* One case per action.
LEMMA SlotsStep == SlotsKept /\ [VpnNext]_vpnVars => SlotsKept'
<1> SUFFICES ASSUME SlotsKept, [VpnNext]_vpnVars PROVE SlotsKept'
  OBVIOUS
<1>0. /\ step \in [Lookups -> Steps] /\ found \in [Lookups -> VpnResults]
      /\ opinion \in [Lookups -> [Providers -> Opinions]]
      /\ vpnCache \in VpnResults \cup {Uncached} /\ vpnDetected \in BOOLEAN
  BY DEF SlotsKept, VpnTypeOK
<1>1. CASE VpnCacheExpires \/ UNCHANGED vpnVars
  <2>1. Asking' = Asking
    BY <1>1 DEF VpnCacheExpires, vpnVars, Asking
  <2>2. IsFiniteSet(Asking') /\ Cardinality(Asking') <= Slots
    BY <2>1, AskingFewer
  <2> QED BY <1>1, <2>2 DEF VpnCacheExpires, vpnVars, SlotsKept, VpnTypeOK
<1>2. ASSUME NEW l \in Lookups, CheckAddress(l) PROVE SlotsKept'
  <2>1. Asking' \subseteq Asking
    BY <1>0, <1>2 DEF CheckAddress, StepTo, Asking, Providers
  <2>2. IsFiniteSet(Asking') /\ Cardinality(Asking') <= Slots
    BY <2>1, AskingFewer
  <2>3. step' \in [Lookups -> Steps]
    BY <1>0, <1>2 DEF CheckAddress, StepTo, Steps
  <2>4. found' \in [Lookups -> VpnResults] /\ vpnDetected' \in BOOLEAN
    BY <1>0, <1>2 DEF CheckAddress, VpnResults
  <2> QED BY <1>0, <1>2, <2>2, <2>3, <2>4 DEF CheckAddress, SlotsKept, VpnTypeOK
<1>3. ASSUME NEW l \in Lookups, TakeSlot(l) PROVE SlotsKept'
  <2>1. Asking' \subseteq Asking \cup {l} /\ Cardinality(Asking) < Slots
    BY <1>0, <1>3 DEF TakeSlot, StepTo, Asking, Providers
  <2>2. IsFiniteSet(Asking) /\ Cardinality(Asking) \in Nat
    BY FS_CardinalityType DEF SlotsKept
  <2>3. /\ IsFiniteSet(Asking \cup {l}) /\ Cardinality(Asking \cup {l}) \in Nat
        /\ Cardinality(Asking \cup {l}) <= Slots
    <3>1. /\ IsFiniteSet(Asking \cup {l})
          /\ Cardinality(Asking \cup {l}) \in {Cardinality(Asking), Cardinality(Asking) + 1}
      BY <2>2, FS_AddElement
    <3> QED BY <2>1, <2>2, <3>1, VpnConstantsOK DEF VpnConstantsOK
  <2>4. IsFiniteSet(Asking') /\ Cardinality(Asking') <= Cardinality(Asking \cup {l})
    BY <2>1, <2>3, FS_Subset
  <2>5. Cardinality(Asking') <= Slots
    <3>1. Cardinality(Asking') \in Nat
      BY <2>4, FS_CardinalityType
    <3> QED BY <2>3, <2>4, <3>1, VpnConstantsOK DEF VpnConstantsOK
  <2>6. step' \in [Lookups -> Steps]
    BY <1>0, <1>3 DEF TakeSlot, StepTo, Steps
  <2> QED BY <1>0, <1>3, <2>4, <2>5, <2>6 DEF TakeSlot, SlotsKept, VpnTypeOK
<1>4. ASSUME NEW l \in Lookups, QueryIpinfo(l) PROVE SlotsKept'
  <2>1. Asking' \subseteq Asking /\ step' \in [Lookups -> Steps]
    BY <1>0, <1>4 DEF QueryIpinfo, StepTo, Asking, Providers, Steps
  <2>2. IsFiniteSet(Asking') /\ Cardinality(Asking') <= Slots
    BY <2>1, AskingFewer
  <2> DEFINE result == [flagged |-> opinion[l]["ipinfo"] = "bad",
                        confidence |-> IpinfoConfidence(opinion[l]["ipinfo"])]
  <2>3. result \in VpnResults /\ found' = [found EXCEPT ![l] = result]
    BY <1>4 DEF QueryIpinfo, IpinfoConfidence, VpnResults
  <2> HIDE DEF result
  <2>4. found' \in [Lookups -> VpnResults]
    BY <1>0, <2>3
  <2> QED BY <1>0, <1>4, <2>1, <2>2, <2>4 DEF QueryIpinfo, SlotsKept, VpnTypeOK
<1>5. ASSUME NEW result \in VpnResults PROVE Flagged(result, 75) \in VpnResults /\ Flagged(result, 60) \in VpnResults
  BY DEF Flagged, VpnResults
<1>6. ASSUME NEW l \in Lookups, QueryAbuseipdb(l) PROVE SlotsKept'
  <2>1. Asking' \subseteq Asking /\ step' \in [Lookups -> Steps]
    BY <1>0, <1>6 DEF QueryAbuseipdb, StepTo, Asking, Providers, Steps
  <2>2. IsFiniteSet(Asking') /\ Cardinality(Asking') <= Slots
    BY <2>1, AskingFewer
  <2> DEFINE result == Flagged(found[l], 75)
  <2>3. result \in VpnResults /\ found' \in {found, [found EXCEPT ![l] = result]}
    BY <1>0, <1>5, <1>6 DEF QueryAbuseipdb
  <2> HIDE DEF result
  <2>4. found' \in [Lookups -> VpnResults]
    BY <1>0, <2>3
  <2> QED BY <1>0, <1>6, <2>1, <2>2, <2>4 DEF QueryAbuseipdb, SlotsKept, VpnTypeOK
<1>7. ASSUME NEW l \in Lookups, QueryIpApi(l) PROVE SlotsKept'
  <2>1. Asking' \subseteq Asking /\ step' \in [Lookups -> Steps]
    BY <1>0, <1>7 DEF QueryIpApi, StepTo, Asking, Providers, Steps
  <2>2. IsFiniteSet(Asking') /\ Cardinality(Asking') <= Slots
    BY <2>1, AskingFewer
  <2> DEFINE result == IF found[l].confidence < 60 /\ opinion[l]["ip-api"] = "bad"
                       THEN Flagged(found[l], 60) ELSE found[l]
  <2>3. /\ result \in VpnResults /\ found' = [found EXCEPT ![l] = result]
        /\ vpnCache' = result /\ vpnDetected' = result.flagged
    BY <1>0, <1>5, <1>7 DEF QueryIpApi
  <2> HIDE DEF result
  <2>4. /\ found' \in [Lookups -> VpnResults] /\ vpnCache' \in VpnResults
        /\ vpnDetected' \in BOOLEAN
    BY <1>0, <2>3 DEF VpnResults
  <2> QED BY <1>0, <1>7, <2>1, <2>2, <2>4 DEF QueryIpApi, SlotsKept, VpnTypeOK
<1> QED BY <1>1, <1>2, <1>3, <1>4, <1>6, <1>7 DEF VpnNext

\* Lookups keep their types, and no more ask at once than there are slots: the
\* semaphore of VPNDetector.check.
THEOREM VpnTypes == VpnSpec => []VpnTypeOK
<1>1. VpnInit => SlotsKept
  <2> SUFFICES ASSUME VpnInit PROVE SlotsKept
    OBVIOUS
  <2>1. Asking = {}
    BY DEF VpnInit, Asking, Providers
  <2>2. IsFiniteSet(Asking) /\ Cardinality(Asking) <= Slots
    BY <2>1, FS_EmptySet, VpnConstantsOK DEF VpnConstantsOK
  <2> QED BY <2>2 DEF VpnInit, SlotsKept, VpnTypeOK, Steps, VpnResults, Unknown
<1>2. SlotsKept => VpnTypeOK
  BY DEF SlotsKept
<1> QED BY <1>1, <1>2, SlotsStep, PTL DEF VpnSpec

\* One case per action.
LEMMA ThreatTypeStep == ThreatTypeOK /\ [ThreatNext]_threatVars => ThreatTypeOK'
<1> SUFFICES ASSUME ThreatTypeOK, [ThreatNext]_threatVars PROVE ThreatTypeOK'
  OBVIOUS
<1>1. CASE SecondPasses
  <2>1. second' \in 0 .. MaxSeconds
    BY <1>1, ThreatConstantsOK DEF ThreatConstantsOK, SecondPasses, ThreatTypeOK
  <2> QED BY <1>1, <2>1 DEF SecondPasses, ThreatTypeOK
<1>2. CASE ScorerRestarts
  <2>1. pipeline' \in BOOLEAN
    BY <1>2 DEF ScorerRestarts, LoadPipeline
  <2>2. DOMAIN cache' \subseteq 0 .. MaxCommands /\ Range(cache') \subseteq Results
    BY <1>2 DEF ScorerRestarts, Range
  <2> QED BY <1>2, <2>1, <2>2 DEF ScorerRestarts, ThreatTypeOK
<1>3. ASSUME NEW f \in Features, EventScored(f) PROVE ThreatTypeOK'
  <2> DEFINE key == CacheKey(f)
             new == [level |-> Level(f), since |-> second, of |-> f]
             result == IF Fresh(key) THEN cache[key] ELSE new
  <2>1. key \in 0 .. MaxCommands
    BY DEF CacheKey, Features
  <2>2. result \in Results
    <3>1. new \in Results
      <4>1. Level(f) \in 0 .. 4
        BY ThreatConstantsOK DEF ThreatConstantsOK, Level
      <4> QED BY <4>1 DEF Results, ThreatTypeOK
    <3>2. Fresh(key) => cache[key] \in Results
      BY DEF Fresh, ThreatTypeOK, Range
    <3> QED BY <3>1, <3>2
  <2>3. /\ cache' = [k \in DOMAIN cache \cup {key} |-> IF k = key THEN result ELSE cache[k]]
        /\ scored' = [at |-> second, commands |-> f.commands, got |-> result]
        /\ facts' \in {f, facts} /\ second' = second /\ pipeline' = pipeline
    BY <1>3 DEF EventScored, ScoreSession
  <2> HIDE DEF key, result
  <2>4. DOMAIN cache' \subseteq 0 .. MaxCommands /\ Range(cache') \subseteq Results
    BY <2>1, <2>2, <2>3 DEF ThreatTypeOK, Range
  <2>5. scored' \in [at : 0 .. MaxSeconds, commands : 0 .. MaxCommands, got : Results]
    BY <2>2, <2>3 DEF ThreatTypeOK, Features
  <2>6. facts' \in Features
    BY <2>3 DEF ThreatTypeOK
  <2> QED BY <2>3, <2>4, <2>5, <2>6 DEF ThreatTypeOK
<1>4. ASSUME NEW key \in 0 .. MaxCommands, CacheEvicts(key) PROVE ThreatTypeOK'
  BY <1>4 DEF CacheEvicts, Restrict, ThreatTypeOK, Range
<1>5. CASE UNCHANGED threatVars
  BY <1>5 DEF threatVars, ThreatTypeOK
<1> QED BY <1>1, <1>2, <1>3, <1>4, <1>5 DEF ThreatNext

\* Features, verdicts and the cache keep their types.
THEOREM ThreatTypes == ThreatSpec => []ThreatTypeOK
<1>1. ThreatInit => ThreatTypeOK
  <2> SUFFICES ASSUME ThreatInit PROVE ThreatTypeOK
    OBVIOUS
  <2>1. NoFacts \in Features /\ 0 \in 0 .. MaxSeconds /\ 0 \in 0 .. MaxCommands
    BY ThreatConstantsOK DEF ThreatConstantsOK, NoFacts, Features
  <2> QED BY <2>1 DEF ThreatInit, ThreatTypeOK, Results, Range
<1> QED BY <1>1, ThreatTypeStep, PTL DEF ThreatSpec

-----------------------------------------------------------------------------
(* Whose session it is.                                                     *)

\* Before its first event is through, nothing counts for a session.
SessionsOK ==
    /\ tries \in [Sessions -> Nat]
    /\ stage \in [Sessions -> {"unread", "resolving", "read"}]
    /\ owner \in [Sessions -> Clients \cup {Gateway, Nobody}]
    /\ credited \in [Sessions -> SUBSET (Clients \cup {Gateway})]
    /\ \A s \in Sessions :
         /\ stage[s] = "unread" => tries[s] = 0
         /\ stage[s] # "read" => credited[s] = {} /\ owner[s] = Nobody

\* The reports that are known, and the time.
ReportsOK ==
    /\ clock \in Nat /\ clock <= MaxTime /\ restarts \in Nat
    /\ \A p \in DOMAIN portMap : portMap[p].ip \in Clients
    /\ \A k \in DOMAIN sessionMap : sessionMap[k].ip \in Clients

\* A report that is in time is there, as the session's own, until an attempt
\* takes it; then the session is its client's.
InTimeOK ==
    /\ inTime \subseteq Sessions
    /\ \A s \in inTime :
         /\ stage[s] # "read" =>
              /\ LoggedPort[s] = PortOf[s] /\ Valid(portMap, PortOf[s])
              /\ portMap[PortOf[s]].ip = ClientOf[s]
              /\ Pending(s)
         /\ stage[s] = "read" => owner[s] = ClientOf[s]

\* The backend remembers the owner of a session and no other, unless it forgot.
OwnersRemembered ==
    \A s \in Sessions \ forgotten :
      /\ owner[s] \in Clients => Valid(sessionMap, s)
      /\ s \in DOMAIN sessionMap => owner[s] = sessionMap[s].ip
      /\ credited[s] \subseteq {owner[s], Gateway}

CorrInv == SessionsOK /\ ReportsOK /\ InTimeOK

\* What the constants are.
LEMMA CorrelationConstants ==
    /\ \A s \in Sessions : ClientOf[s] \in Clients
    /\ Gateway \notin Clients /\ Nobody \notin Clients /\ Gateway # Nobody
    /\ Retries \in Nat /\ Retries > 0 /\ PortTtl \in Nat /\ PortTtl > 0
    /\ SessionTtl \in Nat /\ SessionTtl > 0 /\ MaxTime \in Nat
BY CorrelationConstantsOK DEF CorrelationConstantsOK, Clients, Range

\* The new entry is there, others stay if they are valid, no third comes.
LEMMA StoreFacts ==
    ASSUME NEW map, NEW key, NEW entry
    PROVE  /\ key \in DOMAIN Store(map, key, entry) /\ Store(map, key, entry)[key] = entry
           /\ \A k \in DOMAIN Store(map, key, entry) :
                k # key => k \in DOMAIN map /\ Store(map, key, entry)[k] = map[k]
           /\ \A k : k # key /\ Valid(map, k) => k \in DOMAIN Store(map, key, entry)
BY DEF Store, Valid

\* The latest report is some client's.
LEMMA LatestFacts ==
    ASSUME ReportsOK
    PROVE  Latest \subseteq Clients
BY DEF Latest, ReportsOK

\* The effect of an attribution on the session, and on the others.
LEMMA AttributeFacts ==
    ASSUME SessionsOK, NEW s \in Sessions, NEW ip \in Clients \cup {Nobody}, Attribute(s, ip)
    PROVE  LET src == IF ip = Nobody THEN Gateway ELSE ip
           IN  /\ owner' \in [Sessions -> Clients \cup {Gateway, Nobody}]
               /\ credited' \in [Sessions -> SUBSET (Clients \cup {Gateway})]
               /\ credited'[s] = credited[s] \cup {src}
               /\ owner'[s] = (IF owner[s] \in {Nobody, Gateway} THEN src ELSE owner[s])
               /\ \A t \in Sessions : t # s => owner'[t] = owner[t] /\ credited'[t] = credited[t]
<1> DEFINE src == IF ip = Nobody THEN Gateway ELSE ip
<1> DEFINE mine == IF owner[s] \in {Nobody, Gateway} THEN src ELSE owner[s]
<1> DEFINE all == credited[s] \cup {src}
<1>1. src \in Clients \cup {Gateway}
  OBVIOUS
<1>2. owner' = [owner EXCEPT ![s] = mine] /\ credited' = [credited EXCEPT ![s] = all]
  BY DEF Attribute
<1>3. mine \in Clients \cup {Gateway, Nobody} /\ all \in SUBSET (Clients \cup {Gateway})
  BY <1>1 DEF SessionsOK
<1> HIDE DEF mine, all
<1>4. /\ owner' \in [Sessions -> Clients \cup {Gateway, Nobody}]
      /\ credited' \in [Sessions -> SUBSET (Clients \cup {Gateway})]
      /\ credited'[s] = all /\ owner'[s] = mine
      /\ \A t \in Sessions : t # s => owner'[t] = owner[t] /\ credited'[t] = credited[t]
  BY <1>2, <1>3 DEF SessionsOK
<1> QED BY <1>4 DEF mine, all

-----------------------------------------------------------------------------
(* The steps of a session's events, by what they do.                        *)

\* The event counts for ip, and the session is read.
SettingsRead(s, ip) ==
    /\ ip \in Clients \cup {Nobody} /\ Attribute(s, ip)
    /\ stage' = [stage EXCEPT ![s] = "read"]
    /\ UNCHANGED <<clock, portMap, report, tries, restarts, forgotten>>

\* The session's address is remembered, if there is one.
Remembers(s, ip) ==
    /\ ip = Nobody => sessionMap' = sessionMap
    /\ ip # Nobody =>
         /\ s \in DOMAIN sessionMap'
         /\ sessionMap'[s] = Entry(ip, SessionTtl)
         /\ \A k \in DOMAIN sessionMap' : k # s => k \in DOMAIN sessionMap /\ sessionMap'[k] = sessionMap[k]
         /\ \A k : k # s /\ Valid(sessionMap, k) => k \in DOMAIN sessionMap'

\* A first event: the port's own report, or at the end the latest one.
FirstStep(s, ip) ==
    /\ SettingsRead(s, ip) /\ Remembers(s, ip)
    /\ stage[s] = "resolving" /\ inTime' = inTime
    /\ Pending(s) /\ Valid(portMap, LoggedPort[s]) => ip = portMap[LoggedPort[s]].ip

\* A later event: the session's address, or the latest report.
SessionLater(s, ip) ==
    /\ SettingsRead(s, ip) /\ Remembers(s, ip)
    /\ FirstEventPast(s)
    /\ Valid(sessionMap, s) => ip = sessionMap[s].ip
    /\ inTime' = IF stage[s] = "unread" THEN inTime \ {s} ELSE inTime

\* An attempt that finds nothing.
MissStep(s) ==
    /\ stage[s] = "resolving" /\ tries[s] < Retries /\ ~Valid(portMap, LoggedPort[s])
    /\ tries' = [tries EXCEPT ![s] = tries[s] + 1]
    /\ UNCHANGED <<clock, portMap, sessionMap, stage, owner, credited, restarts, inTime, forgotten>>

\* What is resolved is remembered, and read.
LEMMA ResolvedFacts ==
    ASSUME NEW s \in Sessions, NEW ip \in Clients \cup {Nobody}, Resolved(s, ip),
           UNCHANGED <<clock, portMap, report, tries, restarts, forgotten>>
    PROVE  SettingsRead(s, ip) /\ Remembers(s, ip)
<1>1. SettingsRead(s, ip)
  BY DEF Resolved, SettingsRead
<1>2. ip # Nobody => sessionMap' = Store(sessionMap, s, Entry(ip, SessionTtl))
  BY DEF Resolved
<1>3. ip = Nobody => sessionMap' = sessionMap
  BY DEF Resolved
<1>4. Remembers(s, ip)
  BY <1>2, <1>3, StoreFacts DEF Remembers
<1> QED BY <1>1, <1>4

\* resolve_for_connect.
LEMMA TryFacts ==
    ASSUME ReportsOK, NEW s \in Sessions, TryPort(s) \/ FallBack(s)
    PROVE  MissStep(s) \/ \E ip \in Clients \cup {Nobody} : FirstStep(s, ip)
<1>1. CASE TryPort(s) /\ Valid(portMap, LoggedPort[s])
  <2> DEFINE ip == portMap[LoggedPort[s]].ip
  <2>1. ip \in Clients
    BY <1>1 DEF ReportsOK, Valid
  <2>2. Resolved(s, ip) /\ UNCHANGED <<clock, portMap, report, tries, restarts, inTime, forgotten>>
    BY <1>1 DEF TryPort
  <2>3. SettingsRead(s, ip) /\ Remembers(s, ip)
    BY <2>1, <2>2, ResolvedFacts
  <2>4. FirstStep(s, ip)
    BY <1>1, <2>2, <2>3 DEF FirstStep, TryPort
  <2> QED BY <2>1, <2>4
<1>2. CASE TryPort(s) /\ ~Valid(portMap, LoggedPort[s])
  BY <1>2 DEF TryPort, MissStep
<1>3. CASE FallBack(s)
  <2>1. PICK ip \in Clients \cup {Nobody} : Resolved(s, ip)
    BY <1>3, LatestFacts DEF FallBack
  <2>2. UNCHANGED <<clock, portMap, report, tries, restarts, inTime, forgotten>>
    BY <1>3 DEF FallBack
  <2>3. SettingsRead(s, ip) /\ Remembers(s, ip)
    BY <2>1, <2>2, ResolvedFacts
  <2>4. stage[s] = "resolving" /\ ~Pending(s)
    BY <1>3, CorrelationConstants DEF FallBack, Pending
  <2>5. FirstStep(s, ip)
    BY <2>2, <2>3, <2>4 DEF FirstStep
  <2> QED BY <2>5
<1> QED BY <1>1, <1>2, <1>3

\* resolve_for_session.
LEMMA LaterFacts ==
    ASSUME ReportsOK, NEW s \in Sessions, LaterEvent(s)
    PROVE  \E ip \in Clients \cup {Nobody} : SessionLater(s, ip)
<1>1. PICK ip \in IF Valid(sessionMap, s) THEN {sessionMap[s].ip}
                  ELSE IF Latest # {} THEN Latest ELSE {Nobody} :
         /\ Attribute(s, ip)
         /\ sessionMap' = IF ip = Nobody THEN sessionMap
                          ELSE [k \in DOMAIN sessionMap \cup {s} |->
                                  IF k = s THEN Entry(ip, SessionTtl) ELSE sessionMap[k]]
  BY DEF LaterEvent
<1>2. ip \in Clients \cup {Nobody} /\ (Valid(sessionMap, s) => ip = sessionMap[s].ip)
  BY <1>1, LatestFacts DEF ReportsOK, Valid
<1>3. /\ FirstEventPast(s) /\ stage' = [stage EXCEPT ![s] = "read"]
      /\ inTime' = (IF stage[s] = "unread" THEN inTime \ {s} ELSE inTime)
      /\ UNCHANGED <<clock, portMap, report, tries, restarts, forgotten>>
  BY DEF LaterEvent
<1>4. SettingsRead(s, ip)
  BY <1>1, <1>2, <1>3 DEF SettingsRead
<1>5. Remembers(s, ip)
  BY <1>1 DEF Remembers, Valid
<1>6. SessionLater(s, ip)
  BY <1>2, <1>3, <1>4, <1>5 DEF SessionLater
<1> QED BY <1>2, <1>6

\* All steps, by what they do.
CorrStep ==
    \/ \E s \in Sessions : MissStep(s)
    \/ \E s \in Sessions, ip \in Clients \cup {Nobody} : FirstStep(s, ip)
    \/ \E s \in Sessions, ip \in Clients \cup {Nobody} : SessionLater(s, ip)
    \/ \E s \in Sessions : SendReport(s)
    \/ \E s \in Sessions : RegisterProxyMapping(s)
    \/ \E s \in Sessions : ReadConnect(s)
    \/ TimePasses
    \/ RestartBackend
    \/ UNCHANGED corrVars

\* Every step is one of these.
LEMMA CorrStepsAre ==
    ASSUME ReportsOK, [CorrNext]_corrVars
    PROVE  CorrStep
BY TryFacts, LaterFacts DEF CorrNext, CorrStep

\* Nothing counts for a session before its first event.
LEMMA SessionsStep ==
    ASSUME SessionsOK, CorrStep
    PROVE  SessionsOK'
<1>1. ASSUME NEW s \in Sessions, MissStep(s)
      PROVE  SessionsOK'
  BY <1>1 DEF MissStep, SessionsOK
<1>2. ASSUME NEW s \in Sessions, NEW ip \in Clients \cup {Nobody}, SettingsRead(s, ip)
      PROVE  SessionsOK'
  <2>1. /\ owner' \in [Sessions -> Clients \cup {Gateway, Nobody}]
        /\ credited' \in [Sessions -> SUBSET (Clients \cup {Gateway})]
        /\ \A t \in Sessions : t # s => owner'[t] = owner[t] /\ credited'[t] = credited[t]
    BY <1>2, AttributeFacts DEF SettingsRead
  <2>2. /\ stage' \in [Sessions -> {"unread", "resolving", "read"}]
        /\ stage'[s] = "read" /\ \A t \in Sessions : t # s => stage'[t] = stage[t]
        /\ tries' = tries
    BY <1>2 DEF SettingsRead, SessionsOK
  <2> QED BY <2>1, <2>2 DEF SessionsOK
<1>3. ASSUME NEW s \in Sessions, ReadConnect(s)
      PROVE  SessionsOK'
  BY <1>3 DEF ReadConnect, SessionsOK
<1>4. CASE RestartBackend
  BY <1>4 DEF RestartBackend, SessionsOK
<1>5. ASSUME UNCHANGED <<tries, stage, owner, credited>>
      PROVE  SessionsOK'
  BY <1>5 DEF SessionsOK
<1>6. ASSUME NEW s \in Sessions, SendReport(s) \/ RegisterProxyMapping(s)
      PROVE  SessionsOK'
  BY <1>5, <1>6 DEF SendReport, RegisterProxyMapping
<1>7. CASE TimePasses \/ UNCHANGED corrVars
  BY <1>5, <1>7 DEF TimePasses, corrVars
<1> QED BY <1>1, <1>2, <1>3, <1>4, <1>6, <1>7 DEF CorrStep, FirstStep, SessionLater

\* Reports are some client's.
LEMMA ReportsStep ==
    ASSUME ReportsOK, CorrStep
    PROVE  ReportsOK'
<1>1. ASSUME NEW s \in Sessions, NEW ip \in Clients \cup {Nobody}, SettingsRead(s, ip), Remembers(s, ip)
      PROVE  ReportsOK'
  <2>1. \A k \in DOMAIN sessionMap' : sessionMap'[k].ip \in Clients
    BY <1>1 DEF Remembers, Entry, ReportsOK
  <2> QED BY <1>1, <2>1 DEF SettingsRead, ReportsOK
<1>2. ASSUME NEW s \in Sessions, RegisterProxyMapping(s)
      PROVE  ReportsOK'
  <2> DEFINE entry == Entry(ClientOf[s], PortTtl)
  <2>1. entry.ip \in Clients
    BY CorrelationConstants DEF Entry
  <2>2. portMap' = Store(portMap, PortOf[s], entry) /\ UNCHANGED <<clock, restarts, sessionMap>>
    BY <1>2 DEF RegisterProxyMapping
  <2> HIDE DEF entry
  <2>3. \A p \in DOMAIN portMap' : portMap'[p].ip \in Clients
    BY <2>1, <2>2, StoreFacts DEF ReportsOK
  <2> QED BY <2>2, <2>3 DEF ReportsOK
<1>3. CASE TimePasses
  BY <1>3, CorrelationConstants DEF TimePasses, ReportsOK
<1>4. CASE RestartBackend
  BY <1>4 DEF RestartBackend, ReportsOK
<1>5. ASSUME UNCHANGED <<clock, restarts, portMap, sessionMap>>
      PROVE  ReportsOK'
  BY <1>5 DEF ReportsOK
<1> QED BY <1>1, <1>2, <1>3, <1>4, <1>5
        DEF CorrStep, FirstStep, SessionLater, MissStep, SendReport, ReadConnect, corrVars

\* A report that is in time is not lost before it is read, and decides.
LEMMA InTimeStep ==
    ASSUME SessionsOK, ReportsOK, InTimeOK, CorrStep
    PROVE  InTimeOK'
<1>0. ASSUME NEW t \in Sessions
      PROVE  owner[t] \in Clients \cup {Gateway, Nobody} /\ ClientOf[t] \notin {Nobody, Gateway}
  BY CorrelationConstants DEF SessionsOK
<1>1. ASSUME NEW s \in Sessions, MissStep(s)
      PROVE  InTimeOK'
  <2>1. s \notin inTime
    BY <1>1 DEF MissStep, InTimeOK
  <2>2. \A t \in Sessions : t # s => tries'[t] = tries[t]
    BY <1>1 DEF MissStep, SessionsOK
  <2>3. UNCHANGED <<clock, portMap, stage, owner, inTime>>
    BY <1>1 DEF MissStep
  <2> QED BY <2>1, <2>2, <2>3 DEF InTimeOK, Pending, Valid
<1>2. ASSUME NEW s \in Sessions, NEW ip \in Clients \cup {Nobody}, SettingsRead(s, ip),
             inTime' \subseteq inTime, s \in inTime' /\ stage[s] # "read" => ip = ClientOf[s]
      PROVE  InTimeOK'
  <2>1. /\ UNCHANGED <<clock, portMap, tries>>
        /\ stage'[s] = "read" /\ \A t \in Sessions : t # s => stage'[t] = stage[t]
    BY <1>2 DEF SettingsRead, SessionsOK
  <2>2. /\ owner'[s] = (IF owner[s] \in {Nobody, Gateway} THEN IF ip = Nobody THEN Gateway ELSE ip
                        ELSE owner[s])
        /\ \A t \in Sessions : t # s => owner'[t] = owner[t]
    BY <1>2, AttributeFacts DEF SettingsRead
  <2>3. s \in inTime' => owner'[s] = ClientOf[s]
    <3>1. CASE stage[s] = "read"
      BY <1>0, <1>2, <2>2, <3>1 DEF InTimeOK
    <3>2. CASE stage[s] # "read"
      BY <1>0, <1>2, <2>2, <3>2 DEF SessionsOK
    <3> QED BY <3>1, <3>2
  <2>4. ASSUME NEW t \in inTime', t # s
        PROVE  /\ stage'[t] # "read" =>
                    /\ LoggedPort[t] = PortOf[t] /\ Valid(portMap, PortOf[t])'
                    /\ portMap'[PortOf[t]].ip = ClientOf[t] /\ Pending(t)'
               /\ stage'[t] = "read" => owner'[t] = ClientOf[t]
    BY <1>2, <2>1, <2>2, <2>4 DEF InTimeOK, Pending, Valid
  <2> QED BY <1>2, <2>1, <2>3, <2>4 DEF InTimeOK
<1>3. ASSUME NEW s \in Sessions, NEW ip \in Clients \cup {Nobody}, FirstStep(s, ip)
      PROVE  InTimeOK'
  BY <1>2, <1>3 DEF FirstStep, InTimeOK
<1>4. ASSUME NEW s \in Sessions, NEW ip \in Clients \cup {Nobody}, SessionLater(s, ip)
      PROVE  InTimeOK'
  BY <1>2, <1>4 DEF SessionLater, FirstEventPast
<1>5. ASSUME NEW s \in Sessions, RegisterProxyMapping(s)
      PROVE  InTimeOK'
  <2> DEFINE entry == Entry(ClientOf[s], PortTtl)
  <2>1. /\ portMap' = Store(portMap, PortOf[s], entry)
        /\ inTime' = {t \in inTime : PortOf[t] # PortOf[s]} \cup
                       (IF Pending(s) /\ LoggedPort[s] = PortOf[s] THEN {s} ELSE {})
        /\ UNCHANGED <<clock, tries, stage, owner>>
    BY <1>5 DEF RegisterProxyMapping
  <2>2. entry.ip = ClientOf[s] /\ entry.expires > clock
    BY CorrelationConstants DEF Entry, ReportsOK
  <2> HIDE DEF entry
  <2>3. PortOf[s] \in DOMAIN portMap' /\ portMap'[PortOf[s]] = entry
    BY <2>1, StoreFacts
  <2>4. \A p : p # PortOf[s] /\ Valid(portMap, p) =>
                 p \in DOMAIN portMap' /\ portMap'[p] = portMap[p]
    BY <2>1, StoreFacts
  <2>5. ASSUME NEW t \in inTime'
        PROVE  /\ t \in Sessions
               /\ stage'[t] # "read" =>
                    /\ LoggedPort[t] = PortOf[t] /\ Valid(portMap, PortOf[t])'
                    /\ portMap'[PortOf[t]].ip = ClientOf[t] /\ Pending(t)'
               /\ stage'[t] = "read" => owner'[t] = ClientOf[t]
    <3>1. CASE t \in inTime /\ PortOf[t] # PortOf[s]
      BY <2>1, <2>4, <3>1 DEF InTimeOK, Valid, Pending
    <3>2. CASE t = s /\ Pending(s) /\ LoggedPort[s] = PortOf[s]
      <4>1. stage[s] # "read"
        BY <3>2 DEF Pending
      <4> QED BY <2>1, <2>2, <2>3, <3>2, <4>1 DEF Valid, Pending
    <3> QED BY <2>1, <2>5, <3>1, <3>2
  <2> QED BY <2>5 DEF InTimeOK
<1>6. ASSUME NEW s \in Sessions, ReadConnect(s)
      PROVE  InTimeOK'
  <2>1. /\ stage[s] = "unread" /\ stage'[s] = "resolving"
        /\ \A t \in Sessions : t # s => stage'[t] = stage[t]
        /\ UNCHANGED <<clock, portMap, tries, owner, inTime>>
    BY <1>6 DEF ReadConnect, SessionsOK
  <2>2. tries[s] < Retries
    BY <2>1, CorrelationConstants DEF SessionsOK
  <2> QED BY <2>1, <2>2 DEF InTimeOK, Pending, Valid
<1>7. CASE TimePasses
  <2>1. /\ clock' = clock + 1 /\ UNCHANGED <<portMap, tries, stage, owner>>
        /\ inTime' = {s \in inTime : stage[s] = "read" \/ portMap[PortOf[s]].expires > clock + 1}
    BY <1>7 DEF TimePasses
  <2> QED BY <2>1 DEF InTimeOK, Pending, Valid
<1>8. CASE RestartBackend
  BY <1>8 DEF RestartBackend, InTimeOK
<1>9. ASSUME UNCHANGED <<clock, portMap, tries, stage, owner, inTime>>
      PROVE  InTimeOK'
  BY <1>9 DEF InTimeOK, Pending, Valid
<1> QED BY <1>1, <1>3, <1>4, <1>5, <1>6, <1>7, <1>8, <1>9 DEF CorrStep, SendReport, corrVars

\* The owner of a session stays the one address that its events count for.
LEMMA OwnersStep ==
    ASSUME SessionsOK, ReportsOK, OwnersRemembered, CorrStep
    PROVE  OwnersRemembered'
<1>1. ASSUME NEW s \in Sessions, NEW ip \in Clients \cup {Nobody},
             SettingsRead(s, ip), Remembers(s, ip),
             stage[s] = "read" /\ Valid(sessionMap, s) => ip = sessionMap[s].ip
      PROVE  OwnersRemembered'
  <2> DEFINE src == IF ip = Nobody THEN Gateway ELSE ip
  <2>1. /\ credited'[s] = credited[s] \cup {src}
        /\ owner'[s] = (IF owner[s] \in {Nobody, Gateway} THEN src ELSE owner[s])
        /\ \A t \in Sessions : t # s => owner'[t] = owner[t] /\ credited'[t] = credited[t]
    BY <1>1, AttributeFacts DEF SettingsRead
  <2>2. clock' = clock /\ forgotten' = forgotten
    BY <1>1 DEF SettingsRead
  <2>3. /\ owner[s] \in Clients \cup {Gateway, Nobody} /\ credited[s] \subseteq Clients \cup {Gateway}
        /\ stage[s] # "read" => credited[s] = {} /\ owner[s] = Nobody
    BY DEF SessionsOK
  <2>4. ASSUME s \notin forgotten
        PROVE  /\ owner'[s] \in Clients => Valid(sessionMap, s)'
               /\ s \in DOMAIN sessionMap' => owner'[s] = sessionMap'[s].ip
               /\ credited'[s] \subseteq {owner'[s], Gateway}
    <3>0. /\ owner[s] \in Clients => Valid(sessionMap, s)
          /\ s \in DOMAIN sessionMap => owner[s] = sessionMap[s].ip
          /\ credited[s] \subseteq {owner[s], Gateway}
      BY <2>4 DEF OwnersRemembered
    <3>1. owner[s] \in Clients => ip = owner[s]
      BY <1>1, <2>3, <3>0, CorrelationConstants DEF Valid
    <3>2. CASE ip = Nobody
      <4>1. owner[s] \in {Nobody, Gateway} /\ owner'[s] = Gateway
        BY <2>1, <2>3, <3>1, <3>2, CorrelationConstants
      <4>2. sessionMap' = sessionMap /\ s \notin DOMAIN sessionMap
        BY <1>1, <3>0, <3>2, <4>1, CorrelationConstants DEF Remembers, ReportsOK
      <4>3. credited'[s] \subseteq {Gateway}
        BY <2>1, <2>3, <3>0, <3>2, <4>1, CorrelationConstants
      <4> QED BY <4>1, <4>2, <4>3, CorrelationConstants
    <3>3. CASE ip # Nobody
      <4>1. s \in DOMAIN sessionMap' /\ sessionMap'[s] = Entry(ip, SessionTtl)
        BY <1>1, <3>3 DEF Remembers
      <4>2. Entry(ip, SessionTtl).ip = ip /\ Entry(ip, SessionTtl).expires > clock
        BY CorrelationConstants DEF Entry, ReportsOK
      <4>3. owner'[s] = ip
        BY <2>1, <2>3, <3>1, <3>3
      <4>4. credited'[s] \subseteq {ip, Gateway}
        BY <2>1, <2>3, <3>0, <3>1, <3>3, CorrelationConstants
      <4> QED BY <2>2, <4>1, <4>2, <4>3, <4>4 DEF Valid
    <3> QED BY <3>2, <3>3
  <2>5. ASSUME NEW t \in Sessions \ forgotten, t # s
        PROVE  /\ owner'[t] \in Clients => Valid(sessionMap, t)'
               /\ t \in DOMAIN sessionMap' => owner'[t] = sessionMap'[t].ip
               /\ credited'[t] \subseteq {owner'[t], Gateway}
    <3>1. t \in DOMAIN sessionMap' => t \in DOMAIN sessionMap /\ sessionMap'[t] = sessionMap[t]
      BY <1>1, <2>5 DEF Remembers
    <3>2. Valid(sessionMap, t) => t \in DOMAIN sessionMap'
      BY <1>1, <2>5 DEF Remembers, Valid
    <3>3. /\ owner[t] \in Clients => Valid(sessionMap, t)
          /\ t \in DOMAIN sessionMap => owner[t] = sessionMap[t].ip
          /\ credited[t] \subseteq {owner[t], Gateway}
      BY DEF OwnersRemembered
    <3> QED BY <2>1, <2>2, <2>5, <3>1, <3>2, <3>3 DEF Valid
  <2> QED BY <2>2, <2>4, <2>5 DEF OwnersRemembered
<1>2. ASSUME NEW s \in Sessions, NEW ip \in Clients \cup {Nobody}, FirstStep(s, ip)
      PROVE  OwnersRemembered'
  BY <1>1, <1>2 DEF FirstStep
<1>3. ASSUME NEW s \in Sessions, NEW ip \in Clients \cup {Nobody}, SessionLater(s, ip)
      PROVE  OwnersRemembered'
  BY <1>1, <1>3 DEF SessionLater
<1>4. CASE TimePasses
  <2>1. /\ UNCHANGED <<sessionMap, owner, credited>>
        /\ forgotten' = forgotten \cup {s \in DOMAIN sessionMap : ~Valid(sessionMap, s)'}
    BY <1>4 DEF TimePasses
  <2>2. \A s \in Sessions \ forgotten' : s \in DOMAIN sessionMap => Valid(sessionMap, s)'
    BY <2>1
  <2> QED BY <2>1, <2>2 DEF OwnersRemembered, Valid
<1>5. CASE RestartBackend
  <2>1. /\ UNCHANGED <<owner, credited>> /\ DOMAIN sessionMap' = {}
        /\ forgotten' = forgotten \cup DOMAIN sessionMap
    BY <1>5 DEF RestartBackend
  <2>2. \A s \in Sessions \ forgotten' : owner[s] \notin Clients
    BY <2>1 DEF OwnersRemembered, Valid
  <2> QED BY <2>1, <2>2 DEF OwnersRemembered
<1>6. ASSUME UNCHANGED <<clock, sessionMap, owner, credited, forgotten>>
      PROVE  OwnersRemembered'
  BY <1>6 DEF OwnersRemembered, Valid
<1>7. ASSUME NEW s \in Sessions,
             MissStep(s) \/ SendReport(s) \/ RegisterProxyMapping(s) \/ ReadConnect(s)
      PROVE  OwnersRemembered'
  BY <1>6, <1>7 DEF MissStep, SendReport, RegisterProxyMapping, ReadConnect
<1>8. CASE UNCHANGED corrVars
  BY <1>6, <1>8 DEF corrVars
<1> QED BY <1>2, <1>3, <1>4, <1>5, <1>7, <1>8 DEF CorrStep

-----------------------------------------------------------------------------
\* The invariants hold at first.
LEMMA CorrInitially ==
    ASSUME CorrInit
    PROVE  CorrInv /\ OwnersRemembered
<1>1. DOMAIN portMap = {} /\ DOMAIN sessionMap = {}
  BY DEF CorrInit
<1>2. SessionsOK
  BY DEF CorrInit, SessionsOK
<1>3. ReportsOK
  BY <1>1, CorrelationConstants DEF CorrInit, ReportsOK
<1>4. InTimeOK
  BY DEF CorrInit, InTimeOK
<1>5. OwnersRemembered
  BY <1>1, CorrelationConstants DEF CorrInit, OwnersRemembered
<1> QED BY <1>2, <1>3, <1>4, <1>5 DEF CorrInv

\* What holds of sessions and reports whatever the clock does.
LEMMA CorrInvariant == CorrSpec => []CorrInv
<1>1. CorrInit => CorrInv
  BY CorrInitially
<1>2. CorrInv /\ [CorrNext]_corrVars => CorrInv'
  BY CorrStepsAre, SessionsStep, ReportsStep, InTimeStep DEF CorrInv
<1> QED BY <1>1, <1>2, PTL DEF CorrSpec

\* The race of the gateway's report with the honeypot's log is harmless within
\* the retries, for any sessions, ports, times and number of retries
\* (resolve_for_connect).
THEOREM InTimeDecides == CorrSpec => []InTimeIsRight
<1>1. CorrInv => InTimeIsRight
  BY DEF CorrInv, InTimeOK, InTimeIsRight
<1> QED BY <1>1, CorrInvariant, PTL

\* All events of a session count for one client, unless its remembered address
\* lapsed or was lost in a restart, for any sessions, ports and lifetimes
\* (ingest_event, resolve_for_session).
THEOREM SessionHasOneClient == CorrSpec => []OneClientPerSession
<1>1. CorrInit => CorrInv /\ OwnersRemembered
  BY CorrInitially
<1>2. CorrInv /\ OwnersRemembered /\ [CorrNext]_corrVars => CorrInv' /\ OwnersRemembered'
  BY CorrStepsAre, SessionsStep, ReportsStep, InTimeStep, OwnersStep DEF CorrInv
<1>3. OwnersRemembered => OneClientPerSession
  BY DEF OwnersRemembered, OneClientPerSession
<1> QED BY <1>1, <1>2, <1>3, PTL DEF CorrSpec

-----------------------------------------------------------------------------
(* The types of the two maps and of what they attribute.                    *)

\* The entries of either map.
EntryType == [ip : Clients, expires : 0 .. MaxTime + PortTtl + SessionTtl]
MapOf(map, Keys) == DOMAIN map \subseteq Keys /\ \A k \in DOMAIN map : map[k] \in EntryType

\* A new entry has the type of the others.
LEMMA EntryFacts ==
    ASSUME clock \in 0 .. MaxTime, NEW ip \in Clients, NEW ttl \in {PortTtl, SessionTtl}
    PROVE  Entry(ip, ttl) \in EntryType
<1>1. clock + ttl \in 0 .. MaxTime + PortTtl + SessionTtl
  BY CorrelationConstantsOK DEF CorrelationConstantsOK
<1> QED BY <1>1 DEF Entry, EntryType

\* A map with an entry more, with or without those that are over.
LEMMA MapFacts ==
    ASSUME NEW Keys, NEW map, MapOf(map, Keys), NEW key \in Keys, NEW entry \in EntryType
    PROVE  /\ MapOf(Store(map, key, entry), Keys)
           /\ MapOf([k \in DOMAIN map \cup {key} |-> IF k = key THEN entry ELSE map[k]], Keys)
BY DEF MapOf, Store

\* The latest report is some client's.
LEMMA LatestIsClient ==
    ASSUME MapOf(portMap, Range(PortOf))
    PROVE  Latest \subseteq Clients
BY DEF Latest, MapOf, EntryType

\* An attribution keeps the types of owners and credits.
LEMMA AttributeTypes ==
    ASSUME NEW s \in Sessions, NEW ip \in Clients \cup {Nobody}, Attribute(s, ip),
           owner \in [Sessions -> Clients \cup {Gateway, Nobody}],
           credited \in [Sessions -> SUBSET (Clients \cup {Gateway})]
    PROVE  /\ owner' \in [Sessions -> Clients \cup {Gateway, Nobody}]
           /\ credited' \in [Sessions -> SUBSET (Clients \cup {Gateway})]
<1> DEFINE src == IF ip = Nobody THEN Gateway ELSE ip
           mine == IF owner[s] \in {Nobody, Gateway} THEN src ELSE owner[s]
           all == credited[s] \cup {src}
<1>1. src \in Clients \cup {Gateway}
  OBVIOUS
<1>2. owner' = [owner EXCEPT ![s] = mine] /\ credited' = [credited EXCEPT ![s] = all]
  BY DEF Attribute
<1>3. mine \in Clients \cup {Gateway, Nobody} /\ all \in SUBSET (Clients \cup {Gateway})
  BY <1>1
<1> HIDE DEF mine, all
<1> QED BY <1>2, <1>3

\* So does a first event that is resolved, and the session map keeps its own.
LEMMA ResolvedTypes ==
    ASSUME CorrTypeOK, NEW s \in Sessions, NEW ip \in Clients \cup {Nobody}, Resolved(s, ip)
    PROVE  /\ stage' \in [Sessions -> {"unread", "resolving", "read"}]
           /\ MapOf(sessionMap', Sessions)
           /\ owner' \in [Sessions -> Clients \cup {Gateway, Nobody}]
           /\ credited' \in [Sessions -> SUBSET (Clients \cup {Gateway})]
<1>1. stage' \in [Sessions -> {"unread", "resolving", "read"}]
  BY DEF Resolved, CorrTypeOK
<1>2. MapOf(sessionMap, Sessions)
  BY DEF CorrTypeOK, MapOf, EntryType
<1>3. MapOf(sessionMap', Sessions)
  <2>1. CASE ip = Nobody
    BY <1>2, <2>1 DEF Resolved
  <2>2. CASE ip # Nobody
    <3>1. Entry(ip, SessionTtl) \in EntryType
      BY <2>2, EntryFacts DEF CorrTypeOK
    <3>2. sessionMap' = Store(sessionMap, s, Entry(ip, SessionTtl))
      BY <2>2 DEF Resolved
    <3> QED BY <1>2, <3>1, <3>2, MapFacts
  <2> QED BY <2>1, <2>2
<1>4. Attribute(s, ip)
  BY DEF Resolved
<1> QED BY <1>1, <1>3, <1>4, AttributeTypes DEF CorrTypeOK

\* One case per action.
LEMMA CorrTypeStep == CorrTypeOK /\ [CorrNext]_corrVars => CorrTypeOK'
<1> SUFFICES ASSUME CorrTypeOK, [CorrNext]_corrVars PROVE CorrTypeOK'
  OBVIOUS
<1>0. /\ MapOf(portMap, Range(PortOf)) /\ MapOf(sessionMap, Sessions) /\ clock \in 0 .. MaxTime
      /\ report \in [Sessions -> {"none", "sent", "lost", "in"}]
      /\ tries \in [Sessions -> 0 .. Retries]
      /\ stage \in [Sessions -> {"unread", "resolving", "read"}]
      /\ owner \in [Sessions -> Clients \cup {Gateway, Nobody}]
      /\ credited \in [Sessions -> SUBSET (Clients \cup {Gateway})]
      /\ restarts \in 0 .. MaxRestarts /\ inTime \subseteq Sessions
      /\ forgotten \subseteq Sessions
  BY DEF CorrTypeOK, MapOf, EntryType
<1>a. /\ MaxTime \in Nat /\ MaxRestarts \in Nat /\ Retries \in Nat
      /\ \A s \in Sessions : PortOf[s] \in Range(PortOf) /\ ClientOf[s] \in Clients
  BY CorrelationConstantsOK DEF CorrelationConstantsOK, Range, Clients
<1> DEFINE Types ==
      /\ MapOf(portMap', Range(PortOf)) /\ MapOf(sessionMap', Sessions) /\ clock' \in 0 .. MaxTime
      /\ report' \in [Sessions -> {"none", "sent", "lost", "in"}]
      /\ tries' \in [Sessions -> 0 .. Retries]
      /\ stage' \in [Sessions -> {"unread", "resolving", "read"}]
      /\ owner' \in [Sessions -> Clients \cup {Gateway, Nobody}]
      /\ credited' \in [Sessions -> SUBSET (Clients \cup {Gateway})]
      /\ restarts' \in 0 .. MaxRestarts /\ inTime' \subseteq Sessions
      /\ forgotten' \subseteq Sessions
<1>b. Types => CorrTypeOK'
  BY DEF CorrTypeOK, MapOf, EntryType
<1>1. CASE TimePasses
  <2>1. DOMAIN sessionMap \subseteq Sessions
    BY <1>0 DEF MapOf
  <2> QED BY <1>0, <1>a, <1>b, <1>1, <2>1 DEF TimePasses
<1>2. CASE RestartBackend
  <2>1. MapOf(<<>>, Range(PortOf)) /\ MapOf(<<>>, Sessions) /\ DOMAIN sessionMap \subseteq Sessions
    BY <1>0 DEF MapOf
  <2> QED BY <1>0, <1>a, <1>b, <1>2, <2>1 DEF RestartBackend
<1>3. ASSUME NEW s \in Sessions, SendReport(s) \/ ReadConnect(s) PROVE CorrTypeOK'
  BY <1>0, <1>b, <1>3 DEF SendReport, ReadConnect
<1>4. ASSUME NEW s \in Sessions, RegisterProxyMapping(s) PROVE CorrTypeOK'
  <2>1. MapOf(portMap', Range(PortOf))
    <3>1. Entry(ClientOf[s], PortTtl) \in EntryType
      BY <1>0, <1>a, EntryFacts
    <3>2. portMap' = Store(portMap, PortOf[s], Entry(ClientOf[s], PortTtl))
      BY <1>4 DEF RegisterProxyMapping
    <3> QED BY <1>0, <1>a, <3>1, <3>2, MapFacts
  <2> QED BY <1>0, <1>b, <1>4, <2>1 DEF RegisterProxyMapping
<1>5. ASSUME NEW s \in Sessions, TryPort(s) PROVE CorrTypeOK'
  <2>1. CASE Valid(portMap, LoggedPort[s])
    <3> DEFINE ip == portMap[LoggedPort[s]].ip
    <3>1. Resolved(s, ip) /\ UNCHANGED <<clock, portMap, report, tries, restarts, inTime, forgotten>>
      BY <1>5, <2>1 DEF TryPort
    <3>2. ip \in Clients
      BY <1>0, <2>1 DEF Valid, MapOf, EntryType
    <3> HIDE DEF ip
    <3> QED BY <1>0, <1>b, <3>1, <3>2, ResolvedTypes
  <2>2. CASE ~Valid(portMap, LoggedPort[s])
    <3>1. /\ tries[s] < Retries /\ tries' = [tries EXCEPT ![s] = tries[s] + 1]
          /\ UNCHANGED <<clock, portMap, sessionMap, report, stage, owner, credited, restarts, inTime, forgotten>>
      BY <1>5, <2>2 DEF TryPort
    <3>2. tries' \in [Sessions -> 0 .. Retries]
      BY <1>0, <1>a, <3>1
    <3> QED BY <1>0, <1>b, <3>1, <3>2
  <2> QED BY <2>1, <2>2
<1>6. ASSUME NEW s \in Sessions, FallBack(s) PROVE CorrTypeOK'
  <2>1. PICK ip \in Clients \cup {Nobody} : Resolved(s, ip)
    BY <1>0, <1>6, LatestIsClient DEF FallBack
  <2> QED BY <1>0, <1>b, <1>6, <2>1, ResolvedTypes DEF FallBack
<1>7. ASSUME NEW s \in Sessions, LaterEvent(s) PROVE CorrTypeOK'
  <2>1. PICK ip \in IF Valid(sessionMap, s) THEN {sessionMap[s].ip}
                    ELSE IF Latest # {} THEN Latest ELSE {Nobody} :
           /\ Attribute(s, ip)
           /\ sessionMap' = IF ip = Nobody THEN sessionMap
                            ELSE [k \in DOMAIN sessionMap \cup {s} |->
                                    IF k = s THEN Entry(ip, SessionTtl) ELSE sessionMap[k]]
    BY <1>7 DEF LaterEvent
  <2>2. ip \in Clients \cup {Nobody}
    BY <1>0, <2>1, LatestIsClient DEF Valid, MapOf, EntryType
  <2>3. /\ owner' \in [Sessions -> Clients \cup {Gateway, Nobody}]
        /\ credited' \in [Sessions -> SUBSET (Clients \cup {Gateway})]
    BY <1>0, <2>1, <2>2, AttributeTypes
  <2>4. MapOf(sessionMap', Sessions)
    <3>1. CASE ip = Nobody
      BY <1>0, <2>1, <3>1
    <3>2. CASE ip # Nobody
      <4>1. Entry(ip, SessionTtl) \in EntryType
        BY <1>0, <2>2, <3>2, EntryFacts
      <4>2. sessionMap' = [k \in DOMAIN sessionMap \cup {s} |->
                             IF k = s THEN Entry(ip, SessionTtl) ELSE sessionMap[k]]
        BY <2>1, <3>2
      <4>3. MapOf(sessionMap, Sessions)
        BY <1>0
      <4> QED BY <4>1, <4>2, <4>3, MapFacts
    <3> QED BY <3>1, <3>2
  <2> QED BY <1>0, <1>b, <1>7, <2>3, <2>4 DEF LaterEvent
<1>8. CASE UNCHANGED corrVars
  BY <1>0, <1>b, <1>8 DEF corrVars
<1> QED BY <1>1, <1>2, <1>3, <1>4, <1>5, <1>6, <1>7, <1>8 DEF CorrNext

\* Both maps hold clients' addresses, with a lifetime, and the attempts end.
THEOREM CorrTypes == CorrSpec => []CorrTypeOK
<1>1. CorrInit => CorrTypeOK
  BY CorrelationConstantsOK DEF CorrelationConstantsOK, CorrInit, CorrTypeOK
<1> QED BY <1>1, CorrTypeStep, PTL DEF CorrSpec
=============================================================================
