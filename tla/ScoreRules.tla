----------------------------- MODULE ScoreRules -----------------------------
(***************************************************************************)
(* src/backend/services/gateway_scorer.py without its database: the rule   *)
(* table, the verdict of the pre-session model, the arbitration between    *)
(* the two, and the LLM as tiebreaker.                                     *)
(* Confidences are in hundredths and times in hundredths of a second.      *)
(*                                                                         *)
(* What the SSH gateway sends is a record: the marks the address and the   *)
(* client version earn, user names as a set, the exec command by the       *)
(* patterns it matches.  The model's answer is the percentage it gives to  *)
(* "real": any function of the features may have been trained.             *)
(***************************************************************************)
EXTENDS Naturals, FiniteSets

CONSTANTS
    Suspicious,     \* SUSPICIOUS_USERNAMES
    ServiceNames,   \* names that match SERVICE_ACCOUNT_USERNAME_PATTERNS
    NoModel         \* the answer of a pre-session model that is not loaded or fails

ASSUME ScoreConstantsOK == NoModel \notin Nat

Marks == {"whitelist", "pentest", "scanner", "deprecated"}
Methods == {"password", "publickey"}   \* keyboard-interactive is recorded as a password
Commands == {"none", "plain", "safe", "suspicious", "both"}

Signals(Names) ==
    [marks : SUBSET Marks, names : SUBSET Names, attempts : Nat, methods : SUBSET Methods,
     first : Nat, interval : Nat, exec : Commands, shell : BOOLEAN, interactive : BOOLEAN]

Key(s) == "publickey" \in s.methods
Clean(s) == s.names \cap Suspicious = {}
ServiceAccount(s) == s.names \cap ServiceNames # {}
Faster(time, limit) == time > 0 /\ time < limit
MatchesSafe(s) == s.exec \in {"safe", "both"}
MatchesSuspicious(s) == s.exec \in {"suspicious", "both"}

Rule(condition, recommendation, confidence) ==
    [fires |-> condition, says |-> recommendation, conf |-> confidence]

\* Mutant of Rules: the whitelist comes after the marks of scanners and testers.
RulesLateWhitelist(s, reconnect) ==
    << Rule("pentest" \in s.marks, "honeypot", 95),
       Rule("scanner" \in s.marks, "honeypot", 98),
       Rule("whitelist" \in s.marks, "real", 100),
       Rule(TRUE, "undecided", 50) >>

\* Mutant of Rules: the reconnect rule comes after the clean logins.
RulesLateReconnect(s, reconnect) ==
    << Rule("whitelist" \in s.marks, "real", 100),
       Rule(Key(s) /\ Clean(s), "real", 92),
       Rule(s.attempts >= 4, "honeypot", 97),
       Rule(s.attempts <= 2 /\ Clean(s) /\ s.first > 100, "real", 72),
       Rule(reconnect, "honeypot", 88),
       Rule(TRUE, "undecided", 50) >>

\* _run_heuristic_rules: rules 1 to 18, of which the first that fires counts.
Rules(s, reconnect) ==
    << Rule("whitelist" \in s.marks, "real", 100),
       Rule("pentest" \in s.marks, "honeypot", 95),
       Rule("scanner" \in s.marks, "honeypot", 98),
       Rule("deprecated" \in s.marks, "honeypot", 95),
       Rule(Key(s) /\ Clean(s), "real", 92),
       Rule(Key(s) /\ (Faster(s.interval, 50) \/ Faster(s.first, 15) \/ reconnect), "honeypot", 88),
       Rule(s.attempts >= 4, "honeypot", 97),
       Rule(Cardinality(s.names) >= 3, "honeypot", 92),
       Rule(~Clean(s) /\ (Faster(s.interval, 50) \/ s.attempts >= 2), "honeypot", 88),
       Rule(s.attempts >= 2 /\ Faster(s.interval, 30) /\ ~ServiceAccount(s), "honeypot", 90),
       Rule(Faster(s.first, 15) /\ ~ServiceAccount(s), "honeypot", 82),
       Rule(reconnect, "honeypot", 88),
       Rule(Cardinality(s.methods) >= 2 /\ s.attempts >= 3, "honeypot", 85),
       Rule(MatchesSuspicious(s), "honeypot", 95),
       Rule(MatchesSafe(s) /\ ~s.interactive, "real", 72),
       Rule(s.shell /\ s.interactive /\ Key(s) /\ Clean(s) /\ s.first > 50, "real", 85),
       Rule(/\ s.attempts <= 2 /\ ~Key(s) /\ Clean(s) /\ s.first > 100
            /\ s.shell \/ s.exec = "none", "real", 72),
       Rule(TRUE, "undecided", 50) >>

Recommendation(s, reconnect) ==
    LET table == Rules(s, reconnect)
    IN  table[CHOOSE i \in DOMAIN table :
                /\ table[i].fires
                /\ \A j \in DOMAIN table : table[j].fires => i <= j]

-----------------------------------------------------------------------------
\* _run_pre_session_ml: the more probable class and its probability.
MlVerdict(p) ==
    IF p = NoModel THEN [level |-> "none", says |-> "nothing", conf |-> 0]
    ELSE IF p >= 50 THEN [level |-> "0", says |-> "real", conf |-> p]
    ELSE [level |-> "4", says |-> "honeypot", conf |-> 100 - p]

Verdict(decision, confidence, outcome) ==
    [says |-> decision, conf |-> confidence, is |-> outcome]
Inconclusive(confidence) == Verdict("inconclusive", confidence, "inconclusive")
Larger(a, b) == IF a >= b THEN a ELSE b
Smaller(a, b) == IF a <= b THEN a ELSE b

\* Mutant of Arbitrate: the model's word is taken at 60 when the rules are silent.
ArbitrateEager(rule, ml) ==
    IF ml.level = "none" THEN Inconclusive(50)
    ELSE IF rule.says = "undecided" /\ ml.conf >= 60 THEN Verdict(ml.says, ml.conf, "decided")
    ELSE Inconclusive(50)

\* _arbitrate.
Arbitrate(rule, ml) ==
    LET combined == Smaller(100, Larger(rule.conf, ml.conf) + 5)
    IN  IF ml.level = "none" THEN Inconclusive(50)
        ELSE IF rule.says = "undecided" THEN
          IF ml.conf >= 75 THEN Verdict(ml.says, ml.conf, "decided") ELSE Inconclusive(ml.conf)
        ELSE IF rule.says = ml.says THEN
          IF combined >= 75 THEN Verdict(rule.says, combined, "decided") ELSE Inconclusive(combined)
        ELSE IF rule.says = "honeypot" /\ ml.conf >= 85 THEN Verdict("real", ml.conf, "decided")
        ELSE IF rule.says = "real" /\ rule.conf >= 95 THEN Verdict("real", rule.conf, "decided")
        ELSE Inconclusive(Smaller(rule.conf, ml.conf))

-----------------------------------------------------------------------------
\* What one call of the LLM comes to. A reply that is no JSON counts as a
\* decision for the honeypot; JSON that is no object raises in .get().
Replies == {"raises", "other", "garbage", "honeypot", "real"}
Settles(reply) == reply \in {"garbage", "honeypot", "real"}

\* _run_llm_tier: two tries, and None without a service or a valid decision.
LlmDecision(configured, first, second) ==
    LET reply == IF Settles(first) THEN first ELSE second
    IN  IF ~configured \/ ~Settles(reply) THEN "none"
        ELSE IF reply = "garbage" THEN "honeypot" ELSE reply

LlmDecisions ==
    {LlmDecision(configured, first, second) :
       configured \in BOOLEAN, first \in Replies, second \in Replies}
=============================================================================
