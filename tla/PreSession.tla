----------------------------- MODULE PreSession -----------------------------
(***************************************************************************)
(* One connection from the first authentication attempt to its verdict:    *)
(* the gateway's signals grow (src/gateway/session_signals.py) and the     *)
(* scorer is asked about them once or twice (classify_connection in        *)
(* src/backend/services/gateway_scorer.py, with the tiers of ScoreRules).  *)
(* What the scorer does to the database is in GatewayScorer.               *)
(***************************************************************************)
EXTENDS ScoreRules

CONSTANTS
    Usernames,         \* user names clients try
    FirstAuthTimes,    \* possible values of time_to_first_auth
    Intervals,         \* possible values of auth_attempt_interval
    SourceMarks,       \* the combinations of marks that clients have
    ModelAnswers,      \* what the pre-session model may answer
    LlmConfidences,    \* confidences the LLM may report
    MaxAttempts        \* bound: authentication attempts

ASSUME PreSessionConstantsOK ==
    /\ FirstAuthTimes \subseteq Nat /\ Intervals \subseteq Nat
    /\ SourceMarks \subseteq SUBSET Marks
    /\ ModelAnswers \subseteq 0 .. 100 \cup {NoModel}
    /\ LlmConfidences \subseteq 0 .. 100
    /\ MaxAttempts \in Nat

VARIABLES
    sig,       \* SessionSignals.to_payload()
    round,     \* questions answered: the attempt of the last one
    answer     \* the last answer, with the tier that gave it

preVars == <<sig, round, answer>>

Tiers == {"nobody", "known", "rules and model", "llm", "fallback"}
Answers == [says : {"inconclusive", "real", "honeypot"}, conf : 0 .. 100, tier : Tiers]
NoAnswer == [says |-> "inconclusive", conf |-> 0, tier |-> "nobody"]

PreTypeOK ==
    /\ sig \in Signals(Usernames)
    /\ round \in 0 .. 2
    /\ answer \in Answers

NewSignals(marks) ==
    [marks |-> marks, names |-> {}, attempts |-> 0, methods |-> {}, first |-> 0, interval |-> 0,
     exec |-> "none", shell |-> FALSE, interactive |-> FALSE]

PreInit ==
    /\ \E marks \in SourceMarks : sig = NewSignals(marks)
    /\ round = 0
    /\ answer = NoAnswer

Settled == answer.says # "inconclusive"

\* record_auth_attempt: the interval is that of the last two attempts.
RecordAuth(name, method, time) ==
    /\ ~Settled
    /\ sig.attempts < MaxAttempts
    /\ IF sig.attempts = 0 THEN time \in FirstAuthTimes ELSE time \in Intervals
    /\ sig' = [sig EXCEPT !.attempts = @ + 1,
                          !.names = @ \cup {name},
                          !.methods = @ \cup {method},
                          !.first = IF sig.attempts = 0 THEN time ELSE @,
                          !.interval = IF sig.attempts = 0 THEN @ ELSE time]
    /\ UNCHANGED <<round, answer>>

\* record_session_request, for each channel of the connection: a command, or a
\* shell; neither takes back the other.
RecordSession(command) ==
    /\ ~Settled
    /\ sig.attempts > 0
    /\ sig' = IF command = "none" THEN [sig EXCEPT !.shell = TRUE, !.interactive = TRUE]
              ELSE [sig EXCEPT !.exec = command, !.interactive = FALSE]
    /\ UNCHANGED <<round, answer>>

Answered(says, conf, tier) == answer' = [says |-> says, conf |-> conf, tier |-> tier]

\* The tiers after the pre-gate: arbitration, and on the second question the
\* LLM or, failing that, the honeypot.
Conclude(attempt, verdict, decision) ==
    IF verdict.is = "decided" \/ attempt = 1 THEN Answered(verdict.says, verdict.conf, "rules and model")
    ELSE IF decision # "none" THEN \E conf \in LlmConfidences : Answered(decision, conf, "llm")
    ELSE Answered("honeypot", 55, "fallback")

\* classify_connection with the model's answer p and what the LLM comes to.
\* The second question finds the session row that the first one stored: that row
\* is committed before the first answer is sent, and it is less than a minute
\* old, since the gateway's limits (the answer, the window, the answer) add up
\* to 23 seconds; so it is a reconnect. (GatewayScorer has the one exception, a
\* row that another connection's verdict has deleted.)
Classify(attempt, reconnect, p, decision) ==
    /\ sig.attempts > 0
    /\ round = attempt - 1 /\ ~Settled
    /\ attempt = 2 => reconnect
    /\ Conclude(attempt, Arbitrate(Recommendation(sig, reconnect), MlVerdict(p)), decision)
    /\ round' = attempt
    /\ UNCHANGED sig

\* The pre-gate: a profile of level 2 or more with a session is an attacker's.
KnownAttacker(attempt) ==
    /\ sig.attempts > 0
    /\ round = attempt - 1 /\ ~Settled
    /\ Answered("honeypot", 100, "known")
    /\ round' = attempt
    /\ UNCHANGED sig

PreNext ==
    \/ \E name \in Usernames, method \in Methods, time \in FirstAuthTimes \cup Intervals :
         RecordAuth(name, method, time)
    \/ \E command \in Commands : RecordSession(command)
    \/ \E attempt \in 1 .. 2, reconnect \in BOOLEAN, p \in ModelAnswers, decision \in LlmDecisions :
         Classify(attempt, reconnect, p, decision)
    \/ \E attempt \in 1 .. 2 : KnownAttacker(attempt)

PreSpec == PreInit /\ [][PreNext]_preVars

-----------------------------------------------------------------------------
\* A verdict reached without the LLM is one of at least 75 hundredths, unless
\* it is the fallback to the honeypot: what the rules and the model only
\* suspect goes to the LLM or waits.
ConfidentVerdict ==
    Settled /\ answer.tier = "rules and model" => answer.conf >= 75

\* A spray (four attempts) from an address that is not on the whitelist and
\* offered no key reaches the real server only if the model is 85% sure of it
\* or the LLM says so; and so does any password login that is asked about
\* twice, since the second question counts as a reconnect and the rules for
\* clean logins come after that.
OnlyModelOrLlmClears ==
    /\ answer.says = "real" /\ answer.tier = "rules and model"
    /\ "whitelist" \notin sig.marks /\ ~Key(sig)
    /\ sig.attempts >= 4 \/ round = 2
    => answer.conf >= 85

\* The whitelist stands against the rules and against the model that answers:
\* only a known attacker, or an LLM asked because there is no model, sends
\* a whitelisted address to the honeypot.
WhitelistHonoured ==
    "whitelist" \in sig.marks /\ answer.tier = "rules and model" => answer.says # "honeypot"
=============================================================================
