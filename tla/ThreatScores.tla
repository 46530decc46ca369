---------------------------- MODULE ThreatScores ----------------------------
(***************************************************************************)
(* ThreatScorer (src/backend/services/threat_scorer.py) over the events of *)
(* one session: the model is loaded, or trained, or absent, and its        *)
(* verdicts are cached under the address, the session and the number of    *)
(* its commands, although the features (src/backend/ai/feature_extractor.py) *)
(* depend on more than that.  Features that only follow the clock are left *)
(* out; the model may be any function of the others.                       *)
(***************************************************************************)
EXTENDS Naturals, Functions

CONSTANTS
    ModelLevel,     \* the trained model: the level by features
    MaxCommands,    \* bound: commands of the session
    CacheTtl,       \* SCORE_CACHE_TTL
    MaxSeconds      \* bound: clock

Features == [commands : 0 .. MaxCommands, sprayed : BOOLEAN, baited : BOOLEAN]

ASSUME ThreatConstantsOK ==
    /\ MaxCommands \in Nat /\ MaxSeconds \in Nat /\ CacheTtl \in Nat \ {0}
    /\ ModelLevel \in [Features -> 0 .. 4]

VARIABLES
    second,      \* the clock
    pipeline,    \* is there a model?
    facts,       \* the features of the session and its address, as the database has them
    cache,       \* TTLCache, by the part of the key that changes
    scored       \* ghost: the last call of score: its time, the commands it saw and what it returned

threatVars == <<second, pipeline, facts, cache, scored>>

Results == [level : 0 .. 4, since : 0 .. MaxSeconds, of : Features]

ThreatTypeOK ==
    /\ second \in 0 .. MaxSeconds /\ pipeline \in BOOLEAN
    /\ facts \in Features /\ scored \in [at : 0 .. MaxSeconds, commands : 0 .. MaxCommands, got : Results]
    /\ DOMAIN cache \subseteq 0 .. MaxCommands /\ Range(cache) \subseteq Results

NoFacts == [commands |-> 0, sprayed |-> FALSE, baited |-> FALSE]

\* _load_pipeline: a model that cannot be loaded is trained anew, which may fail.
LoadPipeline(loads, trains) == pipeline' = (loads \/ trains)

ThreatInit ==
    /\ second = 0 /\ cache = <<>>
    /\ pipeline \in BOOLEAN
    /\ facts = NoFacts
    /\ scored = [at |-> 0, commands |-> 0, got |-> [level |-> 0, since |-> 0, of |-> NoFacts]]

\* Mutant of CacheKey: one verdict for each session.
CacheKeySession(f) == 0

CacheKey(f) == f.commands

Level(f) == IF pipeline THEN ModelLevel[f] ELSE 0
Fresh(key) == key \in DOMAIN cache /\ second - cache[key].since < CacheTtl

\* score and _score_sync: the verdict "no model" is cached as well.
ScoreSession(f) ==
    LET key == CacheKey(f)
        result == IF Fresh(key) THEN cache[key] ELSE [level |-> Level(f), since |-> second, of |-> f]
    IN  /\ cache' = [k \in DOMAIN cache \cup {key} |-> IF k = key THEN result ELSE cache[k]]
        /\ scored' = [at |-> second, commands |-> f.commands, got |-> result]

\* An event is ingested: a command, a failed login, a touched bait or none of
\* these; then the session is scored.  The verdict is cached before the event's
\* transaction ends, and stays when that is rolled back, or overwritten by one
\* that overlaps it.
EventScored(f) ==
    /\ f.commands \in {facts.commands, facts.commands + 1}
    /\ (facts.sprayed => f.sprayed) /\ (facts.baited => f.baited)
    /\ facts' \in {f, facts}
    /\ ScoreSession(f)
    /\ UNCHANGED <<second, pipeline>>

\* The cache is full of other sessions' results, or the backend restarts.
CacheEvicts(key) ==
    /\ key \in DOMAIN cache
    /\ cache' = Restrict(cache, DOMAIN cache \ {key})
    /\ UNCHANGED <<second, pipeline, facts, scored>>

ScorerRestarts ==
    /\ \E loads, trains \in BOOLEAN : LoadPipeline(loads, trains)
    /\ cache' = <<>>
    /\ UNCHANGED <<second, facts, scored>>

SecondPasses ==
    /\ second < MaxSeconds
    /\ second' = second + 1
    /\ UNCHANGED <<pipeline, facts, cache, scored>>

ThreatNext ==
    \/ SecondPasses \/ ScorerRestarts
    \/ \E f \in Features : EventScored(f)
    \/ \E key \in 0 .. MaxCommands : CacheEvicts(key)

ThreatSpec == ThreatInit /\ [][ThreatNext]_threatVars

-----------------------------------------------------------------------------
\* What a session is judged by is the model's word about itself, as it was less
\* than the lifetime of a cached verdict ago and with as many commands as now
\* (or no model's word, the 0), although other transactions may have cached it
\* and may have been rolled back since.
ScoreLagsBounded ==
    /\ scored.got.level \in {0, ModelLevel[scored.got.of]}
    /\ scored.got.of.commands = scored.commands
    /\ scored.at - scored.got.since < CacheTtl
=============================================================================
