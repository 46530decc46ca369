--------------------------- MODULE CanaryWebhook ---------------------------
(***************************************************************************)
(* The tripwire (src/tripwires/tripwire.py) reports touched bait files to  *)
(* the webhook of the backend (src/backend/routers/canary.py), which takes *)
(* a report once (src/backend/services/canary_webhook.py) and counts it on *)
(* the bait's token; and the life of the tokens: operators create and      *)
(* deactivate them, every start of the backend seeds and tidies them       *)
(* (ensure_canary_tokens in src/backend/bootstrap.py).                     *)
(*                                                                         *)
(* A notice is one signed report: its signature is its nonce.  The network *)
(* may lose it or bring it again.  What the alarm does to the address's    *)
(* rows is in Ingest; that a deactivated token still gives alarms is what  *)
(* the code does: trigger_canary never reads is_active.                    *)
(***************************************************************************)
EXTENDS Naturals, Sequences, FiniteSets, Functions

CONSTANTS
    Notices,      \* reports of the tripwire
    PathOf,       \* the path and kind of access a notice is about
    TokenOf,      \* the token of that path
    Canonical,    \* _CANARY_TOKENS
    Cooldown,     \* COOLDOWN_SECONDS
    Tolerance,    \* CANARY_WEBHOOK_TOLERANCE_SECONDS
    MaxNonces,    \* the 10,000 of _NonceCache
    MaxCalls,     \* bound: notices the webhook accepts
    MaxMinutes,   \* bound: clock
    MaxBoots      \* bound: starts of the backend after the first

ASSUME WebhookConstantsOK ==
    /\ PathOf \in [Notices -> Range(PathOf)] /\ TokenOf \in [Notices -> Range(TokenOf)]
    /\ {Cooldown, Tolerance, MaxNonces} \subseteq Nat \ {0}
    /\ {MaxCalls, MaxMinutes, MaxBoots} \subseteq Nat

VARIABLES
    minute,     \* time.time()
    tripped,    \* _last_triggered of the tripwire
    posted,     \* when a notice was signed and posted
    nonces,     \* _nonce_cache, oldest first
    accepted,   \* ghost: every notice accepted, with the boot it was accepted in
    calls,      \* calls under way: the token's trigger_count as it was read
    token,      \* the rows of canary_tokens
    triggers,   \* trigger_count
    alarmed,    \* committed alarms of registered tokens, as places in accepted
    boots       \* starts of the backend

webhookVars == <<minute, tripped, posted, nonces, accepted, calls, token, triggers, alarmed, boots>>

Tokens == Canonical \cup Range(TokenOf)
Stored == {"active", "inactive"}

WebhookTypeOK ==
    /\ minute \in 0 .. MaxMinutes /\ boots \in 0 .. MaxBoots
    /\ DOMAIN tripped \subseteq Range(PathOf) /\ Range(tripped) \subseteq 0 .. MaxMinutes
    /\ DOMAIN posted \subseteq Notices /\ Range(posted) \subseteq 0 .. MaxMinutes
    /\ nonces \in Seq(Notices) /\ Len(nonces) <= MaxNonces
    /\ accepted \in Seq(Notices \X (0 .. MaxBoots))
    /\ DOMAIN calls \subseteq DOMAIN accepted
    /\ token \in [Tokens -> {"never", "removed"} \cup Stored]
    /\ triggers \in [Tokens -> Nat]
    /\ alarmed \subseteq DOMAIN accepted

WebhookInit ==
    /\ minute = 0 /\ boots = 0
    /\ tripped = <<>> /\ posted = <<>> /\ calls = <<>>
    /\ nonces = <<>> /\ accepted = <<>> /\ alarmed = {}
    /\ token = [t \in Tokens |-> IF t \in Canonical THEN "active" ELSE "never"]
    /\ triggers = [t \in Tokens |-> 0]

Extended(f, x, y) == [i \in DOMAIN f \cup {x} |-> IF i = x THEN y ELSE f[i]]

\* fire_webhook: nothing is posted within the cooldown of the path, which
\* starts before the post and whatever comes of it. There is one try.
FireWebhook(n) ==
    /\ n \notin DOMAIN posted
    /\ token[TokenOf[n]] # "never"
    /\ PathOf[n] \in DOMAIN tripped => minute - tripped[PathOf[n]] >= Cooldown
    /\ tripped' = Extended(tripped, PathOf[n], minute)
    /\ posted' = Extended(posted, n, minute)
    /\ UNCHANGED <<minute, nonces, accepted, calls, token, triggers, alarmed, boots>>

\* Mutant of Remember: a full cache throws out the newest (popitem(last=True)).
RememberOldest(n) == IF Len(nonces) < MaxNonces THEN Append(nonces, n) ELSE nonces

\* _NonceCache.seen for a nonce that is not in it.
Remember(n) == Append(IF Len(nonces) < MaxNonces THEN nonces ELSE Tail(nonces), n)

\* A notice comes in, for the first time or again: it must not be too old nor
\* in the cache. The nonce is taken down before anything is done.
AcceptNotice(n) ==
    /\ n \in DOMAIN posted /\ Len(accepted) < MaxCalls
    /\ minute - posted[n] <= Tolerance
    /\ n \notin Range(nonces)
    /\ nonces' = Remember(n)
    /\ accepted' = Append(accepted, <<n, boots>>)
    /\ calls' = Extended(calls, Len(accepted) + 1, triggers[TokenOf[n]])
    /\ UNCHANGED <<minute, tripped, posted, token, triggers, alarmed, boots>>

\* trigger_canary and the commit: the count that was read is raised by one. A
\* token that is not registered gives an alarm and counts nothing.
CommitNotice(c) ==
    LET t == TokenOf[accepted[c][1]]
    IN  /\ c \in DOMAIN calls
        /\ calls' = Restrict(calls, DOMAIN calls \ {c})
        /\ IF token[t] \in Stored
           THEN /\ triggers' = [triggers EXCEPT ![t] = calls[c] + 1]
                /\ alarmed' = alarmed \cup {c}
           ELSE UNCHANGED <<triggers, alarmed>>
        /\ UNCHANGED <<minute, tripped, posted, nonces, accepted, token, boots>>

\* The call fails and is rolled back: its nonce stays, its alarm is lost.
NoticeFails(c) ==
    /\ c \in DOMAIN calls
    /\ calls' = Restrict(calls, DOMAIN calls \ {c})
    /\ UNCHANGED <<minute, tripped, posted, nonces, accepted, token, triggers, alarmed, boots>>

\* POST and DELETE /canary/tokens, the latter a soft delete.
CreateCanaryToken(t) ==
    /\ token[t] = "never"
    /\ token' = [token EXCEPT ![t] = "active"]
    /\ UNCHANGED <<minute, tripped, posted, nonces, accepted, calls, triggers, alarmed, boots>>

DeleteCanaryToken(t) ==
    /\ token[t] = "active"
    /\ token' = [token EXCEPT ![t] = "inactive"]
    /\ UNCHANGED <<minute, tripped, posted, nonces, accepted, calls, triggers, alarmed, boots>>

\* Mutant of EnsureToken: every token that is not in the list goes.
EnsureTokenAll(t) ==
    IF t \in Canonical THEN "active" ELSE IF token[t] \in Stored THEN "removed" ELSE token[t]

\* ensure_canary_tokens: the canonical tokens are there and active, whatever an
\* operator did; others are removed unless they were triggered.
EnsureToken(t) ==
    IF t \in Canonical THEN "active"
    ELSE IF token[t] \in Stored /\ triggers[t] = 0 THEN "removed" ELSE token[t]

\* The cache and the calls under way are lost.
RebootBackend ==
    /\ boots < MaxBoots
    /\ boots' = boots + 1
    /\ nonces' = <<>> /\ calls' = <<>>
    /\ token' = [t \in Tokens |-> EnsureToken(t)]
    /\ UNCHANGED <<minute, tripped, posted, accepted, triggers, alarmed>>

\* ...and of the tripwire, its cooldowns.
RebootTripwire ==
    /\ tripped' = <<>>
    /\ UNCHANGED <<minute, posted, nonces, accepted, calls, token, triggers, alarmed, boots>>

MinutePasses ==
    /\ minute < MaxMinutes
    /\ minute' = minute + 1
    /\ UNCHANGED <<tripped, posted, nonces, accepted, calls, token, triggers, alarmed, boots>>

WebhookNext ==
    \/ MinutePasses \/ RebootBackend \/ RebootTripwire
    \/ \E n \in Notices : FireWebhook(n) \/ AcceptNotice(n)
    \/ \E c \in 1 .. MaxCalls : CommitNotice(c) \/ NoticeFails(c)
    \/ \E t \in Tokens : CreateCanaryToken(t) \/ DeleteCanaryToken(t)

WebhookSpec == WebhookInit /\ [][WebhookNext]_webhookVars

-----------------------------------------------------------------------------
\* A notice that comes again is accepted again only by a backend that was
\* started in between, or that has accepted as many others in between as the
\* cache holds.
ReplayNeedsFlood ==
    \A i, j \in DOMAIN accepted :
      i < j /\ accepted[i] = accepted[j] => j - i > MaxNonces

\* The count of a token never exceeds its committed alarms, whatever calls
\* overlap, and is never zero once there was one: so a token that has ever
\* given an alarm survives every restart.
TriggeredTokensStay ==
    \A t \in Tokens :
      LET mine == {c \in alarmed : TokenOf[accepted[c][1]] = t}
      IN  /\ triggers[t] <= Cardinality(mine)
          /\ mine # {} => triggers[t] > 0 /\ token[t] \in Stored
=============================================================================
