------------------------------- MODULE Gateway -------------------------------
(***************************************************************************)
(* The LLM gateway (llm_adapter/client.py, llm_adapter/providers): one     *)
(* completion tries its providers one after the other, a provider tries    *)
(* its API keys in turn, and a key is tried again after a pause while it   *)
(* is rate limited.  Every provider asked leaves one LLMRequest row.       *)
(*                                                                         *)
(* A client is made for one completion, or for several in a row, which     *)
(* then start at the key and speak of the provider the last one left.      *)
(* Callers share nothing but the log.                                      *)
(*                                                                         *)
(* A definition introduced as "Variant" is one with a plausible bug, used  *)
(* only to show that a property notices it; Next uses none.                *)
(***************************************************************************)
EXTENDS Integers, Sequences, FiniteSets

CONSTANTS
    Callers,       \* who may ask for a completion, one at a time
    Chain,         \* the providers of each caller's client, the fallback last
    Keys,          \* how many API keys each provider has
    MaxRetries     \* _MAX_RETRIES

ASSUME GatewayAssumption ==
    /\ \A c \in Callers : Chain[c] \in Seq(DOMAIN Keys) /\ Len(Chain[c]) > 0
    /\ \A p \in DOMAIN Keys : Keys[p] \in Nat \ {0}
    /\ MaxRetries \in Nat

VARIABLES
    call,       \* the completion of each caller
    keyInUse,   \* _current_key_index of each provider of the caller's client
    lastUsed,   \* the provider get_model_name and get_provider_info speak of
    tries,      \* history: requests sent with each key for this completion
    logged      \* the LLMRequest rows of this completion: how each provider's turn ended

gatewayVars == <<call, keyInUse, lastUsed, tries, logged>>

KeyIds == UNION {1 .. Keys[p] : p \in DOMAIN Keys}

\* state: what the caller sees; nth: the provider of the chain that is asked;
\* attempt, keysTried: the loops of _call_api.
NewCall(state, n) == [state |-> state, nth |-> n, attempt |-> 0, keysTried |-> 0]
NoCall == NewCall("idle", 1)
FirstKeys(c) == [n \in DOMAIN Chain[c] |-> 1]
Provider(c) == Chain[c][call[c].nth]
ApiKey(c) == keyInUse[c][call[c].nth]
Fresh(c) == [n \in DOMAIN Chain[c] |-> [k \in KeyIds |-> 0]]

GatewayInit ==
    /\ call = [c \in Callers |-> NoCall]
    /\ keyInUse = [c \in Callers |-> FirstKeys(c)]
    /\ lastUsed = [c \in Callers |-> Chain[c][1]]
    /\ tries = [c \in Callers |-> Fresh(c)]
    /\ logged = [c \in Callers |-> << >>]

Begin(c) == call[c].state = "idle" /\ call' = [call EXCEPT ![c] = NewCall("asking", 1)]

\* complete() is called on a client made for it ...
Ask(c) ==
    /\ Begin(c)
    /\ keyInUse' = [keyInUse EXCEPT ![c] = FirstKeys(c)]
    /\ lastUsed' = [lastUsed EXCEPT ![c] = Chain[c][1]]
    /\ UNCHANGED <<tries, logged>>

\* ... or on the client of the completion before.
AskAgain(c) == Begin(c) /\ UNCHANGED <<keyInUse, lastUsed, tries, logged>>

Sent(c) == tries' = [tries EXCEPT ![c][call[c].nth][ApiKey(c)] = @ + 1]
Row(c, end) == logged' = [logged EXCEPT ![c] = Append(@, end)]

Answer(c) ==
    /\ call[c].state = "asking" /\ Sent(c)
    /\ call' = [call EXCEPT ![c].state = "answered"]
    /\ lastUsed' = [lastUsed EXCEPT ![c] = Provider(c)]
    /\ Row(c, "ok") /\ UNCHANGED keyInUse

\* The provider gives up: the next of the chain is asked, or the caller gets
\* the exception.
GiveUp(c, reason) ==
    /\ call' = [call EXCEPT ![c] =
        IF call[c].nth = Len(Chain[c]) THEN [@ EXCEPT !.state = "raised"]
        ELSE NewCall("asking", call[c].nth + 1)]
    /\ Row(c, reason)

\* _rotate_key.
NextKey(c) == (ApiKey(c) % Keys[Provider(c)]) + 1
Rotated(c) == keyInUse' = [keyInUse EXCEPT ![c][call[c].nth] = NextKey(c)]

\* Variant: the keys tried are not counted.
Uncounted(c) == call[c].keysTried
Counted(c) == call[c].keysTried + 1
\* Variant: the last key of the list is taken to be the last one to try.
ExhaustedAtLast(c) == ApiKey(c) = Keys[Provider(c)]
\* All keys of the provider have been tried.
Exhausted(c) == Counted(c) = Keys[Provider(c)]

\* A key that is refused for the last time is left, the last one to try too.
RateLimited(c) ==
    /\ call[c].state = "asking" /\ Sent(c)
    /\ UNCHANGED lastUsed
    /\ \/ /\ call[c].attempt < MaxRetries
          /\ call' = [call EXCEPT ![c].attempt = @ + 1]
          /\ UNCHANGED <<keyInUse, logged>>
       \/ call[c].attempt = MaxRetries /\ Rotated(c) /\ Exhausted(c) /\ GiveUp(c, "limited")
       \/ /\ call[c].attempt = MaxRetries /\ Rotated(c) /\ ~Exhausted(c)
          /\ call' = [call EXCEPT ![c].attempt = 0, ![c].keysTried = Counted(c)]
          /\ UNCHANGED logged

\* Any other exception of the API ends the provider's turn at once.
Refused(c) ==
    /\ call[c].state = "asking" /\ Sent(c) /\ GiveUp(c, "refused")
    /\ UNCHANGED <<keyInUse, lastUsed>>

\* The caller has what it asked for; the history of the completion ends.
Done(c) ==
    /\ call' = [call EXCEPT ![c] = NoCall]
    /\ tries' = [tries EXCEPT ![c] = Fresh(c)]
    /\ logged' = [logged EXCEPT ![c] = << >>]
    /\ UNCHANGED <<keyInUse, lastUsed>>

GatewayStep(c) == Answer(c) \/ RateLimited(c) \/ Refused(c)

-----------------------------------------------------------------------------

GatewayTypeOK ==
    /\ \A c \in Callers :
        /\ call[c] \in [state : {"idle", "asking", "answered", "raised"},
                        nth : DOMAIN Chain[c],
                        attempt : 0 .. MaxRetries, keysTried : {0} \cup KeyIds]
        /\ \A n \in DOMAIN Chain[c] : keyInUse[c][n] \in 1 .. Keys[Chain[c][n]]
        /\ lastUsed[c] \in DOMAIN Keys
        /\ tries[c] \in [DOMAIN Chain[c] -> [KeyIds -> 0 .. MaxRetries + 1]]
        /\ logged[c] \in Seq({"ok", "limited", "refused"})

\* A provider is given up for its rate limit only after each of its keys has
\* been tried MaxRetries + 1 times; every provider asked has left one row, and
\* the one that get_model_name names is the one that answered.
EveryKeyTried ==
    \A c \in Callers :
        /\ \A n \in DOMAIN logged[c] : logged[c][n] = "limited" =>
            \A k \in 1 .. Keys[Chain[c][n]] : tries[c][n][k] = MaxRetries + 1
        /\ call[c].state # "idle" =>
            Len(logged[c]) = IF call[c].state = "asking" THEN call[c].nth - 1 ELSE call[c].nth
        /\ call[c].state = "answered" =>
            logged[c][call[c].nth] = "ok" /\ lastUsed[c] = Provider(c)

=============================================================================
