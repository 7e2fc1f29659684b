------------------------------ MODULE LLMRouter ------------------------------
(***************************************************************************)
(* complete_messages of llm/router.py: calls of several threads walk the     *)
(* model chain of their role and share one table of cooldowns. A provider    *)
(* answers, answers nothing, fails in a way that sends the call to the next  *)
(* model, or fails in another way. The clock is time.monotonic in ticks long *)
(* enough for a request; what a call does between requests takes no time, but *)
(* there is no lock: steps of other calls may come anywhere in between.       *)
(***************************************************************************)
EXTENDS Naturals, Sequences

CONSTANTS
    Models,    \* LiteLLM model ids
    Keyed,     \* the models whose provider key is configured
    Roles,     \* "fast", "answer", ...
    Chain,     \* the chain of each role
    Calls,     \* calls in flight
    Cooldown,  \* llm_cooldown_s, in ticks
    Horizon    \* bound: the clock stops here

ASSUME ChainAssumption ==
    /\ Keyed \subseteq Models
    /\ Chain \in [Roles -> Seq(Models)]
ASSUME TimeAssumption == Cooldown \in Nat /\ Horizon \in Nat

VARIABLES
    clock,
    until,     \* _cooldown_until
    call,      \* each call: where it is, its role, the time it began and the position in
               \* its chain; "rested" once the model there has passed the cooldown test,
               \* "sent" while the request to it is out
    tried,     \* history: the models a call has sent a request to
    cooling,   \* history: the models a call has passed over as cooling
    failedAt   \* history: one more than the time of a model's last failure, 0 if none

vars == <<clock, until, call, tried, cooling, failedAt>>

InCall == {"walk", "rested", "sent"}
Pc == InCall \cup {"idle", "answered", "unavailable", "raised"}

TypeOK ==
    /\ clock \in Nat
    /\ until \in [Models -> Nat]
    /\ call \in [Calls -> [pc : Pc, role : Roles, now : Nat, i : Nat]]
    /\ tried \in [Calls -> SUBSET Models]
    /\ cooling \in [Calls -> SUBSET Models]
    /\ failedAt \in [Models -> Nat]
    /\ \A c \in Calls : call[c].pc \in InCall => call[c].i >= 1
    /\ \A c \in Calls : call[c].pc \in {"rested", "sent"} => call[c].i <= Len(Chain[call[c].role])

Init ==
    /\ clock = 0
    /\ until = [m \in Models |-> 0]
    /\ call \in [Calls -> [pc : {"idle"}, role : Roles, now : {0}, i : {0}]]
    /\ tried = [c \in Calls |-> {}]
    /\ cooling = [c \in Calls |-> {}]
    /\ failedAt = [m \in Models |-> 0]

-----------------------------------------------------------------------------
Walking(c) == call[c].pc = "walk" /\ call[c].i <= Len(Chain[call[c].role])
Model(c) == Chain[call[c].role][call[c].i]

(* The cooldown is compared with the time the call began, not with the time   *)
(* of the comparison.                                                        *)
Cooling(c) == until[Model(c)] > call[c].now

MutBegin(c, r) ==
    /\ call[c].pc \notin InCall
    /\ call' = [call EXCEPT ![c] = [pc |-> "walk", role |-> r, now |-> clock, i |-> 0]]
    /\ tried' = [tried EXCEPT ![c] = {}]
    /\ cooling' = [cooling EXCEPT ![c] = {}]
    /\ UNCHANGED <<clock, until, failedAt>>

(* A call begins, in a thread that has none or whose last one is over.        *)
Begin(c, r) ==
    /\ call[c].pc \notin InCall
    /\ call' = [call EXCEPT ![c] = [pc |-> "walk", role |-> r, now |-> clock, i |-> 1]]
    /\ tried' = [tried EXCEPT ![c] = {}]
    /\ cooling' = [cooling EXCEPT ![c] = {}]
    /\ UNCHANGED <<clock, until, failedAt>>

MutOn(c) == call' = [call EXCEPT ![c].pc = "walk"]
On(c) == call' = [call EXCEPT ![c] = [pc |-> "walk", role |-> @.role, now |-> @.now, i |-> @.i + 1]]
End(c, pc) == call' = [call EXCEPT ![c] = [pc |-> pc, role |-> @.role, now |-> 0, i |-> 0]]

(* No key, or cooling down: pass over the model.                             *)
Pass(c) ==
    /\ Walking(c)
    /\ Model(c) \notin Keyed \/ Cooling(c)
    /\ cooling' = IF Model(c) \in Keyed
                 THEN [cooling EXCEPT ![c] = @ \cup {Model(c)}] ELSE cooling
    /\ On(c)
    /\ UNCHANGED <<clock, until, tried, failedAt>>

(* The model has a key and is not cooling down. By the time the request goes   *)
(* out another call may have put it in a cooldown.                            *)
Rested(c) ==
    /\ Walking(c)
    /\ Model(c) \in Keyed /\ ~Cooling(c)
    /\ call' = [call EXCEPT ![c].pc = "rested"]
    /\ UNCHANGED <<clock, until, tried, cooling, failedAt>>

Send(c) ==
    /\ call[c].pc = "rested"
    /\ tried' = [tried EXCEPT ![c] = @ \cup {Model(c)}]
    /\ call' = [call EXCEPT ![c].pc = "sent"]
    /\ UNCHANGED <<clock, until, cooling, failedAt>>

Answer(c) ==
    /\ call[c].pc = "sent"
    /\ End(c, "answered")
    /\ UNCHANGED <<clock, until, tried, cooling, failedAt>>

MutEmpty(c) ==
    /\ call[c].pc = "sent"
    /\ End(c, "unavailable")
    /\ UNCHANGED <<clock, until, tried, cooling, failedAt>>

(* An empty completion is a failure of this call, not of the model.          *)
Empty(c) ==
    /\ call[c].pc = "sent"
    /\ On(c)
    /\ UNCHANGED <<clock, until, tried, cooling, failedAt>>

MutProviderError(c) ==
    /\ call[c].pc = "sent"
    /\ failedAt' = [failedAt EXCEPT ![Model(c)] = clock + 1]
    /\ until' = [until EXCEPT ![Model(c)] = call[c].now + Cooldown]
    /\ On(c)
    /\ UNCHANGED <<clock, tried, cooling>>

(* Rate limit, connection, server, timeout or authentication error. The time  *)
(* read and the store next to it are one step: nothing blocks in between.     *)
ProviderError(c) ==
    /\ call[c].pc = "sent"
    /\ failedAt' = [failedAt EXCEPT ![Model(c)] = clock + 1]
    /\ until' = [until EXCEPT ![Model(c)] = clock + Cooldown]
    /\ On(c)
    /\ UNCHANGED <<clock, tried, cooling>>

(* Any other exception leaves complete_messages.                             *)
OtherError(c) ==
    /\ call[c].pc = "sent"
    /\ End(c, "raised")
    /\ UNCHANGED <<clock, until, tried, cooling, failedAt>>

Unavailable(c) ==
    /\ call[c].pc = "walk" /\ ~Walking(c)
    /\ End(c, "unavailable")
    /\ UNCHANGED <<clock, until, tried, cooling, failedAt>>

Tick ==
    /\ clock < Horizon /\ \A c \in Calls : call[c].pc \notin {"walk", "rested"}
    /\ clock' = clock + 1
    /\ UNCHANGED <<until, call, tried, cooling, failedAt>>

Step(c) == Pass(c) \/ Rested(c) \/ Send(c) \/ Unavailable(c)
Reply(c) == Answer(c) \/ Empty(c) \/ ProviderError(c) \/ OtherError(c)

Next ==
    \/ Tick
    \/ \E c \in Calls : Step(c) \/ Reply(c) \/ \E r \in Roles : Begin(c, r)

(* Threads run on, and every request is answered or times out (litellm's own  *)
(* timeout). Nobody has to begin a call.                                     *)
Spec == Init /\ [][Next]_vars
FairSpec == Spec /\ \A c \in Calls : WF_vars(Step(c)) /\ WF_vars(Reply(c))

-----------------------------------------------------------------------------
(* LLMUnavailable is the last resort: every keyed model of the chain was asked *)
(* in this call and failed, or was cooling when the call came by.             *)
UnavailableIsEarned ==
    \A c \in Calls : call[c].pc = "unavailable" =>
        \A i \in DOMAIN Chain[call[c].role] :
            Chain[call[c].role][i] \in Keyed => Chain[call[c].role][i] \in tried[c] \cup cooling[c]

(* A call takes a model for rested only if no thread has seen it failing within *)
(* the last Cooldown ticks before the call began, whichever role it failed for. *)
(* A failure that another call records between this test and the request is too *)
(* late to stop the request, and only such a one is: it is of this moment.      *)
RestedAt(c) == failedAt[Model(c)] > 0 => call[c].now >= failedAt[Model(c)] - 1 + Cooldown

AsksOnlyRested ==
    [][\A c \in Calls :
          /\ call[c].pc = "walk" /\ call'[c].pc = "rested" => RestedAt(c)
          /\ call[c].pc # "sent" /\ call'[c].pc = "sent" =>
                RestedAt(c) \/ failedAt[Model(c)] = clock + 1]_vars

(* A call falls back down its chain and never up: all it has asked so far come *)
(* earlier in the chain, so it asks a model the chain names once at most once. *)
ChainOrder ==
    [][\A c \in Calls : call[c].pc # "sent" /\ call'[c].pc = "sent"
          => \A m \in tried[c] : \E j \in 1..(call[c].i - 1) : Chain[call[c].role][j] = m]_vars

(* Every call ends, in an answer, in LLMUnavailable or in another exception.  *)
CallEnds == \A c \in Calls : (call[c].pc \in InCall) ~> (call[c].pc \notin InCall)

=============================================================================
