--------------------------- MODULE LLMRouter_proofs ---------------------------
(***************************************************************************)
(* Theorems about the router for every set of models, chains and calls. The  *)
(* invariant Walked says what a call has done with the part of its chain it  *)
(* has left behind: each keyed model of it was asked, or passed as cooling.  *)
(***************************************************************************)
EXTENDS LLMRouter, TLAPS

InFlight(c) == call[c].pc \in InCall
At(c, j) == Chain[call[c].role][j]

(* Behind position i every keyed model was asked or cooling, and only models *)
(* behind it, or at it while its request is out, were asked.                 *)
Covered(c) ==
    \A j \in 1..Len(Chain[call[c].role]) :
        j < call[c].i /\ At(c, j) \in Keyed => At(c, j) \in tried[c] \cup cooling[c]
Backward(c) ==
    \A m \in tried[c] : \E j \in 1..Len(Chain[call[c].role]) :
        At(c, j) = m /\ (j < call[c].i \/ (j = call[c].i /\ call[c].pc = "sent"))
Current(c) == call[c].pc = "sent" => Model(c) \in tried[c]
WalkedBy(c) == InFlight(c) => Covered(c) /\ Backward(c) /\ Current(c)
Walked == \A c \in Calls : WalkedBy(c)

Earned(c) ==
    call[c].pc = "unavailable" =>
        \A i \in 1..Len(Chain[call[c].role]) :
            Chain[call[c].role][i] \in Keyed => Chain[call[c].role][i] \in tried[c] \cup cooling[c]

(* The table holds the end of the cooldown after each model's last failure.  *)
CooldownKept == \A m \in Models : failedAt[m] > 0 => until[m] = failedAt[m] - 1 + Cooldown

(* A model that passed the test is rested, or has failed since, at this very  *)
(* time: the clock waits for the request to go out.                            *)
TestKept ==
    \A c \in Calls : call[c].pc = "rested" => RestedAt(c) \/ failedAt[Model(c)] = clock + 1

IInv == TypeOK /\ Walked /\ (\A c \in Calls : Earned(c)) /\ CooldownKept /\ TestKept

-----------------------------------------------------------------------------
LEMMA ChainFacts ==
    ASSUME NEW r \in Roles
    PROVE  /\ Chain[r] \in Seq(Models)
           /\ Len(Chain[r]) \in Nat
           /\ DOMAIN Chain[r] = 1..Len(Chain[r])
           /\ \A j \in 1..Len(Chain[r]) : Chain[r][j] \in Models
BY ChainAssumption

LEMMA CallFacts ==
    ASSUME TypeOK, NEW c \in Calls
    PROVE  /\ call[c].pc \in Pc /\ call[c].role \in Roles
           /\ call[c].now \in Nat /\ call[c].i \in Nat
           /\ InFlight(c) => call[c].i >= 1
           /\ call[c].pc \in {"rested", "sent"} => call[c].i <= Len(Chain[call[c].role])
           /\ Walking(c) \/ call[c].pc \in {"rested", "sent"} =>
                 Model(c) \in Models /\ call[c].i \in DOMAIN Chain[call[c].role]
<1>1. /\ call[c].pc \in Pc /\ call[c].role \in Roles
      /\ call[c].now \in Nat /\ call[c].i \in Nat
      /\ InFlight(c) => call[c].i >= 1
      /\ call[c].pc \in {"rested", "sent"} => call[c].i <= Len(Chain[call[c].role])
  BY DEF TypeOK, InFlight
<1> QED BY <1>1, ChainFacts DEF Walking, Model, InFlight, InCall

LEMMA InitIInv == Init => IInv
<1> SUFFICES ASSUME Init PROVE IInv
  OBVIOUS
<1>1. TypeOK
  BY DEF Init, TypeOK, Pc, InCall
<1>2. \A c \in Calls : WalkedBy(c) /\ Earned(c)
  BY DEF Init, WalkedBy, InFlight, InCall, Earned
<1>3. TestKept
  BY DEF Init, TestKept
<1> QED BY <1>1, <1>2, <1>3 DEF Init, IInv, Walked, CooldownKept

(* ------------------------------ types ------------------------------ *)
LEMMA MovedType ==
    ASSUME TypeOK, NEW c \in Calls,
           NEW x \in [pc : Pc, role : Roles, now : Nat, i : Nat],
           call' = [call EXCEPT ![c] = x],
           x.pc \in InCall => x.i >= 1,
           x.pc \in {"rested", "sent"} => x.i <= Len(Chain[x.role]),
           clock' \in Nat, until' \in [Models -> Nat], failedAt' \in [Models -> Nat],
           tried' \in [Calls -> SUBSET Models], cooling' \in [Calls -> SUBSET Models]
    PROVE  TypeOK'
BY DEF TypeOK

LEMMA OnType ==
    ASSUME TypeOK, NEW c \in Calls, InFlight(c), On(c),
           clock' \in Nat, until' \in [Models -> Nat], failedAt' \in [Models -> Nat],
           tried' \in [Calls -> SUBSET Models], cooling' \in [Calls -> SUBSET Models]
    PROVE  TypeOK'
<1> DEFINE x == [pc |-> "walk", role |-> call[c].role, now |-> call[c].now, i |-> call[c].i + 1]
<1>1. x \in [pc : Pc, role : Roles, now : Nat, i : Nat]
  BY CallFacts DEF Pc, InCall
<1>2. x.pc = "walk" /\ x.i >= 1
  BY CallFacts DEF TypeOK
<1>3. call' = [call EXCEPT ![c] = x]
  BY DEF On
<1> HIDE DEF x
<1> QED BY <1>1, <1>2, <1>3, MovedType

LEMMA NextType == TypeOK /\ [Next]_vars => TypeOK'
<1> SUFFICES ASSUME TypeOK, [Next]_vars PROVE TypeOK'
  OBVIOUS
<1> USE TimeAssumption
<1>1. CASE Tick
  BY <1>1 DEF Tick, TypeOK
<1>2. ASSUME NEW c \in Calls, NEW r \in Roles, Begin(c, r) PROVE TypeOK'
  BY <1>2 DEF Begin, TypeOK, Pc, InCall
<1>3. ASSUME NEW c \in Calls, Pass(c) PROVE TypeOK'
  <2>1. Model(c) \in Models
    BY <1>3, CallFacts DEF Pass
  <2>2. cooling' \in [Calls -> SUBSET Models]
    BY <1>3, <2>1 DEF Pass, TypeOK
  <2> QED BY <1>3, <2>2, OnType DEF Pass, Walking, InFlight, InCall, TypeOK
<1>4. ASSUME NEW c \in Calls, Rested(c) PROVE TypeOK'
  <2>1. call[c].i <= Len(Chain[call[c].role]) /\ call[c].i >= 1
    BY <1>4, CallFacts DEF Rested, Walking, InFlight, InCall
  <2>2. call' = [call EXCEPT ![c] = [@ EXCEPT !.pc = "rested"]]
    BY <1>4 DEF Rested
  <2>3. [call[c] EXCEPT !.pc = "rested"] \in [pc : Pc, role : Roles, now : Nat, i : Nat]
    BY DEF TypeOK, Pc, InCall
  <2> QED BY <1>4, <2>1, <2>2, <2>3, MovedType DEF Rested, TypeOK
<1>5. ASSUME NEW c \in Calls, Send(c) PROVE TypeOK'
  <2>1. Model(c) \in Models /\ call[c].i <= Len(Chain[call[c].role]) /\ call[c].i >= 1
    BY <1>5, CallFacts DEF Send, InFlight, InCall
  <2>2. tried' \in [Calls -> SUBSET Models]
    BY <1>5, <2>1 DEF Send, TypeOK
  <2>3. call' = [call EXCEPT ![c] = [@ EXCEPT !.pc = "sent"]]
    BY <1>5 DEF Send
  <2>4. [call[c] EXCEPT !.pc = "sent"] \in [pc : Pc, role : Roles, now : Nat, i : Nat]
    BY DEF TypeOK, Pc, InCall
  <2> QED BY <1>5, <2>1, <2>2, <2>3, <2>4, MovedType DEF Send, TypeOK
<1>6. ASSUME NEW c \in Calls, NEW pc \in Pc \ InCall, End(c, pc),
             UNCHANGED <<clock, until, tried, cooling, failedAt>>
      PROVE  TypeOK'
  BY <1>6, CallFacts DEF End, TypeOK, Pc, InCall
<1>7. ASSUME NEW c \in Calls, Empty(c) PROVE TypeOK'
  BY <1>7, OnType DEF Empty, InFlight, InCall, TypeOK
<1>8. ASSUME NEW c \in Calls, ProviderError(c) PROVE TypeOK'
  <2>1. clock' \in Nat /\ until' \in [Models -> Nat] /\ failedAt' \in [Models -> Nat]
    <3>1. clock + 1 \in Nat /\ clock + Cooldown \in Nat
      BY DEF TypeOK
    <3>2. clock' = clock /\ UNCHANGED <<tried, cooling>>
      BY <1>8 DEF ProviderError
    <3>3. until' \in [Models -> Nat]
      BY <1>8, <3>1 DEF ProviderError, TypeOK
    <3>4. failedAt' \in [Models -> Nat]
      BY <1>8, <3>1 DEF ProviderError, TypeOK
    <3> QED BY <3>2, <3>3, <3>4 DEF TypeOK
  <2>2. UNCHANGED <<tried, cooling>> /\ On(c) /\ InFlight(c)
    BY <1>8 DEF ProviderError, InFlight, InCall
  <2> QED BY <2>1, <2>2, OnType DEF TypeOK
<1>9. CASE UNCHANGED vars
  BY <1>9 DEF vars, TypeOK
<1> QED
  BY <1>1, <1>2, <1>3, <1>4, <1>5, <1>6, <1>7, <1>8, <1>9
     DEF Next, Step, Reply, Answer, OtherError, Unavailable, Pc, InCall

(* ------------------- what a call has done with its chain ------------------- *)
(* A step of one call leaves the others' part of the invariant as it was.     *)
LEMMA OtherCalls ==
    ASSUME NEW c \in Calls, Walked, \A e \in Calls : Earned(e),
           \A e \in Calls : e # c => /\ call'[e] = call[e] /\ tried'[e] = tried[e]
                                     /\ cooling'[e] = cooling[e],
           WalkedBy(c)', Earned(c)'
    PROVE  Walked' /\ \A e \in Calls : Earned(e)'
<1>1. ASSUME NEW e \in Calls, e # c PROVE WalkedBy(e)' /\ Earned(e)'
  <2>1. call'[e] = call[e] /\ tried'[e] = tried[e] /\ cooling'[e] = cooling[e]
    BY <1>1
  <2>2. WalkedBy(e) /\ Earned(e)
    BY DEF Walked
  <2>3. (Covered(e) => Covered(e)') /\ (Backward(e) => Backward(e)')
    BY <2>1 DEF Covered, Backward, At
  <2>4. (Current(e) => Current(e)') /\ (InFlight(e)' => InFlight(e))
    BY <2>1 DEF Current, Model, InFlight
  <2>5. Earned(e)'
    BY <2>1, <2>2 DEF Earned
  <2> QED BY <2>2, <2>3, <2>4, <2>5 DEF WalkedBy
<1> QED BY <1>1 DEF Walked

(* Moving on from position i is safe when the model at i is without a key, or *)
(* was asked, or was passed as cooling.                                       *)
LEMMA OnWalked ==
    ASSUME TypeOK, NEW c \in Calls, InFlight(c), WalkedBy(c), On(c),
           call[c].i <= Len(Chain[call[c].role]),
           tried'[c] = tried[c], cooling[c] \subseteq cooling'[c],
           Model(c) \in Keyed => Model(c) \in tried'[c] \cup cooling'[c]
    PROVE  WalkedBy(c)' /\ Earned(c)'
<1>1. /\ call'[c].pc = "walk" /\ call'[c].role = call[c].role
      /\ call'[c].i = call[c].i + 1
  BY DEF On, TypeOK
<1>2. call[c].i \in Nat /\ Len(Chain[call[c].role]) \in Nat
  BY CallFacts, ChainFacts
<1>3. Covered(c)'
  BY <1>1, <1>2 DEF WalkedBy, Covered, At, Model
<1>4. Backward(c)'
  BY <1>1, <1>2 DEF WalkedBy, Backward, At
<1> QED BY <1>1, <1>3, <1>4 DEF WalkedBy, Current, Earned

LEMMA NextWalked == IInv /\ [Next]_vars => Walked' /\ \A c \in Calls : Earned(c)'
<1> SUFFICES ASSUME IInv, [Next]_vars PROVE Walked' /\ \A c \in Calls : Earned(c)'
  OBVIOUS
<1> USE DEF IInv
<1>1. CASE Tick
  BY <1>1 DEF Tick, Walked, WalkedBy, InFlight, Covered, Backward, Current, Model, At, Earned
<1>2. ASSUME NEW c \in Calls, NEW r \in Roles, Begin(c, r)
      PROVE  Walked' /\ \A e \in Calls : Earned(e)'
  <2>1. call'[c].pc = "walk" /\ call'[c].i = 1 /\ tried'[c] = {} /\ call'[c].role = r
    BY <1>2 DEF Begin, TypeOK
  <2>2. WalkedBy(c)' /\ Earned(c)'
    BY <2>1, ChainFacts DEF WalkedBy, Covered, Backward, Current, Earned
  <2> QED BY <1>2, <2>2, OtherCalls DEF Begin, TypeOK
<1>3. ASSUME NEW c \in Calls, Pass(c) PROVE Walked' /\ \A e \in Calls : Earned(e)'
  <2>1. InFlight(c) /\ WalkedBy(c) /\ On(c) /\ call[c].i <= Len(Chain[call[c].role])
    BY <1>3 DEF Pass, Walking, InFlight, InCall, Walked
  <2>2. cooling[c] \subseteq cooling'[c] /\ (Model(c) \in Keyed => Model(c) \in cooling'[c])
    BY <1>3 DEF Pass, TypeOK
  <2>3. WalkedBy(c)' /\ Earned(c)'
    BY <1>3, <2>1, <2>2, OnWalked DEF Pass
  <2> QED BY <1>3, <2>3, OtherCalls DEF Pass, On, TypeOK
<1>4. ASSUME NEW c \in Calls, Rested(c) PROVE Walked' /\ \A e \in Calls : Earned(e)'
  <2>1. /\ call[c].pc = "walk" /\ call'[c].pc = "rested" /\ call'[c].role = call[c].role
        /\ call'[c].i = call[c].i /\ tried'[c] = tried[c] /\ cooling'[c] = cooling[c]
    BY <1>4 DEF Rested, Walking, TypeOK
  <2>2. Covered(c) /\ Backward(c)
    BY <2>1 DEF Walked, WalkedBy, InFlight, InCall
  <2>3. Covered(c)' /\ Backward(c)'
    BY <2>1, <2>2 DEF Covered, Backward, At
  <2>4. WalkedBy(c)' /\ Earned(c)'
    BY <2>1, <2>3 DEF WalkedBy, Current, Earned
  <2> QED BY <1>4, <2>4, OtherCalls DEF Rested, TypeOK
<1>5. ASSUME NEW c \in Calls, Send(c) PROVE Walked' /\ \A e \in Calls : Earned(e)'
  <2>1. /\ call'[c].pc = "sent" /\ call'[c].role = call[c].role /\ call'[c].i = call[c].i
        /\ tried'[c] = tried[c] \cup {Model(c)} /\ cooling'[c] = cooling[c]
    BY <1>5 DEF Send, TypeOK
  <2>2. WalkedBy(c) /\ InFlight(c) /\ call[c].pc = "rested"
    BY <1>5 DEF Send, InFlight, InCall, Walked
  <2>3. call[c].i \in 1..Len(Chain[call[c].role])
    BY <1>5, CallFacts, ChainFacts DEF Send
  <2>4. Covered(c)' /\ Current(c)'
    BY <2>1, <2>2 DEF WalkedBy, Covered, Current, Model, At
  <2>5. Backward(c)'
    BY <2>1, <2>2, <2>3 DEF WalkedBy, Backward, Model, At
  <2>6. Earned(c)'
    BY <2>1 DEF Earned
  <2>7. WalkedBy(c)'
    BY <2>4, <2>5 DEF WalkedBy
  <2> QED BY <1>5, <2>6, <2>7, OtherCalls DEF Send, TypeOK
<1>6. ASSUME NEW c \in Calls, NEW pc \in {"answered", "raised"}, End(c, pc),
             UNCHANGED <<tried, cooling>>
      PROVE  Walked' /\ \A e \in Calls : Earned(e)'
  <2>1. WalkedBy(c)' /\ Earned(c)'
    BY <1>6 DEF End, TypeOK, WalkedBy, InFlight, InCall, Earned
  <2> QED BY <1>6, <2>1, OtherCalls DEF End, TypeOK
<1>7. ASSUME NEW c \in Calls, call[c].pc = "sent", On(c), UNCHANGED <<tried, cooling>>
      PROVE  Walked' /\ \A e \in Calls : Earned(e)'
  <2>1. InFlight(c) /\ WalkedBy(c) /\ Model(c) \in tried[c]
    BY <1>7 DEF InFlight, InCall, Walked, WalkedBy, Current
  <2>2. call[c].i <= Len(Chain[call[c].role])
    BY <1>7, CallFacts
  <2>3. WalkedBy(c)' /\ Earned(c)'
    BY <1>7, <2>1, <2>2, OnWalked
  <2> QED BY <1>7, <2>3, OtherCalls DEF On, TypeOK
<1>8. ASSUME NEW c \in Calls, Unavailable(c) PROVE Walked' /\ \A e \in Calls : Earned(e)'
  <2>1. Covered(c) /\ call[c].i > Len(Chain[call[c].role])
    BY <1>8, CallFacts, ChainFacts DEF Unavailable, Walking, Walked, WalkedBy, InFlight, InCall
  <2>2. call'[c].pc = "unavailable" /\ call'[c].role = call[c].role
    BY <1>8 DEF Unavailable, End, TypeOK
  <2>3. UNCHANGED <<tried, cooling>>
    BY <1>8 DEF Unavailable
  <2>4. Earned(c)'
    BY <2>1, <2>2, <2>3, CallFacts, ChainFacts DEF Earned, Covered, At
  <2>5. WalkedBy(c)'
    BY <2>2 DEF WalkedBy, InFlight, InCall
  <2> QED BY <1>8, <2>4, <2>5, OtherCalls DEF Unavailable, End, TypeOK
<1>9. CASE UNCHANGED vars
  BY <1>9 DEF vars, Walked, WalkedBy, InFlight, Covered, Backward, Current, Model, At, Earned
<1> QED
  BY <1>1, <1>2, <1>3, <1>4, <1>5, <1>6, <1>7, <1>8, <1>9
     DEF Next, Step, Reply, Answer, Empty, ProviderError, OtherError

(* -------------------------------- cooldowns -------------------------------- *)
LEMMA NextCooldown == IInv /\ [Next]_vars => CooldownKept'
<1> SUFFICES ASSUME IInv, [Next]_vars PROVE CooldownKept'
  OBVIOUS
<1>1. ASSUME NEW c \in Calls, ProviderError(c) PROVE CooldownKept'
  <2> SUFFICES ASSUME NEW m \in Models, failedAt'[m] > 0
               PROVE  until'[m] = failedAt'[m] - 1 + Cooldown
    BY DEF CooldownKept
  <2>1. CASE m = Model(c)
    <3>1. until'[m] = clock + Cooldown /\ failedAt'[m] = clock + 1
      BY <1>1, <2>1 DEF ProviderError, IInv, TypeOK
    <3> QED BY <3>1, TimeAssumption DEF IInv, TypeOK
  <2>2. CASE m # Model(c)
    BY <1>1, <2>2 DEF ProviderError, IInv, TypeOK, CooldownKept
  <2> QED BY <2>1, <2>2
<1>2. CASE UNCHANGED <<until, failedAt>>
  BY <1>2 DEF IInv, CooldownKept
<1> QED
  BY <1>1, <1>2
     DEF Next, Tick, Step, Reply, Begin, Pass, Rested, Send, Answer, Empty, OtherError, Unavailable,
         vars

(* What the table says of a model that is not cooling is true of its failures. *)
LEMMA NotCooling ==
    ASSUME TypeOK, CooldownKept, NEW c \in Calls, Walking(c), ~Cooling(c)
    PROVE  RestedAt(c)
<1>1. Model(c) \in Models /\ call[c].now \in Nat /\ until[Model(c)] \in Nat
  BY CallFacts DEF TypeOK
<1>2. failedAt[Model(c)] > 0 => until[Model(c)] = failedAt[Model(c)] - 1 + Cooldown
  BY <1>1 DEF CooldownKept
<1> QED BY <1>1, <1>2 DEF RestedAt, Cooling

LEMMA NextTest == IInv /\ [Next]_vars => TestKept'
<1> SUFFICES ASSUME IInv, [Next]_vars, NEW c \in Calls, call'[c].pc = "rested"
             PROVE  RestedAt(c)' \/ failedAt'[Model(c)'] = clock' + 1
  BY DEF TestKept
<1> USE DEF IInv
<1>1. CASE call'[c] = call[c] /\ clock' = clock
  <2>1. RestedAt(c) \/ failedAt[Model(c)] = clock + 1
    BY <1>1 DEF TestKept
  <2>2. Model(c)' = Model(c) /\ Model(c) \in Models
    BY <1>1, CallFacts DEF Model
  <2>3. failedAt'[Model(c)] = failedAt[Model(c)] \/ failedAt'[Model(c)] = clock + 1
    BY <2>2
       DEF Next, Tick, Step, Reply, Begin, Pass, Rested, Send, Answer, Empty, ProviderError,
           OtherError, Unavailable, vars, TypeOK
  <2> QED BY <1>1, <2>1, <2>2, <2>3 DEF RestedAt
<1>2. CASE ~(call'[c] = call[c] /\ clock' = clock)
  <2>1. CASE Tick
    BY <1>2, <2>1 DEF Tick
  <2>2. ASSUME NEW e \in Calls, NEW r \in Roles, Begin(e, r) PROVE FALSE
    BY <1>2, <2>2 DEF Begin, TypeOK
  <2>3. ASSUME NEW e \in Calls, On(e), UNCHANGED clock PROVE FALSE
    BY <1>2, <2>3 DEF On, TypeOK
  <2>4. ASSUME NEW e \in Calls, NEW pc \in {"answered", "unavailable", "raised"}, End(e, pc),
               UNCHANGED clock
        PROVE  FALSE
    BY <1>2, <2>4 DEF End, TypeOK
  <2>5. ASSUME NEW e \in Calls, Send(e) PROVE FALSE
    BY <1>2, <2>5 DEF Send, TypeOK
  <2>6. ASSUME NEW e \in Calls, Rested(e) PROVE RestedAt(c)'
    <3>1. e = c /\ RestedAt(c)
      BY <1>2, <2>6, NotCooling DEF Rested, TypeOK
    <3>2. call'[c].now = call[c].now /\ call'[c].role = call[c].role /\ call'[c].i = call[c].i
      BY <2>6, <3>1 DEF Rested, TypeOK
    <3> QED BY <2>6, <3>1, <3>2 DEF RestedAt, Model, Rested
  <2>7. CASE UNCHANGED vars
    BY <1>2, <2>7 DEF vars
  <2> QED
    BY <2>1, <2>2, <2>3, <2>4, <2>5, <2>6, <2>7
       DEF Next, Step, Reply, Pass, Answer, Empty, ProviderError, OtherError, Unavailable
<1> QED BY <1>1, <1>2

LEMMA NextIInv == IInv /\ [Next]_vars => IInv'
BY NextType, NextWalked, NextCooldown, NextTest DEF IInv

THEOREM Invariant == Spec => []IInv
BY InitIInv, NextIInv, PTL DEF Spec

-----------------------------------------------------------------------------
(* Every state of the router is well typed.                                   *)
THEOREM TypeCorrect == Spec => []TypeOK
<1>1. IInv => TypeOK
  BY DEF IInv
<1> QED BY <1>1, Invariant, PTL

(* LLMUnavailable is raised only when every keyed model of the chain was asked *)
(* in the call or was cooling when the call reached it, for chains of any      *)
(* length and any number of concurrent calls.                                  *)
THEOREM LastResort == Spec => []UnavailableIsEarned
<1>1. IInv => UnavailableIsEarned
  <2> SUFFICES ASSUME IInv, NEW c \in Calls, call[c].pc = "unavailable"
               PROVE  \A i \in DOMAIN Chain[call[c].role] :
                        Chain[call[c].role][i] \in Keyed =>
                          Chain[call[c].role][i] \in tried[c] \cup cooling[c]
    BY DEF UnavailableIsEarned
  <2>1. DOMAIN Chain[call[c].role] = 1..Len(Chain[call[c].role])
    BY CallFacts, ChainFacts DEF IInv
  <2> QED BY <2>1 DEF IInv, Earned
<1> QED BY <1>1, Invariant, PTL

LEMMA RequestStep ==
    ASSUME IInv, [Next]_vars, NEW c \in Calls, call'[c].pc # call[c].pc
    PROVE  /\ call'[c].pc = "rested" => Rested(c)
           /\ call'[c].pc = "sent" => Send(c)
<1> USE DEF IInv, TypeOK
<1>1. CASE Tick
  BY <1>1 DEF Tick
<1>2. ASSUME NEW e \in Calls, NEW r \in Roles, Begin(e, r)
      PROVE  call'[c].pc \notin {"rested", "sent"}
  BY <1>2 DEF Begin
<1>3. ASSUME NEW e \in Calls, On(e) PROVE call'[c].pc \notin {"rested", "sent"}
  BY <1>3 DEF On
<1>4. ASSUME NEW e \in Calls, NEW pc \in {"answered", "unavailable", "raised"}, End(e, pc)
      PROVE  call'[c].pc \notin {"rested", "sent"}
  BY <1>4 DEF End
<1>5. ASSUME NEW e \in Calls, Send(e) PROVE call'[c].pc = "sent" /\ Send(c)
  BY <1>5 DEF Send
<1>6. ASSUME NEW e \in Calls, Rested(e) PROVE call'[c].pc = "rested" /\ Rested(c)
  BY <1>6 DEF Rested
<1>7. CASE UNCHANGED vars
  BY <1>7 DEF vars
<1> QED
  BY <1>1, <1>2, <1>3, <1>4, <1>5, <1>6, <1>7
     DEF Next, Step, Reply, Pass, Answer, Empty, ProviderError, OtherError, Unavailable

(* A cooldown set by any thread, for any role, is seen by the test of every     *)
(* later call: the table is shared and no failure is forgotten early. A request *)
(* reaches a cooling model only when the failure came after the test.           *)
THEOREM CooldownsRespected == Spec => AsksOnlyRested
<1>1. IInv /\ [Next]_vars =>
        \A c \in Calls :
            /\ call[c].pc = "walk" /\ call'[c].pc = "rested" => RestedAt(c)
            /\ call[c].pc # "sent" /\ call'[c].pc = "sent" =>
                  RestedAt(c) \/ failedAt[Model(c)] = clock + 1
  <2> SUFFICES ASSUME IInv, [Next]_vars, NEW c \in Calls
               PROVE  /\ call[c].pc = "walk" /\ call'[c].pc = "rested" => RestedAt(c)
                      /\ call[c].pc # "sent" /\ call'[c].pc = "sent" =>
                            RestedAt(c) \/ failedAt[Model(c)] = clock + 1
    OBVIOUS
  <2>1. ASSUME call[c].pc = "walk", call'[c].pc = "rested" PROVE RestedAt(c)
    <3>1. Rested(c)
      BY <2>1, RequestStep
    <3> QED BY <3>1, NotCooling DEF Rested, IInv
  <2>2. ASSUME call[c].pc # "sent", call'[c].pc = "sent"
        PROVE  RestedAt(c) \/ failedAt[Model(c)] = clock + 1
    <3>1. Send(c)
      BY <2>2, RequestStep
    <3> QED BY <3>1 DEF Send, IInv, TestKept
  <2> QED BY <2>1, <2>2
<1> QED BY <1>1, Invariant, PTL DEF Spec, AsksOnlyRested

(* A call never climbs back up its chain.                                     *)
THEOREM FallsBackInOrder == Spec => ChainOrder
<1>1. IInv /\ [Next]_vars =>
        \A c \in Calls : call[c].pc # "sent" /\ call'[c].pc = "sent"
          => \A m \in tried[c] : \E j \in 1..(call[c].i - 1) : Chain[call[c].role][j] = m
  <2> SUFFICES ASSUME IInv, [Next]_vars, NEW c \in Calls, call[c].pc # "sent",
                      call'[c].pc = "sent", NEW m \in tried[c]
               PROVE  \E j \in 1..(call[c].i - 1) : Chain[call[c].role][j] = m
    OBVIOUS
  <2>1. InFlight(c) /\ Backward(c)
    BY RequestStep DEF Send, InFlight, InCall, IInv, Walked, WalkedBy
  <2>2. PICK j \in 1..Len(Chain[call[c].role]) : At(c, j) = m /\ j < call[c].i
    BY <2>1 DEF Backward
  <2>3. call[c].i \in Nat
    BY CallFacts DEF IInv
  <2> QED BY <2>2, <2>3, ChainFacts, CallFacts DEF At, IInv
<1> QED BY <1>1, Invariant, PTL DEF Spec, ChainOrder

-----------------------------------------------------------------------------
(* Termination. How many steps the call still takes at most: three for each    *)
(* model it has not left behind, and the one that gives up.                    *)
ToTry(c) == Len(Chain[call[c].role]) - call[c].i

StepsLeft(c) ==
    IF call[c].pc = "sent" THEN 3 * ToTry(c) + 2
    ELSE IF call[c].pc = "rested" THEN 3 * ToTry(c) + 3
    ELSE IF Walking(c) THEN 3 * ToTry(c) + 4
    ELSE IF call[c].pc = "walk" THEN 1 ELSE 0

Bounded ==
    \A c \in Calls :
        /\ StepsLeft(c) \in 0..(3 * Len(Chain[call[c].role]) + 1)
        /\ StepsLeft(c) = 0 <=> ~InFlight(c)

LEMMA CallBounded == TypeOK => Bounded
<1> SUFFICES ASSUME TypeOK, NEW c \in Calls
             PROVE  /\ StepsLeft(c) \in 0..(3 * Len(Chain[call[c].role]) + 1)
                    /\ StepsLeft(c) = 0 <=> ~InFlight(c)
  BY DEF Bounded
<1> DEFINE n == Len(Chain[call[c].role])
<1>1. n \in Nat /\ call[c].i \in Nat
  BY CallFacts, ChainFacts
<1>2. CASE call[c].pc \in {"rested", "sent"}
  <2>1. call[c].i \in 1..n
    BY <1>1, <1>2, CallFacts DEF InFlight, InCall
  <2> HIDE DEF n
  <2>2. StepsLeft(c) \in {3 * (n - call[c].i) + 2, 3 * (n - call[c].i) + 3}
    BY <1>2 DEF StepsLeft, ToTry, n
  <2>3. StepsLeft(c) \in 1..(3 * n + 1)
    BY <2>1, <2>2, <1>1
  <2> QED BY <1>1, <1>2, <2>3 DEF InFlight, InCall, n
<1>3. CASE Walking(c)
  <2>1. call[c].i \in 1..n /\ call[c].pc = "walk"
    BY <1>1, <1>3, CallFacts DEF InFlight, InCall, Walking
  <2> HIDE DEF n
  <2>2. StepsLeft(c) = 3 * (n - call[c].i) + 4
    BY <1>3, <2>1 DEF StepsLeft, ToTry, n
  <2>3. StepsLeft(c) \in 1..(3 * n + 1)
    BY <2>1, <2>2, <1>1
  <2> QED BY <1>1, <2>1, <2>3 DEF InFlight, InCall, n
<1>4. CASE call[c].pc = "walk" /\ ~Walking(c)
  <2>1. StepsLeft(c) = 1
    BY <1>4 DEF StepsLeft
  <2> QED BY <1>1, <1>4, <2>1 DEF InFlight, InCall
<1>5. CASE ~InFlight(c)
  <2>1. StepsLeft(c) = 0
    BY <1>5 DEF StepsLeft, InFlight, InCall, Walking
  <2> QED BY <1>1, <1>5, <2>1
<1> QED BY <1>2, <1>3, <1>4, <1>5 DEF InFlight, InCall

(* The call goes on to the next model of its chain, or to the end of it.       *)
LEMMA OnStep ==
    ASSUME TypeOK, NEW c \in Calls, Walking(c) \/ call[c].pc = "sent", On(c)
    PROVE  StepsLeft(c)' < StepsLeft(c)
<1> DEFINE n == Len(Chain[call[c].role])
<1>1. n \in Nat /\ call[c].i \in Nat /\ call[c].i <= n
  BY CallFacts, ChainFacts DEF Walking
<1>2. call'[c] = [pc |-> "walk", role |-> call[c].role, now |-> call[c].now, i |-> call[c].i + 1]
  BY DEF On, TypeOK
<1>3. call'[c].pc = "walk" /\ call'[c].i = call[c].i + 1 /\ Len(Chain[call'[c].role]) = n
  BY <1>2
<1> HIDE DEF n
<1>4. StepsLeft(c) \in {3 * (n - call[c].i) + 2, 3 * (n - call[c].i) + 4}
  BY DEF StepsLeft, ToTry, Walking, n
<1>5. CASE call[c].i + 1 <= n
  <2>1. StepsLeft(c)' = 3 * (n - (call[c].i + 1)) + 4
    BY <1>3, <1>5 DEF StepsLeft, ToTry, Walking
  <2> QED BY <1>1, <1>4, <2>1
<1>6. CASE ~(call[c].i + 1 <= n)
  <2>1. StepsLeft(c)' = 1
    BY <1>3, <1>6 DEF StepsLeft, Walking
  <2> QED BY <1>1, <1>4, <2>1
<1> QED BY <1>5, <1>6

LEMMA EndStep ==
    ASSUME TypeOK, NEW c \in Calls, InFlight(c),
           NEW pc \in {"answered", "unavailable", "raised"}, End(c, pc)
    PROVE  StepsLeft(c)' < StepsLeft(c)
<1>1. call'[c].pc = pc
  BY DEF End, TypeOK
<1>2. StepsLeft(c)' = 0
  BY <1>1 DEF StepsLeft, Walking
<1>3. StepsLeft(c) \in Nat /\ StepsLeft(c) # 0
  BY CallBounded, ChainFacts, CallFacts DEF Bounded
<1> QED BY <1>2, <1>3

LEMMA CallGoesOn ==
    ASSUME IInv, [Next]_vars, NEW c \in Calls, InFlight(c), call'[c] # call[c]
    PROVE  StepsLeft(c)' < StepsLeft(c)
<1> USE DEF IInv
<1>1. ASSUME NEW e \in Calls, NEW r \in Roles, Begin(e, r) PROVE FALSE
  BY <1>1 DEF Begin, InFlight, TypeOK
<1>2. PICK e \in Calls : Step(e) \/ Reply(e)
  BY <1>1 DEF Next, Tick, vars
<1>3. e = c
  BY <1>2 DEF Step, Reply, Pass, Rested, Send, Answer, Empty, ProviderError, OtherError, Unavailable, On,
     End, TypeOK
<1>4. CASE Send(c)
  <2>1. /\ call'[c].pc = "sent" /\ call'[c].i = call[c].i /\ call'[c].role = call[c].role
    BY <1>4 DEF Send, TypeOK
  <2>2. StepsLeft(c)' = 3 * ToTry(c) + 2 /\ StepsLeft(c) = 3 * ToTry(c) + 3
    BY <1>4, <2>1 DEF StepsLeft, ToTry, Send
  <2>3. ToTry(c) \in Nat
    BY <1>4, CallFacts, ChainFacts DEF ToTry, Send
  <2> QED BY <2>2, <2>3
<1>5. CASE Rested(c)
  <2>1. /\ call'[c].pc = "rested" /\ call'[c].i = call[c].i /\ call'[c].role = call[c].role
    BY <1>5 DEF Rested, TypeOK
  <2>2. StepsLeft(c)' = 3 * ToTry(c) + 3 /\ StepsLeft(c) = 3 * ToTry(c) + 4
    BY <1>5, <2>1 DEF StepsLeft, ToTry, Rested, Walking
  <2>3. ToTry(c) \in Nat
    BY <1>5, CallFacts, ChainFacts DEF ToTry, Rested, Walking
  <2> QED BY <2>2, <2>3
<1>6. CASE Pass(c) \/ Empty(c) \/ ProviderError(c)
  BY <1>6, OnStep DEF Pass, Empty, ProviderError
<1>7. CASE Answer(c) \/ OtherError(c) \/ Unavailable(c)
  BY <1>7, EndStep DEF Answer, OtherError, Unavailable
<1> QED BY <1>2, <1>3, <1>4, <1>6, <1>7, <1>5 DEF Step, Reply

(* A call takes at most three steps for each model of its chain and one more,     *)
(* whatever the providers answer and whatever other calls do to the table of    *)
(* cooldowns: each of its own steps brings its end nearer, and no other thread  *)
(* sets it back. What CallEnds adds is only that the threads go on.             *)
THEOREM CallsAreBounded ==
    Spec => /\ []Bounded
            /\ [][\A c \in Calls : InFlight(c) =>
                    call'[c] = call[c] \/ StepsLeft(c)' < StepsLeft(c)]_vars
<1>1. IInv => Bounded
  BY CallBounded DEF IInv
<1>2. IInv /\ [Next]_vars =>
        [\A c \in Calls : InFlight(c) => call'[c] = call[c] \/ StepsLeft(c)' < StepsLeft(c)]_vars
  BY CallGoesOn
<1> QED BY <1>1, <1>2, Invariant, PTL DEF Spec

===============================================================================
