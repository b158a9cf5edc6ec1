--------------------------- MODULE DispatchProofs ---------------------------
(***************************************************************************)
(* The safety of a dispatch, proved for every tick, lateness, host-call     *)
(* ceiling, number of redirects, configuration and budget: who holds the    *)
(* thread for how long, what a fetch may reach, and what a store may hold.  *)
(***************************************************************************)
EXTENDS Dispatch, FiniteSetTheorems, TLAPS

USE LimitsAssumption, DispatchAssumption

-----------------------------------------------------------------------------
(* Arithmetic *)

LEMMA Product == \A a, b \in Nat : a * b \in Nat
  OBVIOUS

LEMMA OneMore == \A a, b \in Nat : (a + 1) * b = a * b + b
  OBVIOUS

LEMMA Monotone ==
  ASSUME NEW a \in Nat, NEW b \in Nat, NEW c \in Nat, a <= c
  PROVE  a * b <= c * b
<1>1. PICK d \in Nat : c = a + d
  <2>1. c - a \in Nat
    OBVIOUS
  <2> QED
    BY <2>1
<1>2. d * b \in Nat
  BY Product
<1>3. c * b = a * b + d * b
  BY <1>1
<1> QED
  BY <1>2, <1>3, Product

\* A deadline is at least one tick, and its ticks cover the timeout.
LEMMA DeadlineCovers ==
  ASSUME NEW t \in Nat
  PROVE  /\ DeadlineTicks(t) \in Nat \ {0}
         /\ DeadlineTicks(t) * Tick >= t
<1>1. CASE t = 0
  BY <1>1 DEF DeadlineTicks
<1>2. CASE t # 0
  <2> DEFINE q == (t + Tick - 1) \div Tick
             r == (t + Tick - 1) % Tick
  <2>1. q \in Int /\ r \in 0..(Tick - 1) /\ t + Tick - 1 = Tick * q + r
    OBVIOUS
  <2>2. DeadlineTicks(t) = q
    BY <1>2 DEF DeadlineTicks
  <2> HIDE DEF q, r
  <2>3. q * Tick >= t
    BY <2>1
  <2>4. q >= 1
    BY <2>1, <1>2
  <2> QED
    BY <2>1, <2>2, <2>3, <2>4
<1> QED
  BY <1>1, <1>2

LEMMA HostCallBound ==
  ASSUME NEW t \in Nat \cup {NoTimeout}
  PROVE  HostCallTimeout(t) \in 0..MaxHostCall
  BY DEF HostCallTimeout

-----------------------------------------------------------------------------
(* Types *)

LEMMA ConfigType ==
  ASSUME config \in Configs
  PROVE  /\ config.timeout \in Nat \cup {NoTimeout}
         /\ config.ticker \in BOOLEAN
  BY DEF Config

LEMMA ConfigFixed == [Next]_vars => config' = config
  BY DEF Next, Clock, Guest, Network, vars, TickerFires, Elapse, Begin, Call, Return, Park, Trap,
         Allocate, Grow, StartFetch, Respond, Redirect, AskBroker, BrokerAnswers, RequestFails,
         Unpark

LEMMA GrantType ==
  ASSUME LimitsTypeOK, NEW r \in Regions, NEW n \in Sizes, Grant(r, n)
  PROVE  LimitsTypeOK'
<1>1. KindOf[r] \in Kinds /\ n \in Nat /\ size[r] \in Nat /\ n > size[r]
  BY DEF LimitsTypeOK, Grant
<1>2. Charge(r, n) \in Nat
  BY <1>1 DEF LimitsTypeOK, Charge
<1> QED
  BY <1>1, <1>2 DEF LimitsTypeOK, Grant

LEMMA TypeStep == DispatchTypeOK /\ [Next]_vars => DispatchTypeOK'
<1> SUFFICES ASSUME DispatchTypeOK, [Next]_vars
             PROVE  DispatchTypeOK'
  OBVIOUS
<1> USE DEF DispatchTypeOK, Steps, fetchVars, limitVars, LimitsTypeOK
<1>a. config.timeout \in Nat \cup {NoTimeout}
  BY ConfigType
<1>1. CASE TickerFires
  BY <1>1 DEF TickerFires
<1>2. CASE Elapse
  <2>1. since' \in 0..(Tick + Late)
    BY <1>2, <1>a DEF Elapse, Config
  <2> QED
    BY <1>2, <2>1 DEF Elapse
<1>3. CASE Begin
  <2>1. left' \in Nat
    BY <1>3, <1>a, DeadlineCovers DEF Begin
  <2> QED
    BY <1>3, <2>1 DEF Begin, FreshStore
<1>4. CASE Call
  BY <1>4 DEF Call
<1>5. CASE Return
  BY <1>5 DEF Return, FreshStore
<1>6. CASE Park
  BY <1>6 DEF Park
<1>7. CASE Trap
  BY <1>7 DEF Trap
<1>8. ASSUME NEW r \in Regions, NEW n \in Sizes, Allocate(r, n) \/ Grow(r, n)
      PROVE  DispatchTypeOK'
  <2>1. LimitsTypeOK'
    BY <1>8, GrantType DEF Allocate, Grow, Refuse
  <2> QED
    BY <1>8, <2>1 DEF Allocate, Grow
<1>9. ASSUME NEW u \in Urls, StartFetch(u)
      PROVE  DispatchTypeOK'
  BY <1>9, <1>a, HostCallBound DEF StartFetch
<1>10. ASSUME NEW from \in Urls, Respond(from)
       PROVE  DispatchTypeOK'
  BY <1>10 DEF Respond, EndFetch, Resume
<1>11. ASSUME NEW from \in Urls, NEW next \in Urls, Redirect(from, next)
       PROVE  DispatchTypeOK'
  <2>1. CASE Allowed(next)
    <3>1. hops' \in 0..MaxHops
      BY <1>11, <2>1 DEF Redirect
    <3> QED
      BY <1>11, <2>1, <3>1, <1>a, HostCallBound DEF Redirect
  <2>2. CASE ~Allowed(next)
    BY <1>11, <2>2 DEF Redirect, EndFetch, Resume
  <2> QED
    BY <2>1, <2>2
<1>12. CASE RequestFails
  BY <1>12 DEF RequestFails, EndFetch, Resume
<1>13. CASE Unpark
  BY <1>13 DEF Unpark, Resume
<1>14. CASE AskBroker
  BY <1>14, <1>a, HostCallBound DEF AskBroker
<1>15. CASE BrokerAnswers
  BY <1>15 DEF BrokerAnswers, EndFetch, Resume
<1>16. CASE UNCHANGED vars
  BY <1>16 DEF vars
<1> QED
  BY <1>1, <1>2, <1>3, <1>4, <1>5, <1>6, <1>7, <1>8, <1>9, <1>10, <1>11, <1>12, <1>13,
     <1>14, <1>15, <1>16 DEF Next, Clock, Guest, Network

\* Every variable keeps its type, whatever the guest, the network and the clock do.
THEOREM DispatchTypeCorrect == Spec => []DispatchTypeOK
<1>1. Init => DispatchTypeOK
  <2> SUFFICES ASSUME Init PROVE DispatchTypeOK
    OBVIOUS
  <2>1. LimitsTypeOK
    BY DEF Init, LimitsInit, LimitsTypeOK
  <2>2. 0 \in 0..(Tick + Late) /\ 0 \in 0..MaxHostCall /\ 0 \in 0..MaxHops
    OBVIOUS
  <2> QED
    BY <2>1, <2>2 DEF Init, DispatchTypeOK, Steps
<1> QED
  BY <1>1, TypeStep, PTL DEF Spec

-----------------------------------------------------------------------------
(* The budget of the store *)

BudgetInv ==
  \A k \in Kinds : /\ IsFiniteSet(Units(k))
                   /\ Cardinality(Units(k)) <= counted[k]
                   /\ counted[k] <= Cap[k]

\* A granted growth adds at most what was counted for it.
LEMMA GrantStep ==
  ASSUME LimitsTypeOK, BudgetInv, NEW r \in Regions, NEW n \in Sizes, Grant(r, n)
  PROVE  BudgetInv'
<1> DEFINE more == (size[r] + 1)..n
<1>1. KindOf[r] \in Kinds /\ n \in Nat /\ size[r] \in Nat /\ n > size[r]
  BY DEF LimitsTypeOK, Grant
<1>2. /\ Charge(r, n) \in Nat
      /\ Charge(r, n) = counted[KindOf[r]] + (n - size[r])
      /\ Charge(r, n) <= Cap[KindOf[r]]
  BY <1>1 DEF LimitsTypeOK, Charge, Grant, Admits
<1>3. /\ IsFiniteSet({r} \X more)
      /\ Cardinality({r} \X more) = n - size[r]
  <2>1. IsFiniteSet(more) /\ Cardinality(more) = n - size[r]
    <3>1. size[r] + 1 \in Int /\ n \in Int /\ ~(size[r] + 1 > n)
      BY <1>1
    <3>2. IsFiniteSet(more) /\ Cardinality(more) = n - (size[r] + 1) + 1
      BY <3>1, FS_Interval
    <3> QED
      BY <1>1, <3>2
  <2>2. IsFiniteSet({r}) /\ Cardinality({r}) = 1
    BY FS_Singleton
  <2> HIDE DEF more
  <2>3. IsFiniteSet({r} \X more) /\ Cardinality({r} \X more) = 1 * Cardinality(more)
    BY <2>1, <2>2, FS_Product
  <2> QED
    BY <2>1, <2>3, <1>1
<1> SUFFICES ASSUME NEW k \in Kinds
             PROVE  /\ IsFiniteSet(Units(k)')
                    /\ Cardinality(Units(k)') <= counted'[k]
                    /\ counted'[k] <= Cap[k]
  BY DEF BudgetInv
<1>4. CASE k # KindOf[r]
  <2>1. counted'[k] = counted[k]
    BY <1>4 DEF Grant, LimitsTypeOK
  <2>2. \A s \in Regions : KindOf[s] = k => size'[s] = size[s]
    BY <1>4 DEF Grant, LimitsTypeOK
  <2>3. Units(k)' = Units(k)
    BY <2>2 DEF Units
  <2> QED
    BY <2>1, <2>3 DEF BudgetInv
<1>5. CASE k = KindOf[r]
  <2>1. counted'[k] = counted[k] + (n - size[r]) /\ counted'[k] <= Cap[k]
    BY <1>2, <1>5 DEF Grant, LimitsTypeOK
  <2>2. \A s \in Regions : size'[s] = size[s] \/ (s = r /\ size'[s] = n)
    BY DEF Grant, LimitsTypeOK
  <2>3. Units(k)' \subseteq Units(k) \cup ({r} \X more)
    <3> SUFFICES ASSUME NEW s \in Regions, KindOf[s] = k, NEW i \in 1..size'[s]
                 PROVE  <<s, i>> \in Units(k) \cup ({r} \X more)
      BY DEF Units
    <3>1. CASE i \in 1..size[s]
      BY <3>1 DEF Units
    <3>2. CASE i \notin 1..size[s]
      <4>1. s = r /\ size'[s] = n
        BY <3>2, <2>2
      <4>2. i \in more
        BY <4>1, <3>2, <1>1
      <4> QED
        BY <4>1, <4>2
    <3> QED
      BY <3>1, <3>2
  <2> DEFINE old == Units(k)
             new == {r} \X more
  <2>4. IsFiniteSet(old) /\ Cardinality(old) <= counted[k]
    BY DEF BudgetInv
  <2>5. IsFiniteSet(new) /\ Cardinality(new) = n - size[r]
    BY <1>3
  <2>6. Units(k)' \subseteq old \cup new
    BY <2>3
  <2> HIDE DEF old, new, more
  <2>7. /\ IsFiniteSet(old \cup new)
        /\ Cardinality(old \cup new) <= Cardinality(old) + Cardinality(new)
    <3>1. IsFiniteSet(old \cap new)
      BY <2>4, FS_Intersection
    <3>2. Cardinality(old \cap new) \in Nat /\ Cardinality(old) \in Nat /\ Cardinality(new) \in Nat
      BY <3>1, <2>4, <2>5, FS_CardinalityType
    <3>3. /\ IsFiniteSet(old \cup new)
          /\ Cardinality(old \cup new)
               = Cardinality(old) + Cardinality(new) - Cardinality(old \cap new)
      BY <2>4, <2>5, FS_Union
    <3> QED
      BY <3>2, <3>3
  <2>8. /\ IsFiniteSet(Units(k)')
        /\ Cardinality(Units(k)') <= Cardinality(old \cup new)
    BY <2>6, <2>7, FS_Subset
  <2>9. /\ Cardinality(old \cup new) \in Nat /\ Cardinality(Units(k)') \in Nat
        /\ Cardinality(old) \in Nat
    BY <2>4, <2>7, <2>8, FS_CardinalityType
  <2>10. counted[k] \in Nat
    BY DEF LimitsTypeOK
  <2> QED
    BY <2>1, <2>4, <2>5, <2>7, <2>8, <2>9, <2>10, <1>1
<1> QED
  BY <1>4, <1>5

LEMMA BudgetStep == DispatchTypeOK /\ BudgetInv /\ [Next]_vars => BudgetInv'
<1> SUFFICES ASSUME DispatchTypeOK, BudgetInv, [Next]_vars
             PROVE  BudgetInv'
  OBVIOUS
<1>1. CASE UNCHANGED limitVars
  BY <1>1 DEF BudgetInv, Units, limitVars
<1>2. CASE FreshStore
  <2>1. \A k \in Kinds : Units(k)' = {}
    <3>1. \A r \in Regions : 1..size'[r] = {}
      BY <1>2 DEF FreshStore
    <3> QED
      BY <3>1 DEF Units
  <2>2. \A k \in Kinds : counted'[k] = 0 /\ 0 <= Cap[k]
    BY <1>2 DEF FreshStore
  <2>3. IsFiniteSet({}) /\ Cardinality({}) = 0
    BY FS_EmptySet
  <2> QED
    BY <2>1, <2>2, <2>3 DEF BudgetInv
<1>3. ASSUME NEW r \in Regions, NEW n \in Sizes, Grant(r, n)
      PROVE  BudgetInv'
  BY <1>3, GrantStep DEF DispatchTypeOK
<1>4. \/ UNCHANGED limitVars
      \/ FreshStore
      \/ \E r \in Regions, n \in Sizes : Grant(r, n)
  BY DEF Next, Clock, Guest, Network, vars, TickerFires, Elapse, Begin, Call, Return, Park, Trap,
         Allocate, Grow, Refuse, StartFetch, Respond, Redirect, AskBroker, BrokerAnswers,
         RequestFails, Unpark
<1> QED
  BY <1>1, <1>2, <1>3, <1>4

\* A store never holds more memory or table elements than its ceiling, in total
\* and also after growths that failed once they had been counted.
THEOREM NeverOverBudget == Spec => []WithinBudget
<1>1. Init => BudgetInv
  <2> SUFFICES ASSUME Init PROVE BudgetInv
    OBVIOUS
  <2>1. \A k \in Kinds : Units(k) = {}
    <3>1. \A r \in Regions : 1..size[r] = {}
      BY DEF Init, LimitsInit
    <3> QED
      BY <3>1 DEF Units
  <2>2. \A k \in Kinds : counted[k] = 0 /\ 0 <= Cap[k]
    BY DEF Init, LimitsInit
  <2>3. IsFiniteSet({}) /\ Cardinality({}) = 0
    BY FS_EmptySet
  <2> QED
    BY <2>1, <2>2, <2>3 DEF BudgetInv
<1>2. BudgetInv => WithinBudget
  BY DEF BudgetInv, WithinBudget
<1> QED
  BY <1>1, <1>2, BudgetStep, DispatchTypeCorrect, PTL DEF Spec

-----------------------------------------------------------------------------
(* The allow list *)

LEMMA AllowedIsGranted ==
  ASSUME NEW u, Allowed(u)
  PROVE  Grants(u)
  BY DEF Allowed, Grants

ListInv ==
  /\ pc = "fetch" => Allowed(url)
  /\ got # NoUrl => Allowed(got)

LEMMA ListStep == DispatchTypeOK /\ ListInv /\ [Next]_vars => ListInv'
<1> SUFFICES ASSUME DispatchTypeOK, ListInv, [Next]_vars
             PROVE  ListInv'
  OBVIOUS
<1>a. config' = config
  BY ConfigFixed
<1>b. ASSUME NEW u, Allowed(u)
      PROVE  Allowed(u)'
  BY <1>a, <1>b DEF Allowed
\* Every other step keeps the url and what the guest got, or lets go of them.
<1>1. CASE /\ pc' = "fetch" => pc = "fetch" /\ url' = url
           /\ got' \in {got, NoUrl}
  BY <1>1, <1>a DEF ListInv, Allowed
<1>2. ASSUME NEW u \in Urls, StartFetch(u)
      PROVE  ListInv'
  BY <1>2, <1>a DEF StartFetch, ListInv, Allowed
<1>3. ASSUME NEW from \in Urls, Respond(from)
      PROVE  ListInv'
  <2>1. pc' # "fetch" /\ (got' # NoUrl => got' = from /\ ~Withheld(from))
    BY <1>3 DEF Respond, EndFetch, Resume
  <2>2. ~Withheld(from) => Allowed(from)
    BY <1>3 DEF Respond, Answers, Withheld, ListInv
  <2> QED
    BY <2>1, <2>2, <1>a DEF ListInv, Allowed
<1>4. ASSUME NEW from \in Urls, NEW next \in Urls, Redirect(from, next)
      PROVE  ListInv'
  <2>1. got' = got
    BY <1>4 DEF Redirect
  <2>2. pc' = "fetch" => Allowed(next) /\ url' = next
    BY <1>4 DEF Redirect, EndFetch, Resume
  <2> QED
    BY <2>1, <2>2, <1>a DEF ListInv, Allowed
<1>5. \/ /\ pc' = "fetch" => pc = "fetch" /\ url' = url
         /\ got' \in {got, NoUrl}
      \/ \E u \in Urls : StartFetch(u)
      \/ \E from \in Urls : Respond(from) \/ \E next \in Urls : Redirect(from, next)
  BY DEF Next, Clock, Guest, Network, vars, fetchVars, TickerFires, Elapse, Begin, Call, Return,
         Park, Trap, Allocate, Grow, AskBroker, BrokerAnswers, RequestFails, EndFetch, Resume,
         Unpark
<1> QED
  BY <1>1, <1>2, <1>3, <1>4, <1>5

\* No redirect, and no client that follows redirects itself, gets the guest an
\* answer, or a request of the runtime's out, beyond what the operator and the
\* extension's declaration both grant.
THEOREM OnTheList == Spec => []StaysOnTheList
<1>1. Init => ListInv
  BY DEF Init, ListInv
<1>2. ListInv => StaysOnTheList
  BY AllowedIsGranted DEF ListInv, StaysOnTheList
<1> QED
  BY <1>1, <1>2, ListStep, DispatchTypeCorrect, PTL DEF Spec

-----------------------------------------------------------------------------
(* The duration of a fetch *)

LEMMA RequestBound ==
  ASSUME DispatchTypeOK
  PROVE  /\ HostCallTimeout(config.timeout) \in Nat
         /\ HostCallTimeout(config.timeout) <= MaxHostCall
<1>1. config.timeout \in Nat \cup {NoTimeout}
  BY ConfigType DEF DispatchTypeOK
<1>2. HostCallTimeout(config.timeout) \in 0..MaxHostCall
  BY <1>1, HostCallBound
<1> QED
  BY <1>2

\* Each request so far took at most its timeout, and the one in flight takes at
\* most what is left of its own.
FetchInv ==
  /\ Waiting => /\ spent + patience <= (hops + 1) * HostCallTimeout(config.timeout)
                /\ patience <= HostCallTimeout(config.timeout)
  /\ pc # "fetch" => hops = 0
  /\ ~Waiting => spent = 0

LEMMA FetchStep == DispatchTypeOK /\ FetchInv /\ [Next]_vars => FetchInv'
<1> SUFFICES ASSUME DispatchTypeOK, FetchInv, [Next]_vars
             PROVE  FetchInv'
  OBVIOUS
<1> DEFINE H == HostCallTimeout(config.timeout)
<1>a. config' = config
  BY ConfigFixed
<1>b. H \in Nat /\ H' = H
  BY <1>a, RequestBound
<1>c. hops \in Nat /\ patience \in Nat /\ spent \in Nat
  BY DEF DispatchTypeOK
<1>1. CASE Elapse
  <2>1. CASE Waiting
    <3>1. patience' = patience - 1 /\ spent' <= spent + 1 /\ spent' \in Nat /\ patience \in Nat \ {0}
      BY <1>1, <1>c, <2>1 DEF Elapse, RequestOver
    <3>2. UNCHANGED <<pc, hops>> /\ (pc # "fetch" => hops = 0)
      BY <1>1 DEF Elapse, FetchInv
    <3>3. (hops + 1) * H \in Nat
      BY <1>b, <1>c, Product
    <3>4. spent + patience <= (hops + 1) * H /\ patience <= H
      BY <2>1 DEF FetchInv
    <3> HIDE DEF H
    <3>5. spent' + patience' <= (hops + 1) * H
      BY <3>1, <3>3, <3>4, <1>c
    <3>6. patience' <= H
      BY <3>1, <3>4, <1>b
    <3> QED
      BY <3>2, <3>5, <3>6, <2>1, <1>a DEF FetchInv, Waiting, H
  <2>2. CASE ~Waiting
    BY <1>1, <2>2 DEF Elapse, FetchInv, Waiting
  <2> QED
    BY <2>1, <2>2
<1>2. ASSUME AskBroker \/ \E u \in Urls : StartFetch(u)
      PROVE  FetchInv'
  <2>1. pc' \in {"fetch", "token"} /\ hops' = 0 /\ spent' = 0 /\ patience' = H
    BY <1>2 DEF AskBroker, StartFetch, FetchInv, Waiting
  <2> HIDE DEF H
  <2>2. spent' + patience' <= (hops' + 1) * H
    BY <2>1, <1>b
  <2> QED
    BY <2>1, <2>2, <1>b DEF FetchInv, Waiting, H
<1>3. ASSUME NEW from \in Urls, NEW next \in Urls, Redirect(from, next)
      PROVE  FetchInv'
  <2>1. CASE Allowed(next)
    <3>1. /\ pc = "fetch" /\ pc' = "fetch"
          /\ hops' = hops + 1 /\ spent' = spent /\ patience' = H
      BY <1>3, <2>1 DEF Redirect, Answers
    <3>2. spent + patience <= (hops + 1) * H
      BY <3>1 DEF FetchInv, Waiting
    <3> HIDE DEF H
    <3>3. (hops + 1) * H \in Nat /\ (hops + 2) * H = (hops + 1) * H + H
      BY <1>b, <1>c, Product
    <3>4. spent' + patience' <= (hops' + 1) * H
      BY <3>1, <3>2, <3>3, <1>b, <1>c
    <3> QED
      BY <3>1, <3>4, <1>b DEF FetchInv, Waiting, H
  <2>2. CASE ~Allowed(next)
    BY <1>3, <2>2 DEF Redirect, EndFetch, Resume, FetchInv, Waiting
  <2> QED
    BY <2>1, <2>2
\* Every other step goes on with what it does, or waits for no request.
<1>4. CASE UNCHANGED <<pc, patience, hops, spent>>
  BY <1>4, <1>a DEF FetchInv, Waiting
<1>5. CASE ~Waiting' /\ hops' = 0 /\ spent' = 0
  BY <1>5 DEF FetchInv, Waiting
<1>6. \/ UNCHANGED <<pc, patience, hops, spent>>
      \/ ~Waiting' /\ hops' = 0 /\ spent' = 0
      \/ Elapse
      \/ AskBroker \/ \E u \in Urls : StartFetch(u)
      \/ \E from \in Urls, next \in Urls : Redirect(from, next)
  BY DEF Next, Clock, Guest, Network, vars, fetchVars, TickerFires, Begin, Call, Return, Running,
         Park, Trap, Allocate, Grow, Respond, BrokerAnswers, RequestFails, EndFetch, Resume,
         Unpark, FetchInv, Waiting
<1> QED
  BY <1>1, <1>2, <1>3, <1>4, <1>5, <1>6

\* However often it is redirected, and with no deadline or no ticker at all, a
\* fetch ends within the ceilings of its requests, and a token request within one.
THEOREM FetchesEnd == Spec => []FetchEnds
<1>1. Init => FetchInv
  BY DEF Init, FetchInv, Waiting
<1>2. DispatchTypeOK /\ FetchInv => FetchEnds
  <2> SUFFICES ASSUME DispatchTypeOK, FetchInv, Waiting
               PROVE  /\ spent <= (MaxHops + 1) * MaxHostCall
                      /\ pc = "token" => spent <= MaxHostCall
    BY DEF FetchEnds, Waiting
  <2> DEFINE H == HostCallTimeout(config.timeout)
  <2>1. H \in Nat /\ H <= MaxHostCall
    BY RequestBound
  <2>2. /\ hops \in Nat /\ hops <= MaxHops
        /\ patience \in Nat /\ spent \in Nat
    BY DEF DispatchTypeOK
  <2>3. spent + patience <= (hops + 1) * H
    BY DEF FetchInv
  <2> HIDE DEF H
  <2>4. (hops + 1) * H <= (MaxHops + 1) * H
    BY <2>1, <2>2, Monotone
  <2>5. H * (MaxHops + 1) <= MaxHostCall * (MaxHops + 1)
    BY <2>1, Monotone
  <2>6. /\ (hops + 1) * H \in Nat /\ (MaxHops + 1) * H = H * (MaxHops + 1)
        /\ (MaxHops + 1) * H \in Nat
        /\ (MaxHops + 1) * MaxHostCall = MaxHostCall * (MaxHops + 1)
        /\ (MaxHops + 1) * MaxHostCall \in Nat
    BY <2>1, <2>2, Product
  <2>7. pc = "token" => hops = 0 /\ (hops + 1) * H = H
    BY <2>1 DEF FetchInv
  <2> QED
    BY <2>1, <2>2, <2>3, <2>4, <2>5, <2>6, <2>7
<1> QED
  BY <1>1, <1>2, FetchStep, DispatchTypeCorrect, PTL DEF Spec

-----------------------------------------------------------------------------
(* The time a dispatch holds its thread *)

Computing == {"instantiate", "wasm", "parked"}

\* What is left of the deadline bounds what the dispatch may still take; after
\* the deadline only the request under way, and what it is redirected to, goes on.
TimeInv ==
  Armed =>
    /\ left > 0 /\ (pc \in Computing \/ Waiting) =>
         held + left * (Tick + Late) <= LastTick(config.timeout) + since
    /\ left = 0 /\ pc \in Computing => held <= LastTick(config.timeout)
    /\ left = 0 /\ Waiting =>
         held + patience <= LastTick(config.timeout)
                              + (hops + 1) * HostCallTimeout(config.timeout)
    /\ pc \in {"trapped", "failed"} =>
         held <= LastTick(config.timeout) + FetchBound(config.timeout)
    /\ pc = "idle" => held = 0

LEMMA TimeFacts ==
  ASSUME DispatchTypeOK, Armed
  PROVE  /\ LastTick(config.timeout) \in Nat
         /\ FetchBound(config.timeout) \in Nat
         /\ (hops + 1) * HostCallTimeout(config.timeout) \in Nat
         /\ (hops + 1) * HostCallTimeout(config.timeout) <= FetchBound(config.timeout)
         /\ HostCallTimeout(config.timeout) <= (hops + 1) * HostCallTimeout(config.timeout)
         /\ left * (Tick + Late) \in Nat
         /\ left > 0 => /\ (left - 1) * (Tick + Late) = left * (Tick + Late) - (Tick + Late)
                        /\ left * (Tick + Late) >= Tick + Late
<1> DEFINE H == HostCallTimeout(config.timeout)
           P == Tick + Late
           D == DeadlineTicks(config.timeout)
<1>1. H \in Nat
  BY RequestBound
<1>2. P \in Nat /\ P >= 1
  OBVIOUS
<1>3. D \in Nat
  BY ConfigType, DeadlineCovers DEF Armed, DispatchTypeOK
<1>4. hops \in Nat /\ hops <= MaxHops /\ left \in Nat
  BY DEF DispatchTypeOK
<1>5. LastTick(config.timeout) = D * P /\ FetchBound(config.timeout) = (MaxHops + 1) * H
  BY DEF LastTick, FetchBound
<1> HIDE DEF H, P, D
<1>6. D * P \in Nat /\ (MaxHops + 1) * H \in Nat /\ (hops + 1) * H \in Nat /\ left * P \in Nat
  BY <1>1, <1>2, <1>3, <1>4, Product
<1>7. (hops + 1) * H <= (MaxHops + 1) * H
  BY <1>1, <1>4, Monotone
<1>8. H <= (hops + 1) * H
  <2>1. hops * H \in Nat /\ (hops + 1) * H = hops * H + H
    BY <1>1, <1>4, Product, OneMore
  <2> QED
    BY <2>1, <1>1
<1>9. ASSUME left > 0
      PROVE  (left - 1) * P = left * P - P /\ left * P >= P
  <2>1. left - 1 \in Nat /\ (left - 1) + 1 = left
    BY <1>4, <1>9
  <2>2. (left - 1) * P \in Nat /\ ((left - 1) + 1) * P = (left - 1) * P + P
    BY <2>1, <1>2, Product, OneMore
  <2> QED
    BY <2>1, <2>2, <1>2
<1> QED
  BY <1>5, <1>6, <1>7, <1>8, <1>9 DEF H, P

\* Before the deadline has passed no more than its ticks have.
LEMMA HeldBefore ==
  ASSUME DispatchTypeOK, TimeInv, Armed, pc \in Computing \/ (left > 0 /\ Waiting)
  PROVE  held <= LastTick(config.timeout)
<1>1. CASE left > 0
  <2> DEFINE x == left * (Tick + Late)
             y == LastTick(config.timeout)
  <2>1. held + x <= y + since
    BY <1>1 DEF TimeInv
  <2>2. x \in Nat /\ x >= Tick + Late /\ y \in Nat
    BY <1>1, TimeFacts
  <2>3. since <= Tick + Late /\ since \in Nat /\ held \in Nat
    BY DEF DispatchTypeOK
  <2> HIDE DEF x, y
  <2> QED
    BY <2>1, <2>2, <2>3 DEF y
<1>2. CASE left = 0
  BY <1>2 DEF TimeInv
<1> QED
  BY <1>1, <1>2 DEF DispatchTypeOK

LEMMA TimeTicker ==
  ASSUME DispatchTypeOK, FetchInv, TimeInv, Armed, TickerFires
  PROVE  TimeInv'
<1> DEFINE x == left * (Tick + Late)
           y == LastTick(config.timeout)
           z == (hops + 1) * HostCallTimeout(config.timeout)
<1>1. since' = 0 /\ UNCHANGED <<config, pc, held, hops, patience>>
  BY DEF TickerFires, fetchVars
<1>2. /\ x \in Nat /\ y \in Nat /\ z \in Nat
      /\ HostCallTimeout(config.timeout) <= z
  BY TimeFacts
<1>3. left \in Nat /\ held \in Nat /\ since \in 0..(Tick + Late)
  BY DEF DispatchTypeOK
<1>4. CASE left > 0
  <2>1. left' = left - 1 /\ left' \in Nat /\ left' * (Tick + Late) = x - (Tick + Late)
    BY <1>4, <1>3, TimeFacts DEF TickerFires
  <2>2. pc \in Computing \/ Waiting => held <= y
    BY <1>4, HeldBefore DEF Computing
  <2>3. pc \in Computing \/ Waiting => held + x <= y + since
    BY <1>4 DEF TimeInv
  <2>4. Waiting => patience <= z
    BY <1>2, <1>3 DEF FetchInv, DispatchTypeOK
  <2> HIDE DEF x, y, z
  <2>5. pc \in Computing \/ Waiting => held + left' * (Tick + Late) <= y + since'
    BY <2>1, <2>3, <1>1, <1>2, <1>3
  <2>6. Waiting => held + patience <= y + z
    BY <2>2, <2>4, <1>2, <1>3 DEF DispatchTypeOK
  <2> QED
    BY <1>1, <2>2, <2>5, <2>6 DEF TimeInv, Armed, Waiting, y, z, Computing
<1>5. CASE left = 0
  <2>1. left' = 0
    BY <1>5 DEF TickerFires
  <2> QED
    BY <1>1, <1>5, <2>1 DEF TimeInv, Armed, Waiting
<1> QED
  BY <1>3, <1>4, <1>5

LEMMA TimeElapse ==
  ASSUME DispatchTypeOK, TimeInv, Armed, Elapse
  PROVE  TimeInv'
<1>1. UNCHANGED <<config, pc, left, hops>> /\ since' = since + 1
  BY DEF Elapse, Armed
<1>2. /\ pc \in {"instantiate", "wasm"} => left > 0
      /\ Waiting => patience > 0 /\ patience' = patience - 1
      /\ held' \in Nat /\ held' <= held + 1
      /\ ~(pc \in {"instantiate", "wasm"} \/ Waiting) => held' = held
  BY DEF Elapse, Running, Expired, RequestOver, Armed, DispatchTypeOK
<1>3. left \in Nat /\ held \in Nat /\ since \in Nat /\ patience \in Nat
  BY DEF DispatchTypeOK
<1> DEFINE x == left * (Tick + Late)
           y == LastTick(config.timeout)
           z == (hops + 1) * HostCallTimeout(config.timeout)
<1>4. x \in Nat /\ y \in Nat /\ z \in Nat
  BY TimeFacts
<1>5. left > 0 /\ (pc \in Computing \/ Waiting) => held + x <= y + since
  BY DEF TimeInv
<1>6. left = 0 /\ Waiting => held + patience <= y + z
  BY DEF TimeInv
<1> HIDE DEF x, y, z
<1>a. held' \in Nat /\ held' <= held + 1 /\ since' \in Nat /\ since' = since + 1
  BY <1>1, <1>2, <1>3
<1>7. ASSUME held + x <= y + since
      PROVE  held' + x <= y + since'
  <2>1. PICK h \in Nat : h = held'
    BY <1>a
  <2>2. PICK s \in Nat : s = since'
    BY <1>a
  <2>3. h <= held + 1 /\ s = since + 1
    BY <1>a, <2>1, <2>2
  <2>4. h + x <= y + s
    BY <2>3, <1>3, <1>4, <1>7
  <2> QED
    BY <2>1, <2>2, <2>4
<1>8. ASSUME left = 0, Waiting
      PROVE  held' + patience' <= y + z
  <2>1. patience' \in Nat /\ patience = patience' + 1
    BY <1>2, <1>3, <1>8
  <2>a. held + patience <= y + z
    BY <1>6, <1>8
  <2>2. PICK h \in Nat : h = held'
    BY <1>a
  <2>3. PICK p \in Nat : p = patience'
    BY <2>1
  <2>4. h <= held + 1 /\ patience = p + 1
    BY <1>a, <2>1, <2>2, <2>3
  <2>5. h + p <= y + z
    BY <2>a, <2>4, <1>3, <1>4
  <2> QED
    BY <2>2, <2>3, <2>5
<1>9. left = 0 /\ pc \in Computing => pc = "parked" /\ held' = held
  BY <1>2, <1>3 DEF Computing, Waiting
<1> QED
  BY <1>1, <1>2, <1>5, <1>7, <1>8, <1>9 DEF TimeInv, Armed, Waiting, x, y, z, Computing

\* What the guest, its allocator or a failure does, short of a new request.
LEMMA TimeLocal ==
  ASSUME DispatchTypeOK, TimeInv, Armed, pc \in Computing,
         pc' \in Computing \cup {"trapped", "failed"},
         UNCHANGED <<config, since, left, held>>
  PROVE  TimeInv'
<1>1. held <= LastTick(config.timeout) + FetchBound(config.timeout)
  <2>1. held \in Nat
    BY DEF DispatchTypeOK
  <2> QED
    BY <2>1, TimeFacts, HeldBefore
<1> QED
  BY <1>1 DEF TimeInv, Armed, Waiting, Computing

\* The end of a request: a dispatch that is out of time traps.
LEMMA TimeEndFetch ==
  ASSUME DispatchTypeOK, TimeInv, Armed, Waiting, EndFetch,
         UNCHANGED <<config, since, left, held>>
  PROVE  TimeInv'
<1>1. CASE left = 0
  <2> DEFINE y == LastTick(config.timeout)
             z == (hops + 1) * HostCallTimeout(config.timeout)
             f == FetchBound(config.timeout)
  <2>1. pc' = "trapped"
    BY <1>1 DEF EndFetch, Resume, Expired, Armed
  <2>2. held + patience <= y + z
    BY <1>1 DEF TimeInv
  <2>3. y \in Nat /\ z \in Nat /\ f \in Nat /\ z <= f
    BY TimeFacts
  <2>4. held \in Nat /\ patience \in Nat
    BY DEF DispatchTypeOK
  <2> HIDE DEF y, z, f
  <2>5. held <= y + f
    BY <2>2, <2>3, <2>4
  <2> QED
    BY <2>1, <2>5 DEF TimeInv, Computing, Armed, Waiting, y, f
<1>2. CASE left > 0
  <2>1. pc' = "wasm"
    BY <1>2 DEF EndFetch, Resume, Expired, Armed, DispatchTypeOK
  <2> QED
    BY <1>2, <2>1 DEF TimeInv, Computing, Armed, Waiting
<1> QED
  BY <1>1, <1>2 DEF DispatchTypeOK

\* A new request brings a timeout of its own, on top of the deadline.
LEMMA TimeRequest ==
  ASSUME DispatchTypeOK, TimeInv, FetchInv, Armed,
         UNCHANGED <<config, since, left, held>>,
         pc' \in {"fetch", "token"},
         patience' = HostCallTimeout(config.timeout),
         \/ pc = "wasm" /\ hops' = hops
         \/ pc = "fetch" /\ hops' = hops + 1
  PROVE  TimeInv'
<1> DEFINE y == LastTick(config.timeout)
           H == HostCallTimeout(config.timeout)
<1>1. y \in Nat /\ H \in Nat /\ held \in Nat /\ hops \in Nat /\ patience \in Nat
  BY TimeFacts, RequestBound DEF DispatchTypeOK
<1> HIDE DEF H, y
<1>2. ASSUME left = 0
      PROVE  held + H <= y + (hops' + 1) * H
  <2>1. CASE pc = "wasm" /\ hops' = hops
    <3>1. hops' = 0 /\ (hops' + 1) * H = H
      BY <2>1, <1>1 DEF FetchInv
    <3>2. held <= y
      BY <1>2, <2>1 DEF TimeInv, Computing, y
    <3> QED
      BY <3>1, <3>2, <1>1
  <2>2. CASE pc = "fetch" /\ hops' = hops + 1
    <3> DEFINE z == (hops + 1) * H
    <3>1. held + patience <= y + z
      BY <1>2, <2>2 DEF TimeInv, Waiting, y, H
    <3>2. z \in Nat /\ (hops' + 1) * H = z + H
      BY <2>2, <1>1, Product, OneMore
    <3> HIDE DEF z
    <3> QED
      BY <3>1, <3>2, <1>1
  <2> QED
    BY <2>1, <2>2
<1>3. left > 0 => held + left * (Tick + Late) <= y + since
  BY DEF TimeInv, Computing, Waiting, y
<1> QED
  BY <1>2, <1>3 DEF TimeInv, Computing, Armed, Waiting, y, H

LEMMA TimeStep == DispatchTypeOK /\ FetchInv /\ TimeInv /\ [Next]_vars => TimeInv'
<1> SUFFICES ASSUME DispatchTypeOK, FetchInv, TimeInv, [Next]_vars, Armed'
             PROVE  TimeInv'
  BY DEF TimeInv
<1>a. config' = config
  BY ConfigFixed
<1>b. Armed
  BY <1>a DEF Armed
<1>1. CASE TickerFires
  BY <1>1, <1>b, TimeTicker
<1>2. CASE Elapse
  BY <1>2, <1>b, TimeElapse
<1>3. CASE Begin
  <2>1. pc' = "instantiate" /\ held' = 0 /\ left' = DeadlineTicks(config.timeout)
    BY <1>3, <1>b DEF Begin, Armed
  <2>2. left' \in Nat \ {0}
    BY <2>1, <1>b, ConfigType, DeadlineCovers DEF Armed, DispatchTypeOK
  <2>3. since' = since /\ since \in Nat
    BY <1>3 DEF Begin, DispatchTypeOK
  <2>4. left' * (Tick + Late) \in Nat
    <3>1. left' \in Nat /\ Tick + Late \in Nat
      BY <2>2
    <3> QED
      BY <3>1, Product
  <2>5. left' * (Tick + Late) = LastTick(config.timeout)
    BY <2>1 DEF LastTick
  <2>6. held' + left' * (Tick + Late) <= LastTick(config.timeout) + since'
    BY <2>1, <2>3, <2>4, <2>5
  <2> QED
    BY <2>1, <2>2, <2>6, <1>a DEF TimeInv, Computing, Waiting
<1>4. CASE Call \/ Park \/ Trap \/ Unpark
  BY <1>4, <1>b, TimeLocal
     DEF Call, Park, Trap, Unpark, Resume, Running, Computing
<1>5. ASSUME NEW r \in Regions, NEW n \in Sizes, Allocate(r, n) \/ Grow(r, n)
      PROVE  TimeInv'
  BY <1>5, <1>b, TimeLocal DEF Allocate, Grow, Computing
<1>6. CASE Return
  BY <1>6 DEF Return, TimeInv, Computing, Waiting
<1>7. ASSUME NEW u \in Urls, StartFetch(u)
      PROVE  TimeInv'
  BY <1>7, <1>b, TimeRequest DEF StartFetch
<1>8. ASSUME NEW from \in Urls, Respond(from)
      PROVE  TimeInv'
  BY <1>8, <1>b, TimeEndFetch DEF Respond, Answers, Waiting
<1>9. ASSUME NEW from \in Urls, NEW next \in Urls, Redirect(from, next)
      PROVE  TimeInv'
  <2>1. CASE Allowed(next)
    BY <1>9, <2>1, <1>b, TimeRequest DEF Redirect, Answers
  <2>2. CASE ~Allowed(next)
    BY <1>9, <2>2, <1>b, TimeEndFetch DEF Redirect, Answers, Waiting
  <2> QED
    BY <2>1, <2>2
<1>10. CASE RequestFails
  BY <1>10, <1>b, TimeEndFetch DEF RequestFails
<1>11. CASE AskBroker
  BY <1>11, <1>b, TimeRequest DEF AskBroker
<1>12. CASE BrokerAnswers
  BY <1>12, <1>b, TimeEndFetch DEF BrokerAnswers, Waiting
<1>13. CASE UNCHANGED vars
  BY <1>13, <1>b DEF vars, fetchVars, TimeInv, Waiting
<1> QED
  BY <1>1, <1>2, <1>3, <1>4, <1>5, <1>6, <1>7, <1>8, <1>9, <1>10, <1>11,
     <1>12, <1>13 DEF Next, Clock, Guest, Network

LEMMA NotHeldLonger ==
  ASSUME DispatchTypeOK, FetchInv, TimeInv
  PROVE  ThreadIsGivenBack
<1> SUFFICES ASSUME Armed
             PROVE  held <= LastTick(config.timeout)
                              + (IF Running THEN 0 ELSE FetchBound(config.timeout))
  BY DEF ThreadIsGivenBack
<1> DEFINE y == LastTick(config.timeout)
           f == FetchBound(config.timeout)
           z == (hops + 1) * HostCallTimeout(config.timeout)
<1>1. y \in Nat /\ f \in Nat /\ z \in Nat /\ z <= f
  BY TimeFacts
<1>2. held \in Nat /\ patience \in Nat /\ left \in Nat
  BY DEF DispatchTypeOK
<1>3. CASE pc \in Computing
  BY <1>3, <1>1, <1>2, HeldBefore DEF Running, Computing
<1>4. CASE Waiting
  <2>1. CASE left = 0
    <3>1. held + patience <= y + z
      BY <1>4, <2>1 DEF TimeInv
    <3> HIDE DEF y, f, z
    <3>2. held <= y + f
      BY <3>1, <1>1, <1>2
    <3> QED
      BY <3>2, <1>4 DEF Running, Waiting, y, f
  <2>2. CASE left > 0
    BY <1>4, <2>2, <1>1, <1>2, HeldBefore DEF Running, Waiting
  <2> QED
    BY <2>1, <2>2, <1>2
<1>5. CASE pc \in {"trapped", "failed"}
  BY <1>5 DEF TimeInv, Running
<1>6. CASE pc = "idle"
  BY <1>6, <1>1 DEF TimeInv, Running
<1> QED
  BY <1>3, <1>4, <1>5, <1>6 DEF DispatchTypeOK, Steps, Computing, Waiting

\* No guest keeps its thread: once armed, a dispatch holds it no longer than the
\* ticks of its deadline, and a request under way then no longer than a fetch may.
THEOREM ThreadReturns == Spec => []ThreadIsGivenBack
<1>1. Init => FetchInv /\ TimeInv
  BY DEF Init, FetchInv, TimeInv, Computing, Waiting
<1>2. DispatchTypeOK /\ FetchInv /\ TimeInv => ThreadIsGivenBack
  BY NotHeldLonger
<1> QED
  BY <1>1, <1>2, FetchStep, TimeStep, DispatchTypeCorrect, PTL DEF Spec

-----------------------------------------------------------------------------
(* No call is trapped early *)

Timed == {"instantiate", "wasm", "fetch", "token"}

Deadline == DeadlineTicks(config.timeout)

Due == held + (left + 1) * Tick >= Deadline * Tick + since

\* From its first tick on, a dispatch has lived through whole ticks, all but the
\* one during which it started.
EarlyInv ==
  config.timeout # NoTimeout /\ ~parked =>
    /\ pc # "parked"
    /\ pc \in Timed => \/ left = Deadline
                       \/ left < Deadline /\ config.ticker /\ Due
    /\ pc = "trapped" => held + Tick >= Deadline * Tick

\* The bound on the clocks is out of a dispatch's reach.
LEMMA BelowHorizon ==
  ASSUME DispatchTypeOK, FetchInv, TimeInv, Armed
  PROVE  held < Horizon
<1> DEFINE y == LastTick(config.timeout)
           f == FetchBound(config.timeout)
<1>1. held <= y + f
  <2>1. y \in Nat /\ f \in Nat /\ held \in Nat
    BY TimeFacts DEF DispatchTypeOK
  <2>2. ThreadIsGivenBack
    BY NotHeldLonger
  <2> QED
    BY <2>1, <2>2 DEF ThreadIsGivenBack
<1>2. y + f < Horizon
  BY HorizonAssumption DEF Armed, DispatchTypeOK
<1>3. y \in Nat /\ f \in Nat /\ held \in Nat
  BY TimeFacts DEF DispatchTypeOK
<1> HIDE DEF y, f
<1> QED
  BY <1>1, <1>2, <1>3

LEMMA EarlyFacts ==
  ASSUME DispatchTypeOK, config.timeout # NoTimeout
  PROVE  /\ Deadline \in Nat \ {0}
         /\ Deadline * Tick \in Nat
         /\ Deadline * Tick >= config.timeout
         /\ left * Tick \in Nat
         /\ (left + 1) * Tick = left * Tick + Tick
<1>1. config.timeout \in Nat
  BY ConfigType DEF DispatchTypeOK
<1>2. Deadline \in Nat \ {0} /\ Deadline * Tick >= config.timeout
  BY <1>1, DeadlineCovers DEF Deadline
<1>3. left \in Nat /\ Tick \in Nat /\ Deadline \in Nat
  BY <1>2 DEF DispatchTypeOK
<1> QED
  BY <1>2, <1>3, Product, OneMore

\* At the deadline all but one of its ticks have been lived through.
LEMMA DueAtDeadline ==
  ASSUME DispatchTypeOK, EarlyInv, config.timeout # NoTimeout, ~parked, pc \in Timed, left = 0
  PROVE  held + Tick >= Deadline * Tick
<1>1. Deadline \in Nat \ {0} /\ Deadline * Tick \in Nat /\ (left + 1) * Tick = left * Tick + Tick
  BY EarlyFacts
<1>2. left * Tick = 0
  OBVIOUS
<1>3. held + (left + 1) * Tick >= Deadline * Tick + since
  BY <1>1 DEF EarlyInv, Due
<1>4. held \in Nat /\ since \in Nat
  BY DEF DispatchTypeOK
<1> DEFINE d == Deadline * Tick
<1>5. d \in Nat /\ held + Tick >= d + since
  BY <1>1, <1>2, <1>3
<1> HIDE DEF d
<1>6. held + Tick >= d
  BY <1>4, <1>5
<1> QED
  BY <1>6 DEF d

LEMMA EarlyTicker ==
  ASSUME DispatchTypeOK, EarlyInv, TickerFires
  PROVE  EarlyInv'
<1> SUFFICES ASSUME config.timeout # NoTimeout, ~parked
             PROVE  EarlyInv'
  BY DEF EarlyInv, TickerFires
<1> DEFINE d == Deadline * Tick
           x == left * Tick
<1>1. /\ Deadline \in Nat \ {0} /\ d \in Nat /\ x \in Nat
      /\ (left + 1) * Tick = x + Tick
  BY EarlyFacts
<1>2. /\ UNCHANGED <<config, pc, held, parked>> /\ since' = 0
      /\ config.ticker /\ since >= Tick
  BY DEF TickerFires
<1>3. left \in Nat /\ held \in Nat /\ since \in Nat
  BY DEF DispatchTypeOK
<1>4. Deadline' = Deadline
  BY <1>2 DEF Deadline
<1>5. ASSUME pc \in Timed
      PROVE  left' < Deadline /\ Due'
  <2>1. \/ left = Deadline
        \/ left < Deadline /\ held + (x + Tick) >= d + since
    BY <1>1, <1>5 DEF EarlyInv, Due
  <2>2. held + x >= d
    <3>1. CASE left = Deadline
      BY <3>1, <1>1, <1>3
    <3>2. CASE held + (x + Tick) >= d + since
      <4> HIDE DEF d, x
      <4> QED
        BY <3>2, <1>1, <1>2, <1>3
    <3> QED
      BY <2>1, <3>1, <3>2
  <2>3. (left' + 1) * Tick >= x /\ (left' + 1) * Tick \in Nat /\ left' < Deadline
    <3>1. CASE left = 0
      BY <3>1, <1>1, <1>2, <1>3 DEF TickerFires
    <3>2. CASE left > 0
      <4>1. left' \in Nat /\ left' + 1 = left /\ left' < left /\ left <= Deadline
        BY <3>2, <2>1, <1>1, <1>3 DEF TickerFires
      <4>2. (left' + 1) * Tick = x
        BY <4>1
      <4>3. x >= x
        BY <1>1
      <4>4. left' < Deadline
        BY <4>1, <1>1, <1>3
      <4> HIDE DEF x
      <4> QED
        BY <4>2, <4>3, <4>4, <1>1
    <3> QED
      BY <3>1, <3>2, <1>3
  <2> DEFINE x1 == (left' + 1) * Tick
  <2>4. held' + x1 >= d + since'
    <3>1. held' = held /\ since' = 0 /\ x1 \in Nat /\ x1 >= x
      BY <1>2, <2>3
    <3> HIDE DEF d, x, x1
    <3> QED
      BY <3>1, <2>2, <1>1, <1>3
  <2> QED
    BY <2>3, <2>4, <1>4 DEF Due
<1> QED
  BY <1>2, <1>4, <1>5 DEF EarlyInv

LEMMA EarlyElapse ==
  ASSUME DispatchTypeOK, FetchInv, TimeInv, EarlyInv, Elapse
  PROVE  EarlyInv'
<1> SUFFICES ASSUME config.timeout # NoTimeout, ~parked
             PROVE  EarlyInv'
  BY DEF EarlyInv, Elapse
<1>1. UNCHANGED <<config, pc, left, parked>>
  BY DEF Elapse
<1>2. Deadline' = Deadline
  BY <1>1 DEF Deadline
<1>3. CASE pc \in Timed /\ left # Deadline
  <2>1. left < Deadline /\ config.ticker /\ Due
    BY <1>3 DEF EarlyInv
  <2>2. held < Horizon
    BY <2>1, BelowHorizon DEF Armed
  <2>3. held' = held + 1 /\ since' = since + 1
    BY <1>3, <2>1, <2>2 DEF Elapse, Timed, Running, Waiting
  <2> DEFINE d == Deadline * Tick
             x == (left + 1) * Tick
  <2>4. held + x >= d + since /\ d \in Nat /\ x \in Nat
    <3>1. held + x >= d + since
      BY <2>1 DEF Due
    <3>2. left + 1 \in Nat /\ Tick \in Nat
      BY DEF DispatchTypeOK
    <3> QED
      BY <3>1, <3>2, Product, EarlyFacts
  <2>5. held \in Nat /\ since \in Nat
    BY DEF DispatchTypeOK
  <2> HIDE DEF d, x
  <2>6. (held + 1) + x >= d + (since + 1)
    BY <2>4, <2>5
  <2>7. Due'
    BY <2>3, <2>6, <1>1, <1>2 DEF Due, d, x
  <2> QED
    BY <1>1, <1>2, <1>3, <2>1, <2>7 DEF EarlyInv, Timed
<1>4. CASE pc \in Timed /\ left = Deadline
  BY <1>1, <1>2, <1>4 DEF EarlyInv, Timed
<1>5. CASE pc \notin Timed
  <2>1. pc = "trapped" => held' = held
    BY DEF Elapse, Running, Waiting
  <2> QED
    BY <1>1, <1>2, <1>5, <2>1 DEF EarlyInv
<1> QED
  BY <1>3, <1>4, <1>5

\* Every other step takes no time: it goes on, or traps at the deadline.
LEMMA EarlyLocal ==
  ASSUME DispatchTypeOK, EarlyInv, pc \in Timed,
         pc' \in Timed \cup {"failed", "trapped", "idle"},
         pc' = "trapped" => left = 0,
         UNCHANGED <<config, since, left, held, parked>>
  PROVE  EarlyInv'
<1> SUFFICES ASSUME config.timeout # NoTimeout, ~parked
             PROVE  EarlyInv'
  BY DEF EarlyInv
<1>1. Deadline' = Deadline /\ (Due <=> Due')
  BY DEF Deadline, Due
<1>2. pc' = "trapped" => held' + Tick >= Deadline' * Tick
  BY <1>1, DueAtDeadline
<1> QED
  BY <1>1, <1>2 DEF EarlyInv, Timed

LEMMA EarlyStep ==
  DispatchTypeOK /\ FetchInv /\ TimeInv /\ EarlyInv /\ [Next]_vars => EarlyInv'
<1> SUFFICES ASSUME DispatchTypeOK, FetchInv, TimeInv, EarlyInv, [Next]_vars
             PROVE  EarlyInv'
  OBVIOUS
<1>1. CASE TickerFires
  BY <1>1, EarlyTicker
<1>2. CASE Elapse
  BY <1>2, EarlyElapse
<1>3. CASE Begin
  BY <1>3 DEF Begin, EarlyInv, Deadline, Timed
<1>4. CASE Call \/ Trap
  BY <1>4, EarlyLocal DEF Call, Trap, Running, Expired, Timed
<1>5. ASSUME NEW r \in Regions, NEW n \in Sizes, Allocate(r, n) \/ Grow(r, n)
      PROVE  EarlyInv'
  BY <1>5, EarlyLocal DEF Allocate, Grow, Timed
<1>6. ASSUME NEW u \in Urls, StartFetch(u)
      PROVE  EarlyInv'
  BY <1>6, EarlyLocal DEF StartFetch, Timed
<1>7. CASE Waiting /\ EndFetch /\ UNCHANGED <<config, since, left, held, parked>>
  BY <1>7, EarlyLocal DEF EndFetch, Resume, Expired, Timed, Waiting
<1>8. ASSUME NEW from \in Urls, Respond(from)
      PROVE  EarlyInv'
  BY <1>7, <1>8 DEF Respond, Answers, Waiting
<1>9. ASSUME NEW from \in Urls, NEW next \in Urls, Redirect(from, next)
      PROVE  EarlyInv'
  <2>1. CASE Allowed(next)
    BY <1>9, <2>1, EarlyLocal DEF Redirect, Answers, Timed
  <2>2. CASE ~Allowed(next)
    BY <1>7, <1>9, <2>2 DEF Redirect, Answers, Waiting
  <2> QED
    BY <2>1, <2>2
<1>10. CASE RequestFails
  BY <1>7, <1>10 DEF RequestFails
<1>11. CASE Park
  BY <1>11 DEF Park, EarlyInv
<1>12. CASE Unpark
  BY <1>12 DEF Unpark, EarlyInv
<1>13. CASE Return
  BY <1>13 DEF Return, EarlyInv, Timed
<1>14. CASE AskBroker
  BY <1>14, EarlyLocal DEF AskBroker, Timed
<1>15. CASE BrokerAnswers
  BY <1>7, <1>15 DEF BrokerAnswers, Waiting
<1>16. CASE UNCHANGED vars
  BY <1>16 DEF vars, EarlyInv, Deadline, Due
<1> QED
  BY <1>1, <1>2, <1>3, <1>4, <1>5, <1>6, <1>8, <1>9, <1>10, <1>11, <1>12, <1>13, <1>14,
     <1>15, <1>16
     DEF Next, Clock, Guest, Network

\* Without a timeout nothing traps.
TrapInv == pc = "trapped" => config.timeout # NoTimeout

LEMMA TrapStep == TrapInv /\ [Next]_vars => TrapInv'
<1> SUFFICES ASSUME TrapInv, [Next]_vars
             PROVE  TrapInv'
  OBVIOUS
<1>1. config' = config
  BY ConfigFixed
<1>2. pc' = "trapped" => pc = "trapped" \/ Expired
  BY DEF Next, Clock, Guest, Network, vars, TickerFires, Elapse, Begin, Call, Return, Park, Trap,
         Allocate, Grow, StartFetch, Respond, Redirect, AskBroker, BrokerAnswers, RequestFails,
         Unpark, EndFetch, Resume
<1> QED
  BY <1>1, <1>2 DEF TrapInv, Expired

\* No call that was not parked is trapped before its budget has passed, but for
\* the tick during which it started.
THEOREM NoEarlyTrap == Spec => []NotTrappedEarly
<1>1. Init => FetchInv /\ TimeInv /\ EarlyInv
  BY DEF Init, FetchInv, TimeInv, EarlyInv, Computing, Timed, Waiting
<1>2. DispatchTypeOK /\ TrapInv /\ EarlyInv => NotTrappedEarly
  <2> SUFFICES ASSUME DispatchTypeOK, TrapInv, EarlyInv, pc = "trapped", ~parked
               PROVE  held + Tick >= config.timeout
    BY DEF NotTrappedEarly
  <2>1. config.timeout \in Nat
    BY ConfigType DEF TrapInv, DispatchTypeOK
  <2>2. held + Tick >= Deadline * Tick
    BY <2>1 DEF EarlyInv
  <2> DEFINE d == Deadline * Tick
  <2>3. d \in Nat /\ d >= config.timeout /\ held + Tick >= d /\ held \in Nat
    BY <2>1, <2>2, EarlyFacts DEF DispatchTypeOK
  <2> HIDE DEF d
  <2> QED
    BY <2>1, <2>3
<1>3. Init => TrapInv
  BY DEF Init, TrapInv
<1> QED
  BY <1>1, <1>2, <1>3, TrapStep, FetchStep, TimeStep, EarlyStep, DispatchTypeCorrect, PTL DEF Spec
=============================================================================
