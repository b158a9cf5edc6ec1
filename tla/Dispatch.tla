------------------------------ MODULE Dispatch ------------------------------
(***************************************************************************)
(* One dispatch to an extension, from the store that is built for it to    *)
(* its return: instantiation, wasm, host calls that block the thread, the  *)
(* deadline that traps it, and the time all of it takes                    *)
(* (crates/greentic-ext-runtime/src/runtime.rs, loaded.rs, limits.rs,      *)
(* host_state_net.rs, net_permissions.rs).                                 *)
(*                                                                         *)
(* Time is discrete; Elapse lets one unit of it pass.  Dispatches share    *)
(* nothing but the engine's epoch, which only advances, so one at a time   *)
(* stands for any number.                                                  *)
(***************************************************************************)
EXTENDS StoreLimits

CONSTANTS
  Tick,        \* EPOCH_TICK
  Late,        \* how late the ticker thread may wake up
  MaxHostCall, \* MAX_HOST_CALL_TIMEOUT
  MaxHops,     \* MAX_REDIRECT_HOPS
  Urls,
  PublicHttp,  \* those of plain http to a host that is not loopback
  Configs,     \* what a host may be configured with
  Horizon,     \* held and spent stop counting here
  NoTimeout, NoUrl

Config == [timeout : Nat \cup {NoTimeout}, \* RuntimeConfig.dispatch_timeout
           ticker : BOOLEAN,        \* the epoch ticker thread could be started
           follows : BOOLEAN,       \* the http client follows redirects itself
           declared : SUBSET Urls,  \* the extension's runtime.permissions.network
           ceiling : SUBSET Urls]   \* the operator's list, HostOverrides.url_matcher

ASSUME DispatchAssumption ==
  /\ Tick \in Nat \ {0}
  /\ Late \in Nat /\ MaxHostCall \in Nat /\ MaxHops \in Nat /\ Horizon \in Nat
  /\ NoTimeout \notin Nat
  /\ NoUrl \notin Urls
  /\ Configs \subseteq Config

VARIABLES
  config,   \* how the host is set up
  since,    \* time since the ticker last woke up
  pc,       \* what the dispatch thread is doing
  left,     \* epochs to the store's deadline
  held,     \* time the dispatch has held its thread, apart from parking
  parked,   \* whether it made a host call that has no bound
  url,      \* what the fetch in flight is asking for
  patience, \* what is left of the timeout of the request in flight
  hops,     \* redirects followed so far
  spent,    \* time the current fetch, or token request, has taken
  got       \* where the last response given to the guest came from

fetchVars == <<url, patience, hops, spent, got>>
vars == <<config, since, pc, left, held, parked, fetchVars, limitVars>>

Steps ==
  {"idle", "instantiate", "wasm", "fetch", "token", "parked", "trapped", "failed"}

DispatchTypeOK ==
  /\ LimitsTypeOK
  /\ config \in Configs
  /\ since \in 0..(Tick + Late)
  /\ pc \in Steps
  /\ left \in Nat
  /\ held \in Nat
  /\ parked \in BOOLEAN
  /\ url \in Urls \cup {NoUrl}
  /\ patience \in 0..MaxHostCall
  /\ hops \in 0..MaxHops
  /\ spent \in Nat
  /\ got \in Urls \cup {NoUrl}

Init ==
  /\ config \in Configs
  /\ since = 0
  /\ pc = "idle"
  /\ left = 0
  /\ held = 0
  /\ parked = FALSE
  /\ url = NoUrl
  /\ patience = 0
  /\ hops = 0
  /\ spent = 0
  /\ got = NoUrl
  /\ LimitsInit

-----------------------------------------------------------------------------
(* Deadlines and allow lists *)

\* MUTANT: rounded down.
DeadlineTicks_Floor(t) == IF t < Tick THEN 1 ELSE t \div Tick

\* deadline_ticks: rounded up, and at least one.
DeadlineTicks(t) == IF t = 0 THEN 1 ELSE (t + Tick - 1) \div Tick

\* MUTANT: a host without a dispatch deadline gives its requests none either.
HostCallTimeout_Optional(t) ==
  CASE t = NoTimeout -> Horizon
    [] t \in 0..MaxHostCall -> t
    [] OTHER -> MaxHostCall

\* http_timeout_for
HostCallTimeout(t) == IF t # NoTimeout /\ t < MaxHostCall THEN t ELSE MaxHostCall

\* When the deadline t asks for has passed for certain.
LastTick(t) == DeadlineTicks(t) * (Tick + Late)

\* What a chain of redirects may take.
FetchBound(t) == (MaxHops + 1) * HostCallTimeout(t)

\* The bound on the two clocks is beyond everything the properties speak of.
ASSUME HorizonAssumption ==
  /\ (MaxHops + 1) * MaxHostCall < Horizon
  /\ \A c \in Configs : c.timeout # NoTimeout =>
       LastTick(c.timeout) + FetchBound(c.timeout) < Horizon

\* MUTANT: epoch interruption is not switched on.
Expired_Never == FALSE

\* Wasm traps at its next check: the epoch has reached the deadline.  Without a
\* timeout the deadline is out of reach.
Expired == config.timeout # NoTimeout /\ left = 0

\* MUTANT: what the extension declares replaces what the operator allows.
Allowed_Replaces(u) ==
  \/ config.declared = {} /\ u \in config.ceiling
  \/ u \in config.declared \ PublicHttp

\* effective_url_matcher
Allowed(u) ==
  \/ config.declared = {} /\ u \in config.ceiling
  \/ /\ u \in config.declared
     /\ config.ceiling # {} => u \in config.ceiling
     /\ u \notin PublicHttp

-----------------------------------------------------------------------------
(* The clock *)

\* The ticker thread wakes up, at the earliest a tick after the last time.
TickerFires ==
  /\ config.ticker
  /\ since >= Tick
  /\ since' = 0
  /\ left' = IF left > 0 THEN left - 1 ELSE 0
  /\ UNCHANGED <<config, pc, held, parked, fetchVars, limitVars>>

Running == pc \in {"instantiate", "wasm"}

\* The thread waits for a request that has a timeout.
Waiting == pc \in {"fetch", "token"}

\* MUTANT: the request goes out without a timeout of its own.
RequestOver_Never == FALSE

RequestOver == patience = 0

\* One unit of time.  The ticker is at most Late too late, running wasm does not
\* outlive its deadline, and a request does not outlive its timeout.
Elapse ==
  /\ config.ticker => since < Tick + Late
  /\ Running => ~Expired
  /\ Waiting => ~RequestOver
  /\ since' = IF config.ticker THEN since + 1 ELSE since
  /\ held' = IF (Running \/ Waiting) /\ held < Horizon THEN held + 1 ELSE held
  /\ patience' = IF Waiting /\ patience > 0 THEN patience - 1 ELSE patience
  /\ spent' = IF Waiting /\ spent < Horizon THEN spent + 1 ELSE spent
  /\ UNCHANGED <<config, pc, left, parked, url, hops, got, limitVars>>

-----------------------------------------------------------------------------
(* A dispatch *)

\* dispatch_instance: a fresh store, its limiter and deadline set before the
\* component is instantiated.  (An id that is not loaded is refused at once.)
Begin ==
  /\ pc = "idle"
  /\ pc' = "instantiate"
  /\ left' = IF config.timeout = NoTimeout THEN 0 ELSE DeadlineTicks(config.timeout)
  /\ held' = 0
  /\ parked' = FALSE
  /\ got' = NoUrl
  /\ FreshStore
  /\ UNCHANGED <<config, since, url, patience, hops, spent>>

\* Memories and tables get their declared size; one the budget cannot pay fails
\* the instantiation.
Allocate(r, n) ==
  /\ pc = "instantiate"
  /\ size[r] = 0
  /\ \/ Grant(r, n) /\ UNCHANGED pc
     \/ Refuse(r, n) /\ pc' = "failed"
  /\ UNCHANGED <<config, since, left, held, parked, fetchVars>>

\* The export is resolved and called.
Call ==
  /\ pc = "instantiate"
  /\ pc' \in {"wasm", "failed"}
  /\ UNCHANGED <<config, since, left, held, parked, fetchVars, limitVars>>

\* memory.grow and table.grow; the guest is told of a refusal and goes on.
Grow(r, n) ==
  /\ pc = "wasm"
  /\ Grant(r, n)
  /\ UNCHANGED <<config, since, pc, left, held, parked, fetchVars>>

Trap ==
  /\ Running
  /\ Expired
  /\ pc' = "trapped"
  /\ UNCHANGED <<config, since, left, held, parked, fetchVars, limitVars>>

\* The result, the trap or the error reaches the caller; the store is dropped.
Return ==
  /\ pc \in {"wasm", "trapped", "failed"}
  /\ pc' = "idle"
  /\ left' = 0
  /\ held' = 0
  /\ parked' = FALSE
  /\ got' = NoUrl
  /\ FreshStore
  /\ UNCHANGED <<config, since, url, patience, hops, spent>>

-----------------------------------------------------------------------------
(* Host calls *)

\* Back to the guest.  Its allocator, which is wasm, makes room for the result:
\* a deadline that passed during the call traps here.
Resume == pc' = IF Expired THEN "trapped" ELSE "wasm"

EndFetch ==
  /\ Resume
  /\ url' = NoUrl
  /\ patience' = 0
  /\ hops' = 0
  /\ spent' = 0

\* fetch: the url is checked and the first request goes out.  (A refused url, and
\* the calls that answer at once, change nothing.)
StartFetch(u) ==
  /\ pc = "wasm"
  /\ Allowed(u)
  /\ pc' = "fetch"
  /\ url' = u
  /\ patience' = HostCallTimeout(config.timeout)
  /\ got' = NoUrl
  /\ UNCHANGED <<config, since, left, held, parked, hops, spent, limitVars>>

\* The response is in.  It comes from the url itself, unless the client followed
\* redirects on its own.
Answers(from) == pc = "fetch" /\ (config.follows \/ from = url)

\* MUTANT: only the end of the chain is checked.
Redirect_Unchecked(from, next) ==
  /\ Answers(from)
  /\ hops < MaxHops
  /\ url' = next
  /\ patience' = HostCallTimeout(config.timeout)
  /\ hops' = hops + 1
  /\ UNCHANGED <<config, since, pc, left, held, parked, spent, got, limitVars>>

\* A redirect, the last hop not being used up: the target is checked before the
\* next request goes out to it.
Redirect(from, next) ==
  /\ Answers(from)
  /\ hops < MaxHops
  /\ IF Allowed(next)
       THEN /\ url' = next
            /\ patience' = HostCallTimeout(config.timeout)
            /\ hops' = hops + 1
            /\ UNCHANGED <<pc, spent>>
       ELSE EndFetch
  /\ UNCHANGED <<config, since, left, held, parked, got, limitVars>>

\* The check of where a client that follows redirects itself has landed.
Withheld(from) == from # url /\ ~Allowed(from)

\* Anything else is what fetch returns.
Respond(from) ==
  /\ Answers(from)
  /\ got' = IF Withheld(from) THEN NoUrl ELSE from
  /\ EndFetch
  /\ UNCHANGED <<config, since, left, held, parked, limitVars>>

\* get_token: a single request to the broker of the host's own configuration.  Its
\* timeout is that of any request, and covers whatever redirects the client
\* follows.  (A refused provider, or no broker, is answered at once.)
AskBroker ==
  /\ pc = "wasm"
  /\ pc' = "token"
  /\ patience' = HostCallTimeout(config.timeout)
  /\ UNCHANGED <<config, since, left, held, parked, url, hops, spent, got, limitVars>>

BrokerAnswers ==
  /\ pc = "token"
  /\ EndFetch
  /\ UNCHANGED <<config, since, left, held, parked, got, limitVars>>

\* The request fails, by its timeout or otherwise.
RequestFails ==
  /\ Waiting
  /\ EndFetch
  /\ UNCHANGED <<config, since, left, held, parked, got, limitVars>>

\* A wasi poll, or a call of the embedder's LLM or secrets port: the runtime sets
\* these no bound.
Park ==
  /\ pc = "wasm"
  /\ pc' = "parked"
  /\ parked' = TRUE
  /\ UNCHANGED <<config, since, left, held, fetchVars, limitVars>>

Unpark ==
  /\ pc = "parked"
  /\ Resume
  /\ UNCHANGED <<config, since, left, held, parked, fetchVars, limitVars>>

-----------------------------------------------------------------------------
(* The specification *)

Clock == TickerFires \/ Elapse

Guest ==
  \/ Call \/ Return \/ AskBroker \/ Park \/ Trap
  \/ \E r \in Regions, n \in Sizes : Allocate(r, n) \/ Grow(r, n)
  \/ \E u \in Urls : StartFetch(u)

Network ==
  \/ \E from \in Urls : Respond(from) \/ \E next \in Urls : Redirect(from, next)
  \/ BrokerAnswers
  \/ RequestFails

Next == Clock \/ Begin \/ Guest \/ Network \/ Unpark

Spec == Init /\ [][Next]_vars

\* Time passes, the ticker thread runs, a trap is taken and reported, a request
\* that is out of time fails.  The guest and its peers owe nothing.
Fairness ==
  /\ SF_vars(Elapse)
  /\ WF_vars(TickerFires)
  /\ WF_vars(Trap)
  /\ WF_vars(pc \in {"trapped", "failed"} /\ Return)
  /\ WF_vars(RequestOver /\ RequestFails)

FairSpec == Spec /\ Fairness

-----------------------------------------------------------------------------
(* Properties *)

Armed == config.ticker /\ config.timeout # NoTimeout

\* limits.rs: a guest cannot wedge its thread.  Wasm stops at the deadline; a
\* fetch that was under way then ends within the timeouts of its own requests.
ThreadIsGivenBack ==
  Armed => held <= LastTick(config.timeout)
                     + (IF Running THEN 0 ELSE FetchBound(config.timeout))

\* limits.rs:83-85: a host without a dispatch deadline, or whose ticker failed to
\* start, still does not hang on a socket forever, however often it is redirected.
\* A token request, which is one request, takes no longer than one may.
FetchEnds ==
  /\ pc = "fetch" => spent <= (MaxHops + 1) * MaxHostCall
  /\ pc = "token" => spent <= MaxHostCall

\* No call is trapped before its budget is spent, give or take the tick during
\* which it started.
NotTrappedEarly == pc = "trapped" /\ ~parked => held + Tick >= config.timeout

\* A request the runtime sends, at every hop of a chain, and an answer the guest
\* gets, even from a client that follows redirects itself, concern only what the
\* operator's list and the extension's own declaration both grant.
Grants(u) ==
  /\ config.declared # {} => u \in config.declared \ PublicHttp
  /\ config.ceiling # {} => u \in config.ceiling
  /\ config.declared \cup config.ceiling # {}

StaysOnTheList ==
  /\ pc = "fetch" => Grants(url)
  /\ got # NoUrl => Grants(got)

\* limits.rs: an armed dispatch always ends, unless it is parked in a call that
\* has no bound.
EveryCallEnds == Armed => []<>(pc \in {"idle", "parked"})

\* limits.rs:78: a single host call made on the guest's behalf takes no longer
\* than the ceiling.
HostCallWithinCeiling == Waiting => spent <= MaxHostCall
=============================================================================
