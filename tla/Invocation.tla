----------------------------- MODULE Invocation -----------------------------
(***************************************************************************)
(* A thread of the host that uses the loaded extensions while other        *)
(* threads load, reload and drop them: it calls an operation of one, lists *)
(* what one declares, and asks the capability registry                     *)
(* (crates/greentic-ext-runtime/src/runtime.rs, runtime_design.rs,         *)
(* runtime_deploy.rs, runtime_roles.rs and the other runtime_*.rs).        *)
(*                                                                         *)
(* What other threads do to the loaded set is LoadedSet, which             *)
(* ExtensionRuntime implements.  Callers share nothing but that set, so    *)
(* one of them stands for any number.  How long a guest runs and what it   *)
(* uses up is Dispatch.                                                    *)
(***************************************************************************)
EXTENDS Capabilities, Contracts, Grants

CONSTANTS
  Builds,    \* Builds[id]: the entries that may be loaded under the id
  Callable,  \* the ids the host calls
  Chatty,    \* the operations during which a guest calls back into the host
  Requests,  \* those host calls
  Hosts,     \* how the host may be set up
  Listings,  \* what it asks detect_cycle about
  Demands,   \* what it asks resolve for
  MaxSeen,   \* bound: entries of an id loaded in the course of one call of it
  NoExt, NoId

\* One loaded extension, as far as calls depend on it.
Entry == [api : {"v1", "v2"},                  \* the describe's contract
          exports : SUBSET (Ifaces \X Minors), \* the component's interfaces
          lacks : SUBSET STRING,               \* functions missing from them
          alien : SUBSET STRING,               \* functions of other types
          links : BOOLEAN,                     \* it can be instantiated
          permissions : [secrets : SUBSET Seq(STRING),
                         network : SUBSET (Pattern \cup {Unparseable}),
                         llm_roles : Seq(STRING),
                         oauth_providers : SUBSET STRING,
                         call_extension_kinds : SUBSET STRING],
          views : SUBSET [id : Seq(STRING), entry : Seq(STRING)],
          offers : SUBSET [cap : Caps, version : Versions]]

Entries == UNION {Builds[id] : id \in Ids}

ASSUME InvocationAssumption ==
  /\ DOMAIN Builds = Ids /\ \A id \in Ids : Builds[id] \subseteq Entry
  /\ \A e \in Entries : IsFiniteSet(e.offers)
  /\ Callable \subseteq Ids /\ Chatty \subseteq OpNames
  /\ MaxSeen \in Nat \ {0}
  /\ NoExt \notin Entries /\ NoId \notin Ids
  \* What the host asks the registry.
  /\ Demands \subseteq Seq(Requirement)
  /\ \A listed \in Listings : DOMAIN listed \subseteq Ids
  /\ \A listed \in Listings, id \in Ids :
       id \in DOMAIN listed => listed[id] \subseteq Requirement
  \* What a guest passes, and what an operator lists.
  /\ \A r \in Requests :
       (r.port = "secrets" => r.uri \in Seq(STRING)) /\ (r.port = "http" => IsUrl(r.url))
  /\ \A h \in Hosts : h.operators.patterns \subseteq Pattern \cup {Unparseable}
  \* oauth_config is an Option.
  /\ \A h \in Hosts : \A one, other \in h.oauth : one = other

VARIABLES
  loaded,    \* ExtensionRuntime.loaded
  registry,  \* ExtensionRuntime.capability_registry
  host,      \* HostOverrides
  pc,        \* what the thread is doing
  call,      \* the operation it calls, on which id, with what
  seen,      \* what has been loaded under that id since the call began
  entry,     \* the entry it holds
  version,   \* the version it resolved
  heard,     \* what the guest was told
  said,      \* what it said
  outside,   \* the last host call served, and how it ended
  answer,    \* what the caller gets
  job,       \* the last deployment started
  verdict    \* what the registry answered

callVars == <<call, seen, entry, version, heard, said, outside, answer>>
vars == <<loaded, registry, host, pc, callVars, job, verdict>>

Steps == {"idle", "looking", "again", "open", "running", "answered", "judged"}

Nothing == <<>>
NoCall == [op |-> "none", id |-> NoId, with |-> Nothing]
NoAnswer == [tag |-> "none", case |-> Nothing]
NoRequest == [request |-> [port |-> "none"], reply |-> "none"]
NoJob == [id |-> NoId, entry |-> NoExt, version |-> NoVersion]
NoVerdict == [about |-> "none"]

Tags == {"none", "NotFound", "Wasmtime", "Ok", "Declared", "Views", "Extension",
         "Deploy", "Composer", "Role"}

\* What an answer may say: a case of the contract, or where the host failed.
Stages == {"instantiate", "interface", "function", "input", "types", "trap",
           "view"}
Outcome == [tag : Tags,
            case : Values \cup Errors \cup Cases(Stages)
                   \cup {Nothing, <<"no roles">>}]

Inputs == Text \cup TargetKind \cup GuardrailInput

\* The offers a loaded map stands for: rebuild_registry.
Offerings(m) ==
  {o \in OfferedBinding :
     m[o.ext] # NoExt
     /\ [cap |-> o.cap, version |-> o.version] \in m[o.ext].offers}

\* The loaded set as its readers see it.
Reader == INSTANCE LoadedSet WITH
            map <- loaded, offers <- registry, Entry <- Entries,
            Offered <- Offerings

\* The type invariant.
InvocationTypeOK ==
  /\ loaded \in [Ids -> Entries \cup {NoExt}]
  /\ registry \subseteq OfferedBinding
  /\ host \in Hosts
  /\ pc \in Steps
  /\ call \in [op : OpNames \cup {"none", "list_views"}, id : Ids \cup {NoId},
               with : Inputs \cup {Nothing}]
  /\ seen \subseteq Entries \cup {NoExt}
  /\ entry \in Entries \cup {NoExt}
  /\ version \in Minors \cup {NoVersion}
  /\ heard \in Inputs \cup {Nothing}
  /\ outside = NoRequest \/ outside.request \in Requests
  /\ said \in Outcome /\ answer \in Outcome
  /\ job \in [id : Ids, entry : Entries, version : Minors] \cup {NoJob}

Init ==
  /\ Reader!Init
  /\ host \in Hosts
  /\ pc = "idle"
  /\ call = NoCall /\ seen = {} /\ entry = NoExt /\ version = NoVersion
  /\ heard = Nothing /\ said = NoAnswer /\ outside = NoRequest
  /\ answer = NoAnswer
  /\ job = NoJob
  /\ verdict = NoVerdict

-----------------------------------------------------------------------------
(* Other threads *)

\* A load, a reload or an eviction becomes visible, or its offers do.  During a
\* call only those of its id matter to it, and none once it is answered.
Reload ==
  /\ Reader!Publish \/ Reader!Advertise
  /\ \A id \in Ids : loaded'[id] \in Builds[id] \cup {NoExt}
  /\ pc \notin {"answered", "judged"}
  /\ IF pc = "idle" THEN seen' = seen
     ELSE /\ \A id \in Ids \ {call.id} : loaded'[id] = loaded[id]
          /\ seen' = seen \cup {loaded'[call.id]}
          /\ Cardinality(seen') <= MaxSeen
  /\ UNCHANGED <<host, pc, call, entry, version, heard, said, outside, answer,
                 job, verdict>>

-----------------------------------------------------------------------------
(* A call *)

\* What the caller may pass; an operation that takes several strings, or none,
\* is passed Text.
Arguments(name) ==
  IF name = "list_views" THEN Text ELSE DOMAIN Op[name].hears[1]

\* A host that has a deployment going does nothing but follow it.
StartCall(name, id, with) ==
  /\ pc = "idle"
  /\ job # NoJob => name \in {"deploy_poll", "deploy_rollback"} /\ id = job.id
  /\ pc' = "looking"
  /\ call' = [op |-> name, id |-> id, with |-> with]
  /\ seen' = {loaded[id]}
  /\ UNCHANGED <<loaded, registry, host, entry, version, heard, said, outside,
                 answer, job, verdict>>

Return(result) == pc' = "answered" /\ answer' = result

\* Only compile_role reports a missing extension as a missing role.
Absent(name) ==
  IF name = "compile_role" THEN [tag |-> "Role", case |-> <<"UnknownRole">>]
  ELSE [tag |-> "NotFound", case |-> Nothing]

\* lookup fails.
NotLoaded ==
  /\ pc \in {"looking", "again"}
  /\ loaded[call.id] = NoExt
  /\ Return(Absent(call.op))
  /\ entry' = NoExt
  /\ UNCHANGED <<loaded, registry, host, call, seen, version, heard, said,
                 outside, job, verdict>>

\* list_views answers from the describe.
ViewsAnswer(e) ==
  IF ViewsResolve(e.views) THEN [tag |-> "Views", case |-> Nothing]
  ELSE [tag |-> "Wasmtime", case |-> <<"view">>]

\* So does list_tools under the v2 contract.
DeclaredAnswer == [tag |-> "Declared", case |-> Nothing]

ListDeclared ==
  /\ pc = "looking"
  /\ loaded[call.id] # NoExt
  /\ entry' = loaded[call.id]
  /\ \/ call.op = "list_views" /\ Return(ViewsAnswer(entry'))
     \/ call.op = "list_tools" /\ entry'.api = "v2" /\ Return(DeclaredAnswer)
  /\ UNCHANGED <<loaded, registry, host, call, seen, version, heard, said,
                 outside, job, verdict>>

\* Under the v1 contract list_tools drops what it found, and dispatch_instance
\* looks the id up again.
ListByCall ==
  /\ pc = "looking" /\ call.op = "list_tools"
  /\ loaded[call.id] # NoExt
  /\ loaded[call.id].api = "v1"
  /\ pc' = "again"
  /\ UNCHANGED <<loaded, registry, host, callVars, job, verdict>>

\* lookup of dispatch_instance: the call holds the entry from here on.
Lookup ==
  /\ pc = "again" \/ (pc = "looking" /\ call.op \notin {"list_views", "list_tools"})
  /\ loaded[call.id] # NoExt
  /\ entry' = loaded[call.id]
  /\ pc' = "open"
  /\ UNCHANGED <<loaded, registry, host, call, seen, version, heard, said,
                 outside, answer, job, verdict>>

\* Where opening a call on e ends at version v: the first step that fails, or the
\* guest.  The input of a guardrail is read before its function is typed.
Opening(e, v, op, with) ==
  IF ~e.links THEN "instantiate"
  ELSE IF v = NoVersion THEN "interface"
  ELSE IF <<op.iface, v>> \notin e.exports \/ op.func \in e.lacks
       THEN "function"
  ELSE IF op.hears[v][with] = Refused THEN "input"
  ELSE IF op.func \in e.alien \/ ~AbiFits(op, v) THEN "types"
  ELSE "guest"

\* A failure of the host as the caller sees it.  An extension without roles
\* lists none.
HostFailure(name, stage) ==
  CASE name = "compile_role" ->
         [tag |-> "Role", case |-> <<"Host", "Internal">>]
    [] name = "list_roles" /\ stage = "interface" ->
         [tag |-> "Ok", case |-> <<"no roles">>]
    [] OTHER -> [tag |-> "Wasmtime", case |-> <<stage>>]

\* The version a call is opened at: what the entry it holds exports decides.
\* MUTANT: the version resolved last is kept by id, across reloads.
Resolved_ById ==
  Resolve(Op[call.op],
          (IF loaded[call.id] = NoExt THEN entry ELSE loaded[call.id]).exports)
Resolved == Resolve(Op[call.op], entry.exports)

\* build_store_and_instance, resolve_iface_versions, resolve_func and
\* get_typed_func, with no look at the loaded set between them.
OpenFails ==
  /\ pc = "open"
  /\ LET stage == Opening(entry, Resolved, Op[call.op], call.with)
     IN stage # "guest" /\ Return(HostFailure(call.op, stage))
  /\ UNCHANGED <<loaded, registry, host, call, seen, entry, version, heard, said,
                 outside, job, verdict>>

Open ==
  /\ pc = "open"
  /\ Opening(entry, Resolved, Op[call.op], call.with) = "guest"
  /\ pc' = "running"
  /\ version' = Resolved
  /\ heard' = Op[call.op].hears[version'][call.with]
  /\ UNCHANGED <<loaded, registry, host, call, seen, entry, said, outside,
                 answer, job, verdict>>

\* The guest calls the host, whose state was built when the call was opened.
HostCall(request) ==
  /\ pc = "running"
  /\ call.op \in Chatty
  /\ outside' = [request |-> request,
                 reply |-> Serve(HostStateOf(entry, host), request)]
  /\ UNCHANGED <<loaded, registry, host, pc, call, seen, entry, version, heard,
                 said, answer, job, verdict>>

\* The guest returns a value, or an error of its contract.
GuestReturns(c) ==
  /\ pc = "running"
  /\ c \in DOMAIN Op[call.op].says[version]
  /\ said' = [tag |-> "Ok", case |-> c]
  /\ Return([tag |-> "Ok", case |-> Op[call.op].says[version][c]])
  /\ UNCHANGED <<loaded, registry, host, call, seen, entry, version, heard,
                 outside, job, verdict>>

GuestFails(c) ==
  /\ pc = "running"
  /\ c \in DOMAIN Op[call.op].fails[version]
  /\ said' = [tag |-> Op[call.op].raises, case |-> c]
  /\ Return([tag |-> Op[call.op].raises,
             case |-> Op[call.op].fails[version][c]])
  /\ UNCHANGED <<loaded, registry, host, call, seen, entry, version, heard,
                 outside, job, verdict>>

GuestTraps ==
  /\ pc = "running"
  /\ Return(HostFailure(call.op, "trap"))
  /\ UNCHANGED <<loaded, registry, host, call, seen, entry, version, heard, said,
                 outside, job, verdict>>

\* A deployment that was started is followed until it is rolled back.
\* MUTANT: one that failed is followed too.
JobAfter_Any ==
  CASE call.op = "deploy" -> [id |-> call.id, entry |-> entry, version |-> version]
    [] call.op = "deploy_rollback" -> NoJob
    [] OTHER -> job
JobAfter ==
  CASE call.op = "deploy" /\ answer.tag = "Ok" ->
         [id |-> call.id, entry |-> entry, version |-> version]
    [] call.op = "deploy_rollback" -> NoJob
    [] OTHER -> job

\* The caller goes on.
Collect ==
  /\ pc = "answered"
  /\ pc' = "idle"
  /\ job' = JobAfter
  /\ call' = NoCall /\ seen' = {} /\ entry' = NoExt /\ version' = NoVersion
  /\ heard' = Nothing /\ said' = NoAnswer /\ outside' = NoRequest
  /\ answer' = NoAnswer
  /\ UNCHANGED <<loaded, registry, host, verdict>>

-----------------------------------------------------------------------------
(* The capability registry *)

Judge(result) ==
  /\ pc = "idle" /\ job = NoJob
  /\ pc' = "judged"
  /\ verdict' = result
  /\ UNCHANGED <<loaded, registry, host, callVars, job>>

ResolveDemand(required) ==
  \E plan \in Plans(registry, required) :
    Judge([about |-> "plan", offers |-> registry, required |-> required,
           plan |-> plan])

FindCycles(listed) ==
  Judge([about |-> "cycle", offers |-> registry, listed |-> listed,
         report |-> DetectCycle(registry, listed)])

Dismiss ==
  /\ pc = "judged"
  /\ pc' = "idle"
  /\ verdict' = NoVerdict
  /\ UNCHANGED <<loaded, registry, host, callVars, job>>

-----------------------------------------------------------------------------
Calls ==
  \/ \E name \in OpNames \cup {"list_views"}, id \in Callable :
       \E with \in Arguments(name) : StartCall(name, id, with)
  \/ NotLoaded \/ ListDeclared \/ ListByCall \/ Lookup
  \/ OpenFails \/ Open
  \/ \E request \in Requests : HostCall(request)
  \/ \E c \in Values : GuestReturns(c)
  \/ \E c \in Errors : GuestFails(c)
  \/ GuestTraps \/ Collect

Next ==
  \/ Reload \/ Calls
  \/ \E required \in Demands : ResolveDemand(required)
  \/ \E listed \in Listings : FindCycles(listed)
  \/ Dismiss

Spec == Init /\ [][Next]_vars

-----------------------------------------------------------------------------
(* Properties *)

\* What calling the operation through the component of e may answer.
Through(e) ==
  LET op == Op[call.op]
      v == Resolve(op, e.exports)
      stage == Opening(e, v, op, call.with)
  IN IF stage # "guest" THEN {HostFailure(call.op, stage)}
     ELSE {[tag |-> "Ok", case |-> op.says[v][c]] : c \in DOMAIN op.says[v]}
          \cup {[tag |-> op.raises, case |-> op.fails[v][c]] :
                  c \in DOMAIN op.fails[v]}
          \cup {HostFailure(call.op, "trap")}

\* What the call may answer if e is all there ever is under its id.
Alone(e) ==
  IF e = NoExt THEN {Absent(call.op)}
  ELSE IF call.op = "list_views" THEN {ViewsAnswer(e)}
  ELSE IF call.op = "list_tools" /\ e.api = "v2" THEN {DeclaredAnswer}
  ELSE Through(e)

\* A call that overlaps reloads and evictions answers as it would have with one
\* of the entries that were loaded in the meantime, alone (the extension is
\* looked up once, and everything of the call is resolved on what was found:
\* runtime.rs, dispatch_instance_ctx).  list_tools is the exception: it looks the
\* extension up twice, and may ask the component of a v2 extension after it
\* judged by the describe of a v1 one (runtime_design.rs, list_tools).
OneVersionAnswers ==
  pc = "answered" =>
    \/ \E e \in seen : answer \in Alone(e)
    \/ /\ call.op = "list_tools"
       /\ \E first, second \in seen \ {NoExt} :
            first.api = "v1" /\ answer \in Through(second)

\* A guest that runs has been told what the caller asked, at whatever version of
\* the contract it is called: a guardrail is never evaluated in another direction
\* than the one it was asked about, nor for one that does not exist
\* (guardrail_map.rs, parse_direction; runtime_roles.rs, target_to_wit).
HeardAsAsked == heard # Nothing => heard = call.with

\* The caller is told what the guest said, in the guest's own category, whichever
\* version of the error type it was said in: in particular Internal from deploy,
\* by which the designer knows a stub, is never another error of the guest
\* (types.rs, DeployExtensionError).  Only the bare text of the first composer
\* contract has no category.
ToldWhatItSaid ==
  said # NoAnswer =>
    /\ answer.tag = said.tag
    /\ \/ answer.case = said.case
       \/ said = [tag |-> "Composer", case |-> <<"text">>]
          /\ answer.case = <<"Internal">>

\* As long as the entry that started a deployment stays loaded, polling it and
\* rolling it back speak the version of the contract it was started in
\* (runtime_deploy.rs, deployment_call: "factoring it keeps the
\* version-resolution order from drifting").
JobKeepsItsContract ==
  (job # NoJob /\ version # NoVersion /\ entry = job.entry)
    => version = job.version

\* The directory and the entry page of every view that list_views hands to the
\* host lie in the directory of the pack that is set aside for views
\* (runtime_views.rs, view_to_definition; runtime_verify.rs, pack_relative_path).
ViewsInsidePack ==
  answer.tag = "Views" => \A view \in entry.views : ViewInPack(view)

\* A secret that reaches the backend lies, however the backend reads its uri,
\* beneath a place that the running extension's own describe names, whatever has
\* been loaded under its id since (host_state_ports.rs, secrets::get).
SecretsWithinGrant ==
  (outside.reply = "served" /\ outside.request.port = "secrets")
    => SecretGranted(entry.permissions, outside.request.uri)

\* A url that is fetched lies, however the server reads its path, within what the
\* running extension declares and within the operator's list, and is not plain
\* http to another machine (net_permissions.rs, url_matcher.rs).
FetchesWithinLists ==
  (outside.reply = "served" /\ outside.request.port = "http")
    => UrlGranted(entry.permissions, host.operators, outside.request.url)

\* A model is asked in a role the running extension declares, and in one it did
\* not name only if there is no other; a token is asked for a provider it
\* declares, and not over plain http to another machine (host_state_llm.rs,
\* resolve_llm_role; host_state_oauth.rs; oauth.rs).
PortsWithinGrant ==
  LET request == outside.request
      roles == ToSet(entry.permissions.llm_roles)
  IN outside.reply = "served" =>
       /\ request.port \in {"complete", "embed"} =>
            IF request.hint = NoHint THEN Cardinality(roles) = 1
                                     ELSE request.hint \in roles
       /\ request.port = "token" =>
            /\ request.provider \in entry.permissions.oauth_providers
            /\ \A base \in host.oauth :
                 base.scheme = "https" \/ base.host \in Loopback

\* Resolving requirements accounts for each of them and binds the newest offer
\* that is asked for, and nothing at all for one that does not parse
\* (capability.rs, resolve and parse_requirement).
PlanIsBest ==
  verdict.about = "plan" =>
    Answers(verdict.plan, verdict.offers, verdict.required)

\* The extensions reported are exactly those whose dependencies reach a cycle,
\* through any offer that matches ("deliberately reaches, not participates in",
\* capability.rs, detect_cycle).
CycleReport ==
  verdict.about = "cycle" =>
    verdict.report = Endless(verdict.offers, verdict.listed)

\* An extension that exports an interface at a version whose world the host has
\* bindings for is called; in particular it is not taken for one without roles
\* (host_bindings.rs, design_v04; wit/runtime-side.wit).
BoundContractsAreCalled ==
  (/\ pc = "answered"
   /\ \/ answer = [tag |-> "Wasmtime", case |-> <<"interface">>]
      \/ answer = [tag |-> "Ok", case |-> <<"no roles">>])
  => \A v \in BoundVersions(Op[call.op].iface) :
       <<Op[call.op].iface, v>> \notin entry.exports
=============================================================================
