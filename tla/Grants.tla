------------------------------- MODULE Grants -------------------------------
(***************************************************************************)
(* What the describe of an extension grants it and how the host enforces   *)
(* it: the checks in front of secrets, http, llm, oauth and the broker,    *)
(* and of the paths its views name                                         *)
(* (crates/greentic-ext-runtime/src/host_state*.rs, net_permissions.rs,    *)
(* url_matcher.rs, http_scheme_policy.rs, oauth.rs, runtime_views.rs).     *)
(*                                                                         *)
(* A path is the sequence of the segments between its slashes, so that a   *)
(* prefix that ends at a slash is a prefix of the sequence.  The check and *)
(* whoever serves the request may read a path differently: Place is how a  *)
(* file system reads it, Location how the most lenient server does.        *)
(***************************************************************************)
EXTENDS Naturals, Sequences, SequencesExt

CONSTANT Unparseable  \* a url pattern that does not parse

-----------------------------------------------------------------------------
(* Paths *)

Dots == {".", ".."}

\* Segments with a percent-escape, of a slash in particular, and what they
\* decode to.
EncodedSeparator == {"..%2fops"}
Escaped == EncodedSeparator \cup {"%2e%2e"}
Decoded(segment) ==
  CASE segment = "%2e%2e" -> <<"..">>
    [] segment = "..%2fops" -> <<"..", "ops">>
    [] OTHER -> <<segment>>

Enter(at, segment) ==
  CASE segment \in {"", "."} -> at
    [] segment = ".." -> IF at = <<>> THEN at ELSE Front(at)
    [] OTHER -> Append(at, segment)

\* Where a path leads when its dots are followed.
Place(path) == FoldLeft(Enter, <<>>, path)

\* Where it leads for a server that decodes it first.
Location(path) == Place(FlattenSeq([i \in DOMAIN path |-> Decoded(path[i])]))

Beneath(root, path) == IsPrefix(Location(root), Location(path))

-----------------------------------------------------------------------------
(* Secrets *)

Scheme == "secrets:"
AfterScheme(uri) == IF uri # <<>> /\ Head(uri) = Scheme THEN Tail(uri) ELSE uri

\* MUTANT: a uri is compared as it is written.
uri_is_plain_Any(uri) == TRUE
uri_is_plain(uri) == \A i \in DOMAIN uri : uri[i] \notin Escaped \cup Dots

declaration_is_specific(declared) ==
  \E i \in DOMAIN AfterScheme(declared) : AfterScheme(declared)[i] # ""

\* secrets::get
GetSecret(state, uri) ==
  IF ~uri_is_plain(uri) THEN "malformed"
  ELSE IF ~\E declared \in state.permissions.secrets :
          declaration_is_specific(declared) /\ IsPrefix(declared, uri)
       THEN "denied"
  ELSE "served"

\* The place a served uri leads to lies beneath one that the extension names.
SecretGranted(permissions, uri) ==
  \E declared \in permissions.secrets :
    Location(AfterScheme(declared)) # <<>> /\ Beneath(declared, uri)

-----------------------------------------------------------------------------
(* Outbound http.  A url is what the url crate parses it to; a host is the   *)
(* sequence of its labels.                                                   *)

Pattern == [scheme : STRING, wild : BOOLEAN, host : Seq(STRING), port : Nat,
            path : Seq(STRING)]

\* The url crate follows the dots of a path, escaped ones included, and leaves
\* the other escapes alone.
IsUrl(url) ==
  /\ url \in [scheme : STRING, host : Seq(STRING), port : Nat, path : Seq(STRING)]
  /\ \A i \in DOMAIN url.path : url.path[i] \notin Dots \cup {"%2e%2e"}

Loopback == {<<"localhost">>, <<"127.0.0.1">>}
\* classify; a wildcard is never loopback.
Classify(pattern) ==
  IF pattern = Unparseable \/ pattern.scheme # "http" THEN "Other"
  ELSE IF ~pattern.wild /\ pattern.host \in Loopback THEN "Loopback"
  ELSE "Public"

Parsed(patterns) == patterns \ {Unparseable}

\* effective_url_matcher: the operator's list is a ceiling, unless it is empty.
\* MUTANT: a loopback pattern lets plain http to any host through.
EffectiveMatcher_AnyHttp(declared, operators) ==
  IF declared = {} THEN operators
  ELSE LET kept == {p \in declared : operators.patterns # {}
                                     => p \in operators.patterns}
       IN [patterns |-> kept,
           allow_http |-> \E p \in kept : Classify(p) = "Loopback"]
EffectiveMatcher(declared, operators) ==
  IF declared = {} THEN operators
  ELSE LET kept == {p \in declared : operators.patterns # {}
                                     => p \in operators.patterns}
       IN [patterns |-> {p \in kept : Classify(p) # "Public"},
           allow_http |-> \E p \in kept : Classify(p) = "Loopback"]

\* A wildcard stands for at least one label.
HostMatches(pattern, host) ==
  IF pattern.wild THEN IsStrictSuffix(pattern.host, host)
                  ELSE host = pattern.host

Matches(pattern, url) ==
  /\ pattern.scheme = url.scheme
  /\ pattern.port = url.port
  /\ HostMatches(pattern, url.host)
  /\ IsPrefix(pattern.path, url.path)

\* is_allowed: neither a scheme but https, and http where opted in, nor an
\* encoded separator.
IsAllowed(matcher, url) ==
  /\ url.scheme = "https" \/ (matcher.allow_http /\ url.scheme = "http")
  /\ \A i \in DOMAIN url.path : url.path[i] \notin EncodedSeparator
  /\ \E pattern \in Parsed(matcher.patterns) : Matches(pattern, url)

Fetch(state, url) ==
  IF ~IsAllowed(state.url_matcher, url) THEN "denied"
  ELSE IF ~state.http_client THEN "unconfigured"
  ELSE "served"

\* A pattern covers the urls of its origin that lead beneath its path.
Covers(pattern, url) ==
  /\ pattern.scheme = url.scheme /\ pattern.port = url.port
  /\ \/ url.host = pattern.host /\ ~pattern.wild
     \/ pattern.wild /\ \E n \in 1..(Len(url.host) - Len(pattern.host)) :
                          SubSeq(url.host, n + 1, Len(url.host)) = pattern.host
  /\ Beneath(pattern.path, url.path)

\* Operator and extension both grant it, or the one that says anything does; and
\* what an extension declares opens plain http to this machine only.
UrlGranted(permissions, operators, url) ==
  LET By(patterns) == \E p \in Parsed(patterns) : Covers(p, url)
      declared == permissions.network
  IN /\ declared # {} => By(declared)
     /\ (declared = {} \/ operators.patterns # {}) => By(operators.patterns)
     /\ url.scheme \in {"http", "https"}
     /\ url.scheme = "http" =>
          IF declared = {} THEN operators.allow_http ELSE url.host \in Loopback

-----------------------------------------------------------------------------
(* LLM, OAuth and the broker *)

NoHint == "no hint"
NoRole == "no role"

\* resolve_llm_role: the role hinted at, or the only one declared.
\* MUTANT: without a hint the first of the declared roles serves.
ResolveRole_First(declared, hint) ==
  IF hint # NoHint
     THEN IF hint \in ToSet(declared) THEN hint ELSE NoRole
  ELSE IF declared # <<>> THEN Head(declared)
  ELSE NoRole
ResolveRole(declared, hint) ==
  IF hint # NoHint
     THEN IF hint \in ToSet(declared) THEN hint ELSE NoRole
  ELSE IF Len(declared) = 1 THEN declared[1]
  ELSE NoRole

Complete(state, hint) ==
  IF ResolveRole(state.permissions.llm_roles, hint) = NoRole
     THEN "denied"
  ELSE IF ~state.llm_port THEN "unconfigured"
  ELSE "served"

\* A batch that is empty, has too many inputs or bytes, or a blank input, is
\* refused as a whole.
Embed(state, hint, batch) ==
  IF ResolveRole(state.permissions.llm_roles, hint) = NoRole
     THEN "denied"
  ELSE IF batch # "fits" THEN "malformed"
  ELSE IF ~state.llm_port THEN "unconfigured"
  ELSE "served"

\* check_provider
MayUse(state, provider) == provider \in state.permissions.oauth_providers

\* request_resource_token_blocking sends to an https url without a query, or to
\* this machine.
SendsToken(base) ==
  /\ base.scheme = "https" \/ base.host \in Loopback
  /\ ~base.query

GetToken(state, provider) ==
  IF ~MayUse(state, provider) THEN "denied"
  ELSE IF state.oauth = {} \/ ~state.http_client THEN "unconfigured"
  ELSE IF ~\E base \in state.oauth : SendsToken(base) THEN "failed"
  ELSE "served"

\* get_consent_url and exchange_code
ConsentOrExchange(state, provider) ==
  IF MayUse(state, provider) THEN "not implemented" ELSE "denied"

MaxBrokerDepth == 8

\* call_extension reaches no extension yet.
CallExtension(state, kind) ==
  IF kind \notin state.permissions.call_extension_kinds THEN "denied"
  ELSE IF state.call_depth >= MaxBrokerDepth THEN "too deep"
  ELSE IF ~state.runtime THEN "unconfigured"
  ELSE "not implemented"

-----------------------------------------------------------------------------
(* The state of one dispatch, and the calls it serves *)

\* build_store_and_instance and HostState's builder
HostStateOf(entry, host) ==
  [permissions |-> entry.permissions,
   url_matcher |-> EffectiveMatcher(entry.permissions.network, host.operators),
   http_client |-> host.http_client,
   llm_port |-> host.llm_port,
   oauth |-> host.oauth,
   call_depth |-> host.call_depth,
   runtime |-> host.runtime]

Serve(state, request) ==
  CASE request.port = "secrets" -> GetSecret(state, request.uri)
    [] request.port = "http" -> Fetch(state, request.url)
    [] request.port = "complete" -> Complete(state, request.hint)
    [] request.port = "embed" -> Embed(state, request.hint, request.batch)
    [] request.port = "token" -> GetToken(state, request.provider)
    [] request.port = "consent" -> ConsentOrExchange(state, request.provider)
    [] request.port = "broker" -> CallExtension(state, request.kind)

-----------------------------------------------------------------------------
(* Views *)

\* The components of a relative path: empty segments and inner dots vanish.
Components(path) ==
  {path[i] : i \in {j \in DOMAIN path : path[j] # "" /\ (path[j] = "." => j = 1)}}

\* pack_relative_path accepts a path that is neither empty nor absolute and has
\* nothing but names for components.
\* MUTANT: it only refuses the other two.
PackRelative_Dots(path) == Head(path) # ""
PackRelative(path) == Head(path) # "" /\ Components(path) \cap Dots = {}

\* view_to_definition: the asset directory, from the id, and the entry in it.
AssetDir(view) == <<"assets", "views">> \o view.id
EntryPath(view) == AssetDir(view) \o view.entry
ViewResolves(view) == PackRelative(AssetDir(view)) /\ PackRelative(view.entry)

\* list_views fails as a whole if one of them escapes.
ViewsResolve(views) == \A view \in views : ViewResolves(view)

\* The file system follows dots and decodes nothing.
ViewInPack(view) ==
  /\ IsPrefix(Place(<<"assets", "views">>), Place(AssetDir(view)))
  /\ IsPrefix(Place(AssetDir(view)), Place(EntryPath(view)))
=============================================================================
