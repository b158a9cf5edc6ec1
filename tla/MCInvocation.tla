---------------------------- MODULE MCInvocation ----------------------------
(* Builds of three extensions, host calls and requirements for TLC. *)
EXTENDS Invocation

CONSTANTS a, b, c, c1, c2

\* What a component built against the versions vs of the contracts exports.
Interfaces(vs) == {<<iface, v>> : iface \in Ifaces, v \in vs}
DesignOnly(vs) == {<<iface, v>> : iface \in DesignIfaces, v \in vs}

MCNoPermissions ==
  [secrets |-> {}, network |-> {}, llm_roles |-> <<>>, oauth_providers |-> {},
   call_extension_kinds |-> {}]

MCPattern(scheme, wild, name, path) ==
  [scheme |-> scheme, wild |-> wild, host |-> name, path |-> path,
   port |-> IF scheme = "https" THEN 443 ELSE 80]
MCUrl(scheme, name, path) ==
  [scheme |-> scheme, host |-> name, path |-> path,
   port |-> IF scheme = "https" THEN 443 ELSE 80]

api == <<"api", "example">>
MCApi == MCPattern("https", FALSE, api, <<"v1">>)
MCSubs == MCPattern("https", TRUE, <<"example">>, <<>>)
MCLocal == MCPattern("http", FALSE, <<"localhost">>, <<>>)
MCPublic == MCPattern("http", FALSE, api, <<>>)
MCWildLocal == MCPattern("http", TRUE, <<"localhost">>, <<>>)

\* A careful extension, and one that asks for all it can think of.
MCNarrow ==
  [secrets |-> {<<"team", "acme">>}, network |-> {MCApi},
   llm_roles |-> <<"writer">>, oauth_providers |-> {"hub"},
   call_extension_kinds |-> {"design"}]
MCGreedy ==
  [secrets |-> {<<"">>, <<Scheme>>, <<Scheme, "", "ops">>, <<"team", "..">>},
   network |-> {MCSubs, MCLocal, MCPublic, MCWildLocal, Unparseable},
   llm_roles |-> <<"writer", "critic">>, oauth_providers |-> {"hub", "crm"},
   call_extension_kinds |-> {}]

Build ==
  [api |-> "v1", exports |-> {}, lacks |-> {}, alien |-> {}, links |-> TRUE,
   permissions |-> MCNoPermissions, views |-> {}, offers |-> {}]

View(at, page) == [id |-> at, entry |-> page]
MCPlainViews ==
  {View(<<"board">>, <<"index">>), View(<<"">>, <<"x", ".", "index">>)}
MCUpViews == {View(<<"board">>, <<"..", "..", "index">>)}
MCOutViews == {View(<<"..", "..", "etc">>, <<"index">>)}

Offer(what, minor) == [cap |-> what, version |-> minor]

\* Of a: built against the oldest contracts, the newest that are called, both at
\* once, the newest that is bound, without the functions of its interfaces, with
\* others in their place, and one that does not link.  c is only ever listed.
MCBuilds ==
  (a :> {[Build EXCEPT !.exports = Interfaces({1}), !.permissions = MCNarrow,
                       !.views = MCPlainViews, !.offers = {Offer(c1, 1)}],
         [Build EXCEPT !.api = "v2", !.exports = Interfaces({2, 3}),
                       !.permissions = MCGreedy, !.views = MCUpViews,
                       !.offers = {Offer(c1, 2)}],
         [Build EXCEPT !.exports = Interfaces({1, 2}), !.views = MCOutViews],
         [Build EXCEPT !.api = "v2", !.exports = DesignOnly({4})],
         [Build EXCEPT !.exports = Interfaces({1, 2, 3}),
                       !.lacks = {"list-tools", "poll", "evaluate"},
                       !.alien = {"invoke-tool", "render"}],
         [Build EXCEPT !.links = FALSE]})
  @@ (b :> {[Build EXCEPT !.offers = {Offer(c1, 1), Offer(c1, 2), Offer(c2, 1)}]})
  @@ (c :> {})

MCRequests ==
  {[port |-> "secrets", uri |-> uri] :
     uri \in {<<"team", "acme", "key">>, <<"team", "acme2">>, <<"team", "acme">>,
              <<"team", "acme", "..", "ops">>, <<"team", "..", "ops">>,
              <<"team", "acme", "%2e%2e", "ops">>, <<"", "ops">>,
              <<Scheme, "", "ops", "key">>, <<Scheme, "", "team">>}}
  \cup {[port |-> "http", url |-> url] :
     url \in {MCUrl("https", api, <<"v1", "chat">>),
              MCUrl("https", api, <<"v1x">>),
              MCUrl("https", api, <<"v1", "..%2fops", "..%2fops">>),
              MCUrl("https", <<"example">>, <<>>),
              MCUrl("https", <<"evil", "api", "example">>, <<>>),
              MCUrl("http", <<"localhost">>, <<"v1">>),
              MCUrl("http", <<"evil", "localhost">>, <<>>),
              MCUrl("http", api, <<"v1">>),
              MCUrl("ftp", api, <<"v1">>)}}
  \cup {[port |-> "complete", hint |-> hint] :
          hint \in {NoHint, "writer", "critic"}}
  \cup {[port |-> "embed", hint |-> "writer", batch |-> batch] :
          batch \in {"fits", "empty", "large"}}
  \cup {[port |-> port, provider |-> provider] :
          port \in {"token", "consent"}, provider \in {"hub", "crm"}}
  \cup {[port |-> "broker", kind |-> kind] : kind \in {"design", "deploy"}}

\* A host that is set up with everything, an operator's list and a broker of
\* tokens over plain http; and one with nothing.
MCHosts ==
  {[operators |-> [patterns |-> {MCApi, MCLocal}, allow_http |-> FALSE],
    http_client |-> TRUE, llm_port |-> TRUE, call_depth |-> 0, runtime |-> TRUE,
    oauth |-> {[scheme |-> "http", host |-> api, query |-> FALSE]}],
   [operators |-> [patterns |-> {}, allow_http |-> FALSE],
    http_client |-> TRUE, llm_port |-> FALSE, call_depth |-> MaxBrokerDepth,
    runtime |-> FALSE,
    oauth |-> {[scheme |-> "https", host |-> api, query |-> FALSE]}]}

Wants(what, admits) == [cap |-> what, wants |-> admits]
MCRequirements ==
  {Wants(c1, {1}), Wants(c1, {1, 2}), Wants(c1, {3}), Wants(c2, {1, 2}),
   Wants(c2, Malformed)}
MCDemands == UNION {[1..n -> MCRequirements] : n \in 0..2}

MCNeeds == {{}, {Wants(c1, {1})}, {Wants(c1, {1, 2})}, {Wants(c2, {1})},
            {Wants(c1, {2}), Wants(c2, Malformed)}}
MCListings == UNION {[ids -> MCNeeds] : ids \in SUBSET Ids}
=============================================================================
