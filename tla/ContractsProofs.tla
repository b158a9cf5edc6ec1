--------------------------- MODULE ContractsProofs ---------------------------
(***************************************************************************)
(* Proofs about the table of operations: every conversion keeps the case   *)
(* of what it converts, but for the one that has to invent it, and every   *)
(* version a call resolves is one the component exports.                   *)
(***************************************************************************)
EXTENDS Contracts, SequenceTheorems, TLAPS

-----------------------------------------------------------------------------
(* Conversions *)

\* It converts cases to the case of the same name.
Verbatim(f) == \A c \in DOMAIN f : f[c] = c

\* It does, or refuses.
Heeds(f) == \A c \in DOMAIN f : f[c] \in {c, Refused}

LEMMA SameIsVerbatim ==
  ASSUME NEW cases
  PROVE  Verbatim(Same(cases)) /\ DOMAIN Same(cases) = cases
  BY DEF Verbatim, Same

\* The names conversions tell apart.
Names ==
  {"Error", "Warning", "Info", "Hint", "AdaptiveCard", "SlackBlockKit",
   "TeamsCard", "PlainText", "InvalidInput", "MissingCapability",
   "PermissionDenied", "Internal", "NotFound", "SchemaInvalid", "UnknownRole",
   "CompileFailed", "VersionNotSupported", "TargetNotSupported", "Host"}

LEMMA Singleton ==
  ASSUME NEW S, NEW x \in S
  PROVE  <<x>> \in Seq(S) /\ Len(<<x>>) = 1 /\ <<x>>[1] = x
  OBVIOUS

\* The cases of an enumeration are sequences of names.
LEMMA CasesAreSequences ==
  ASSUME NEW names \in SUBSET Names
  PROVE  Cases(names) \subseteq Seq(Names)
  BY Singleton DEF Cases

LEMMA HostTypes ==
  /\ Severity \subseteq Seq(Names) /\ TargetKind \subseteq Seq(Names)
  /\ Base1 \subseteq Seq(Names) /\ Base2 \subseteq Seq(Names)
  <1>1. /\ {"Error", "Warning", "Info", "Hint"} \in SUBSET Names
        /\ {"AdaptiveCard", "SlackBlockKit", "TeamsCard", "PlainText"}
             \in SUBSET Names
        /\ {"InvalidInput", "MissingCapability", "PermissionDenied", "Internal"}
             \in SUBSET Names
        /\ {"NotFound", "SchemaInvalid"} \in SUBSET Names
    BY DEF Names
  <1>2. Severity \subseteq Seq(Names) /\ TargetKind \subseteq Seq(Names)
    BY <1>1, CasesAreSequences DEF Severity, TargetKind
  <1>3. Base1 \subseteq Seq(Names)
    BY <1>1, CasesAreSequences DEF Base1
  <1>4. Base2 \subseteq Seq(Names)
    BY <1>1, <1>3, CasesAreSequences DEF Base2
  <1>5. QED BY <1>2, <1>3, <1>4

\* A name in front of a case is all that is in front of it.
LEMMA Carries ==
  ASSUME NEW name \in Names, NEW carried \in Seq(Names)
  PROVE  /\ <<name>> \o carried \in Seq(Names)
         /\ (<<name>> \o carried)[1] = name
         /\ Tail(<<name>> \o carried) = carried
  <1> DEFINE whole == <<name>> \o carried
  <1>1. /\ whole \in Seq(Names) /\ Len(whole) = 1 + Len(carried)
        /\ \A i \in 1 .. 1 + Len(carried) :
             whole[i] = IF i <= 1 THEN <<name>>[i] ELSE carried[i - 1]
    <2>1. <<name>> \in Seq(Names) /\ Len(<<name>>) = 1
      BY Singleton
    <2>2. QED BY <2>1, ConcatProperties
  <1>2. Len(carried) \in Nat
    BY LenProperties
  <1>3. whole # <<>>
    BY <1>1, <1>2, EmptySeq
  <1>4. /\ Tail(whole) \in Seq(Names) /\ Len(Tail(whole)) = Len(whole) - 1
        /\ \A i \in 1 .. Len(Tail(whole)) : Tail(whole)[i] = whole[i + 1]
    BY <1>1, <1>3, HeadTailProperties
  <1>5. Len(Tail(whole)) = Len(carried)
    BY <1>1, <1>2, <1>4
  <1>6. ASSUME NEW i \in 1 .. Len(Tail(whole))
        PROVE  Tail(whole)[i] = carried[i]
    <2>1. i + 1 \in 1 .. 1 + Len(carried) /\ ~(i + 1 <= 1) /\ (i + 1) - 1 = i
      BY <1>2, <1>5
    <2>2. QED BY <1>1, <1>4, <2>1
  <1>7. Tail(whole) = carried
    BY <1>4, <1>5, <1>6, SeqEqual
  <1>8. whole[1] = name
    <2>1. <<name>>[1] = name
      BY Singleton
    <2>2. QED BY <1>1, <1>2, <2>1
  <1>9. QED BY <1>1, <1>7, <1>8

\* The conversion of a role error keeps its variant, and what it carries as far
\* as the conversions of that do.
LEMMA RoleErrorIsVerbatim ==
  ASSUME NEW base, NEW diagnostic, NEW target, NEW error,
         base \subseteq Seq(Names), Verbatim(diagnostic), Severity \subseteq DOMAIN diagnostic,
         Verbatim(target), TargetKind \subseteq DOMAIN target,
         Verbatim(error), base \subseteq DOMAIN error
  PROVE  Verbatim(RoleErrorWith(base, diagnostic, target, error))
  <1> DEFINE f == RoleErrorWith(base, diagnostic, target, error)
  <1>1. DOMAIN f = RoleErrorOver(base)
    BY DEF RoleErrorWith
  <1>2. ASSUME NEW c \in RoleErrorOver(base)
        PROVE  f[c] = c
    <2>1. CASE c \in Cases({"UnknownRole", "CompileFailed", "VersionNotSupported"})
      <3>1. PICK name \in {"UnknownRole", "CompileFailed", "VersionNotSupported"} :
              c = <<name>>
        BY <2>1 DEF Cases
      <3>2. name \in Names /\ name # "InvalidInput"
            /\ name # "TargetNotSupported" /\ name # "Host"
        BY <3>1 DEF Names
      <3>3. c \in Seq(Names) /\ c[1] = name
        BY <3>1, <3>2, Singleton
      <3>4. QED BY <3>2, <3>3 DEF RoleErrorWith
    <2>2. CASE \E severity \in Severity : c = <<"InvalidInput">> \o severity
      <3>1. PICK severity \in Severity : c = <<"InvalidInput">> \o severity
        BY <2>2
      <3>2. c \in Seq(Names) /\ c[1] = "InvalidInput" /\ Tail(c) = severity
        <4>1. severity \in Seq(Names) /\ "InvalidInput" \in Names
          BY HostTypes DEF Names
        <4>2. QED BY <3>1, <4>1, Carries
      <3>3. diagnostic[Tail(c)] = severity
        BY <3>2 DEF Verbatim
      <3>4. f[c] = <<c[1]>> \o diagnostic[Tail(c)]
        BY <3>2 DEF RoleErrorWith
      <3>5. QED BY <3>1, <3>2, <3>3, <3>4
    <2>3. CASE \E kind \in TargetKind : c = <<"TargetNotSupported">> \o kind
      <3>1. PICK kind \in TargetKind : c = <<"TargetNotSupported">> \o kind
        BY <2>3
      <3>2. c \in Seq(Names) /\ c[1] = "TargetNotSupported" /\ Tail(c) = kind
        <4>1. kind \in Seq(Names) /\ "TargetNotSupported" \in Names
          BY HostTypes DEF Names
        <4>2. QED BY <3>1, <4>1, Carries
      <3>3. target[Tail(c)] = kind
        BY <3>2 DEF Verbatim
      <3>4. f[c] = <<c[1]>> \o target[Tail(c)]
        BY <3>2 DEF RoleErrorWith
      <3>5. QED BY <3>1, <3>2, <3>3, <3>4
    <2>4. CASE \E case \in base : c = <<"Host">> \o case
      <3>1. PICK case \in base : c = <<"Host">> \o case
        BY <2>4
      <3>2. c \in Seq(Names) /\ c[1] = "Host" /\ Tail(c) = case
        <4>1. case \in Seq(Names) /\ "Host" \in Names
          BY DEF Names
        <4>2. QED BY <3>1, <4>1, Carries
      <3>3. error[Tail(c)] = case
        BY <3>2 DEF Verbatim
      <3>4. f[c] = <<c[1]>> \o error[Tail(c)]
        BY <3>2 DEF RoleErrorWith
      <3>5. QED BY <3>1, <3>2, <3>3, <3>4
    <2>5. QED BY <2>1, <2>2, <2>3, <2>4 DEF RoleErrorOver
  <1>3. QED BY <1>1, <1>2 DEF Verbatim

\* ext_error.rs, runtime_deploy.rs, runtime_design.rs, runtime_targets.rs and
\* guardrail_map.rs: each of these conversions is verbatim.
LEMMA PlainConversions ==
  /\ Verbatim(Same(Text)) /\ Verbatim(None)
  /\ Verbatim(from_design_v01) /\ Verbatim(from_design_v03)
  /\ Verbatim(from_deploy_v01) /\ Verbatim(from_deploy_v02)
  /\ Verbatim(from_bundle_v01) /\ Verbatim(from_bundle_v02)
  /\ Verbatim(from_composer_v02)
  /\ Verbatim(job_to_host) /\ Verbatim(job_to_host_v2)
  /\ Verbatim(err_to_host) /\ Verbatim(err_to_host_v2)
  /\ Verbatim(severity_from_wit) /\ Verbatim(deploy_severity_from_wit)
  /\ Verbatim(map_verdict)
  BY SameIsVerbatim
     DEF None, from_design_v01, from_design_v03, from_deploy_v01,
         from_deploy_v02, from_bundle_v01, from_bundle_v02, from_composer_v02,
         job_to_host, job_to_host_v2, err_to_host, err_to_host_v2,
         severity_from_wit, deploy_severity_from_wit, map_verdict

\* runtime_roles.rs: so are these.
LEMMA RoleConversions ==
  /\ Verbatim(target_to_wit) /\ Verbatim(target_to_wit_v03)
  /\ Verbatim(wit_role_spec_to_host) /\ Verbatim(wit_diagnostic_to_host)
  /\ Verbatim(wit_role_error_to_host) /\ Verbatim(wit_role_error_to_host_v03)
  <1>1. /\ Verbatim(target_to_wit) /\ Verbatim(target_to_wit_v03)
        /\ Verbatim(wit_role_spec_to_host) /\ Verbatim(wit_diagnostic_to_host)
    BY SameIsVerbatim DEF target_to_wit, target_to_wit_v03,
       wit_role_spec_to_host, target_from_wit, wit_diagnostic_to_host
  <1>2. Verbatim(wit_role_error_to_host)
    BY SameIsVerbatim, HostTypes, RoleErrorIsVerbatim
       DEF wit_role_error_to_host, wit_diagnostic_to_host, target_from_wit,
           wit_extension_error_to_host
  <1>3. Verbatim(wit_role_error_to_host_v03)
    BY SameIsVerbatim, HostTypes, RoleErrorIsVerbatim
       DEF wit_role_error_to_host_v03, wit_diagnostic_to_host_v03,
           target_from_wit_v03, wit_extension_error_to_host_v03
  <1>4. QED BY <1>1, <1>2, <1>3

LEMMA VerbatimHeeds ==
  ASSUME NEW f, Verbatim(f)
  PROVE  Heeds(f)
  BY DEF Verbatim, Heeds

LEMMA DirectionIsHeeded == Heeds(parse_direction)
  BY DEF Heeds, parse_direction

-----------------------------------------------------------------------------
(* The operations *)

Deployment == {"deploy", "deploy_poll", "deploy_rollback"}
Raised == {"none", "Extension", "Deploy", "Composer", "Role"}

Tables == {t \in Seq(Minors) : Len(t) <= 3}

\* What the table says of every operation.
Sound(op) ==
  /\ op.raises \in Raised
  /\ op.versions \in Tables
  /\ op.name \in Deployment
       => op.iface = "deployment" /\ op.versions = DEPLOY_VERSIONS
  /\ \A v \in Minors :
       /\ DOMAIN op.hears[v] = DOMAIN op.hears[1]
       /\ DOMAIN op.hears[v] \subseteq Text \cup TargetKind \cup GuardrailInput
       /\ Heeds(op.hears[v])
       /\ Verbatim(op.says[v])
       /\ \/ Verbatim(op.fails[v])
          \/ op.raises = "Composer" /\ op.fails[v] = from_composer_v01

LEMMA VersionTables ==
  /\ DESIGN_VERSIONS \in Tables /\ DEPLOY_VERSIONS \in Tables
  /\ BUNDLE_VERSIONS \in Tables /\ GUARDRAIL_VERSIONS \in Tables
  /\ ROLES_VERSIONS \in Tables /\ COMPOSER_VERSIONS \in Tables
  <1>1. 1 \in Minors /\ 2 \in Minors /\ 3 \in Minors
    BY DEF Minors
  <1>2. QED BY <1>1 DEF DESIGN_VERSIONS, DEPLOY_VERSIONS, BUNDLE_VERSIONS,
                       GUARDRAIL_VERSIONS, ROLES_VERSIONS, COMPOSER_VERSIONS,
                       Tables

LEMMA QuerySound ==
  ASSUME NEW name, NEW iface, NEW versions \in Tables, NEW func, NEW says,
         name \notin Deployment, \A v \in Minors : Verbatim(says[v])
  PROVE  Sound(Query(name, iface, versions, func, says))
  <1> DEFINE op == Query(name, iface, versions, func, says)
  <1>1. /\ op.raises \in Raised /\ op.versions = versions /\ op.name = name
        /\ op.says = says
    BY DEF Query, Raised
  <1>2. ASSUME NEW v \in Minors
        PROVE  op.hears[v] = Same(Text) /\ op.fails[v] = None
    BY DEF Query, Always
  <1>3. op.hears[1] = Same(Text)
    BY <1>2 DEF Minors
  <1>4. DOMAIN Same(Text) = Text /\ Heeds(Same(Text)) /\ Verbatim(None)
    BY SameIsVerbatim, PlainConversions, VerbatimHeeds
  <1>5. QED BY <1>1, <1>2, <1>3, <1>4 DEF Sound

\* Every version converts verbatim; errors may lack a category in one place.
Says(says) == \A v \in Minors : Verbatim(says[v])
Raises(raises, fails) ==
  /\ raises \in Raised
  /\ \A v \in Minors : \/ Verbatim(fails[v])
                       \/ raises = "Composer" /\ fails[v] = from_composer_v01
\* The deployment interface is called at the versions of deployments.
Placed(name, iface, versions) ==
  /\ versions \in Tables
  /\ name \in Deployment => iface = "deployment" /\ versions = DEPLOY_VERSIONS

LEMMA FallibleSound ==
  ASSUME NEW name, NEW iface, NEW versions, NEW func, NEW says, NEW fails,
         NEW raises, Placed(name, iface, versions), Says(says),
         Raises(raises, fails)
  PROVE  Sound(Fallible(name, iface, versions, func, says, fails, raises))
  <1> DEFINE op == Fallible(name, iface, versions, func, says, fails, raises)
  <1>1. /\ op.raises = raises /\ op.versions = versions /\ op.name = name
        /\ op.iface = iface /\ op.says = says /\ op.fails = fails
    BY DEF Fallible, Query
  <1>2. ASSUME NEW v \in Minors
        PROVE  op.hears[v] = Same(Text)
    BY DEF Fallible, Query, Always
  <1>3. op.hears[1] = Same(Text)
    BY <1>2 DEF Minors
  <1>4. DOMAIN Same(Text) = Text /\ Heeds(Same(Text))
    BY SameIsVerbatim, PlainConversions, VerbatimHeeds
  <1>5. QED BY <1>1, <1>2, <1>3, <1>4 DEF Sound, Placed, Says, Raises

\* An operation that passes anything but text.
LEMMA HearsSound ==
  ASSUME NEW op, Sound(op), NEW hears, DOMAIN op = DOMAIN [op EXCEPT !.hears = hears],
         "hears" \in DOMAIN op,
         \A v \in Minors : /\ DOMAIN hears[v] = DOMAIN hears[1]
                           /\ DOMAIN hears[v] \subseteq TargetKind \cup GuardrailInput
                           /\ Heeds(hears[v])
  PROVE  Sound([op EXCEPT !.hears = hears])
  BY DEF Sound

LEMMA AlwaysGives ==
  ASSUME NEW f
  PROVE  \A v \in Minors : Always(f)[v] = f
  BY DEF Always

LEMMA SinceGives ==
  ASSUME NEW newest, NEW new, NEW old
  PROVE  \A v \in Minors : Since(newest, new, old)[v] \in {new, old}
  BY DEF Since

LEMMA DesignIsSound ==
  /\ Sound(invoke_tool) /\ Sound(list_tools) /\ Sound(validate_content)
  /\ Sound(prompt_fragments) /\ Sound(knowledge_list) /\ Sound(knowledge_get)
  /\ Sound(knowledge_suggest)
  <1>1. Sound(list_tools) /\ Sound(validate_content)
    BY QuerySound, AlwaysGives, PlainConversions, VersionTables
       DEF list_tools, validate_content, Deployment
  <1>2. Sound(prompt_fragments) /\ Sound(knowledge_list) /\ Sound(knowledge_suggest)
    BY QuerySound, AlwaysGives, PlainConversions, VersionTables
       DEF prompt_fragments, knowledge_list, knowledge_suggest, Deployment
  <1>3. \A v \in Minors : /\ Verbatim(Since(3, from_design_v03, from_design_v01)[v])
                          /\ Verbatim(Always(Same(Text))[v])
    BY SinceGives, AlwaysGives, PlainConversions
  <1>4. /\ Placed("invoke_tool", "tools", DESIGN_VERSIONS)
        /\ Placed("knowledge_get", "knowledge", DESIGN_VERSIONS)
        /\ Says(Always(Same(Text)))
        /\ Raises("Extension", Since(3, from_design_v03, from_design_v01))
    BY <1>3, VersionTables DEF Deployment, Raised, Placed, Says, Raises
  <1>6. Sound(invoke_tool) /\ Sound(knowledge_get)
    BY <1>4, FallibleSound DEF invoke_tool, knowledge_get
  <1>5. QED BY <1>1, <1>2, <1>6

LEMMA TargetsAreSound ==
  /\ Sound(validate_credentials) /\ Sound(credential_schema) /\ Sound(list_targets)
  /\ Sound(deploy) /\ Sound(deploy_poll) /\ Sound(deploy_rollback)
  /\ Sound(render_bundle)
  <1>1. Sound(validate_credentials) /\ Sound(list_targets)
    BY QuerySound, AlwaysGives, PlainConversions, VersionTables
       DEF validate_credentials, list_targets, Deployment
  <1>2. \A v \in Minors : /\ Verbatim(Since(2, from_deploy_v02, from_deploy_v01)[v])
                          /\ Verbatim(Since(2, from_bundle_v02, from_bundle_v01)[v])
                          /\ Verbatim(Since(2, job_to_host_v2, job_to_host)[v])
                          /\ Verbatim(Since(2, err_to_host_v2, err_to_host)[v])
                          /\ Verbatim(Always(Same(Text))[v])
    BY SinceGives, AlwaysGives, PlainConversions
  <1>3. /\ Says(Always(Same(Text))) /\ Says(Since(2, job_to_host_v2, job_to_host))
        /\ Raises("Extension", Since(2, from_deploy_v02, from_deploy_v01))
        /\ Raises("Extension", Since(2, from_bundle_v02, from_bundle_v01))
        /\ Raises("Deploy", Since(2, err_to_host_v2, err_to_host))
    BY <1>2 DEF Says, Raises, Raised
  <1>4. /\ Placed("credential_schema", "targets", DEPLOY_VERSIONS)
        /\ Placed("render_bundle", "bundling", BUNDLE_VERSIONS)
        /\ \A name \in Deployment : Placed(name, "deployment", DEPLOY_VERSIONS)
    BY VersionTables DEF Placed, Deployment
  <1>5. Sound(credential_schema) /\ Sound(render_bundle)
    BY <1>3, <1>4, FallibleSound DEF credential_schema, render_bundle
  <1>6. Sound(deploy) /\ Sound(deploy_poll) /\ Sound(deploy_rollback)
    BY <1>3, <1>4, FallibleSound
       DEF deploy, deploy_poll, deploy_rollback, Deployment
  <1>7. QED BY <1>1, <1>5, <1>6

LEMMA ComposersAreSound ==
  /\ Sound(invoke_composer_metadata) /\ Sound(invoke_composer_compose)
  /\ Sound(invoke_composer_validate) /\ Sound(invoke_composer_templates)
  <1>1. /\ Sound(invoke_composer_metadata) /\ Sound(invoke_composer_validate)
        /\ Sound(invoke_composer_templates)
    BY QuerySound, AlwaysGives, PlainConversions, VersionTables
       DEF invoke_composer_metadata, invoke_composer_validate,
           invoke_composer_templates, Deployment
  <1>2. ASSUME NEW v \in Minors
        PROVE  /\ Verbatim(Always(Same(Text))[v])
               /\ \/ Verbatim(Since(2, from_composer_v02, from_composer_v01)[v])
                  \/ Since(2, from_composer_v02, from_composer_v01)[v]
                       = from_composer_v01
    BY SinceGives, AlwaysGives, PlainConversions
  <1>3. /\ Placed("invoke_composer_compose", "composer", COMPOSER_VERSIONS)
        /\ Says(Always(Same(Text)))
        /\ Raises("Composer", Since(2, from_composer_v02, from_composer_v01))
    BY <1>2, VersionTables DEF Placed, Deployment, Says, Raises, Raised
  <1>5. Sound(invoke_composer_compose)
    BY <1>3, FallibleSound DEF invoke_composer_compose
  <1>4. QED BY <1>1, <1>5

LEMMA GuardrailIsSound == Sound(evaluate_guardrail)
  <1> DEFINE plain == Query("evaluate_guardrail", "guardrail", GUARDRAIL_VERSIONS,
                            "evaluate", Always(map_verdict))
             hears == Always(parse_direction)
  <1>1. Sound(plain)
    BY QuerySound, AlwaysGives, PlainConversions, VersionTables DEF Deployment
  <1>2. DOMAIN parse_direction = GuardrailInput
    BY DEF parse_direction
  <1>3. \A v \in Minors : hears[v] = parse_direction
    BY AlwaysGives
  <1>4. \A v \in Minors : /\ DOMAIN hears[v] = DOMAIN hears[1]
                          /\ DOMAIN hears[v] \subseteq TargetKind \cup GuardrailInput
                          /\ Heeds(hears[v])
    BY <1>2, <1>3, DirectionIsHeeded DEF Minors
  <1>5. /\ DOMAIN plain = DOMAIN [plain EXCEPT !.hears = hears]
        /\ "hears" \in DOMAIN plain
    BY DEF Query
  <1>6. Sound([plain EXCEPT !.hears = hears])
    BY <1>1, <1>4, <1>5, HearsSound
  <1>7. QED BY <1>6 DEF evaluate_guardrail

LEMMA RolesAreSound ==
  Sound(list_roles) /\ Sound(validate_role) /\ Sound(compile_role)
  <1>1. Sound(list_roles) /\ Sound(validate_role)
    BY QuerySound, AlwaysGives, RoleConversions, VersionTables
       DEF list_roles, validate_role, Deployment
  <1> DEFINE fails == Since(3, wit_role_error_to_host_v03, wit_role_error_to_host)
             hears == Since(3, target_to_wit_v03, target_to_wit)
             plain == Fallible("compile_role", "roles", ROLES_VERSIONS,
                               "compile-role", Always(Same(Text)), fails, "Role")
  <1>2. \A v \in Minors : Verbatim(fails[v]) /\ Verbatim(Always(Same(Text))[v])
    BY SinceGives, AlwaysGives, RoleConversions, PlainConversions
  <1>3. Sound(plain)
    <2>1. /\ Placed("compile_role", "roles", ROLES_VERSIONS)
          /\ Says(Always(Same(Text))) /\ Raises("Role", fails)
      BY <1>2, VersionTables DEF Placed, Deployment, Says, Raises, Raised
    <2>2. QED BY <2>1, FallibleSound
  <1>4. \A v \in Minors : DOMAIN hears[v] = TargetKind /\ Heeds(hears[v])
    BY SinceGives, RoleConversions, SameIsVerbatim, VerbatimHeeds
       DEF target_to_wit, target_to_wit_v03
  <1>5. \A v \in Minors : /\ DOMAIN hears[v] = DOMAIN hears[1]
                          /\ DOMAIN hears[v] \subseteq TargetKind \cup GuardrailInput
                          /\ Heeds(hears[v])
    BY <1>4 DEF Minors
  <1>6. /\ DOMAIN plain = DOMAIN [plain EXCEPT !.hears = hears]
        /\ "hears" \in DOMAIN plain
    BY DEF Fallible, Query
  <1>7. Sound([plain EXCEPT !.hears = hears])
    BY <1>3, <1>5, <1>6, HearsSound
  <1>8. Sound(compile_role)
    BY <1>7 DEF compile_role
  <1>9. QED BY <1>1, <1>8

\* All operations keep to the table's promises: what a guest says reaches the
\* caller in its own case, and what the caller asks reaches the guest.
THEOREM EveryOperationIsSound ==
  \A name \in OpNames : /\ Op[name] \in Operations
                        /\ Op[name].name = name
                        /\ Sound(Op[name])
  <1>1. \A op \in Operations : Sound(op)
    BY DesignIsSound, TargetsAreSound, ComposersAreSound, GuardrailIsSound,
       RolesAreSound
       DEF Operations
  <1>2. ASSUME NEW name \in OpNames
        PROVE  Op[name] \in Operations /\ Op[name].name = name
    <2>1. \E op \in Operations : op.name = name
      BY DEF OpNames
    <2>2. Op[name] = CHOOSE op \in Operations : op.name = name
      BY DEF Op
    <2>3. QED BY <2>1, <2>2
  <1>3. QED BY <1>1, <1>2

-----------------------------------------------------------------------------
(* Resolution *)

\* resolve_iface_versions returns a version the component exports and the
\* operation knows, or none.
LEMMA ResolveFinds ==
  ASSUME NEW op, op.versions \in Tables, NEW exports
  PROVE  LET v == Resolve(op, exports)
         IN v \in Minors \cup {NoVersion}
            /\ (v # NoVersion => v \in Minors /\ <<op.iface, v>> \in exports)
  <1> DEFINE tries == {i \in DOMAIN op.versions :
                         <<op.iface, op.versions[i]>> \in exports}
             first == CHOOSE i \in tries : \A j \in tries : i <= j
  <1>1. CASE tries = {}
    BY <1>1 DEF Resolve
  <1>2. CASE tries # {}
    <2>1. /\ DOMAIN op.versions = 1 .. Len(op.versions)
          /\ Len(op.versions) \in Nat /\ Len(op.versions) <= 3
          /\ op.versions \in Seq(Minors)
      BY LenProperties DEF Tables
    <2>2. \A i \in tries : i = 1 \/ i = 2 \/ i = 3
      BY <2>1
    <2>3. \E i \in tries : \A j \in tries : i <= j
      <3> HIDE DEF tries
      <3>1. CASE 1 \in tries
        BY <2>2, <3>1
      <3>2. CASE 1 \notin tries /\ 2 \in tries
        BY <2>2, <3>2
      <3>3. CASE 1 \notin tries /\ 2 \notin tries
        BY <1>2, <2>2, <3>3
      <3>4. QED BY <3>1, <3>2, <3>3
    <2>4. first \in tries
      BY <2>3
    <2>5. op.versions[first] \in Minors
      BY <2>1, <2>4, ElementOfSeq
    <2>6. Resolve(op, exports) = op.versions[first]
      BY <1>2 DEF Resolve
    <2>7. NoVersion \notin Minors
      BY DEF NoVersion, Minors
    <2>8. QED BY <2>4, <2>5, <2>6, <2>7
  <1>3. QED BY <1>1, <1>2
=============================================================================
