----------------------------- MODULE Contracts -----------------------------
(***************************************************************************)
(* The operations a host calls on a loaded extension, as a table: the      *)
(* interface and function each one resolves, the versions it tries, and,   *)
(* for every version, the conversions between the types of that version's  *)
(* contract and those of the host                                          *)
(* (crates/greentic-ext-runtime/src/runtime_*.rs, ext_error.rs,            *)
(* guardrail_map.rs, types.rs).                                            *)
(*                                                                         *)
(* A conversion is a function on the cases of a value: the variants of an  *)
(* enumeration, each a sequence of names (a variant and what it carries).  *)
(* Strings and byte strings are copied and are the one case Text.          *)
(* Versions are minor numbers, 0.3.0 is 3.                                 *)
(***************************************************************************)
EXTENDS Naturals, Sequences

Minors == 1..4

DESIGN_VERSIONS == <<3, 2, 1>>
DEPLOY_VERSIONS == <<2, 1>>
BUNDLE_VERSIONS == <<2, 1>>
GUARDRAIL_VERSIONS == <<3>>
ROLES_VERSIONS == <<3, 2>>
COMPOSER_VERSIONS == <<2, 1>>

DesignIfaces == {"tools", "validation", "prompting", "knowledge", "roles",
                 "guardrail"}
Ifaces == DesignIfaces \cup {"targets", "deployment", "bundling", "composer"}

\* The versions of which host_bindings generates the world.
BoundVersions(iface) ==
  IF iface = "guardrail" THEN {3, 4}
  ELSE IF iface \in DesignIfaces THEN {2, 3, 4} ELSE {1, 2}

-----------------------------------------------------------------------------
(* The cases of the host's types *)

Cases(names) == {<<name>> : name \in names}

Text == Cases({"text"})
Severity == Cases({"Error", "Warning", "Info", "Hint"})
TargetKind == Cases({"AdaptiveCard", "SlackBlockKit", "TeamsCard", "PlainText"})
DeployStatus == Cases({"Pending", "Provisioning", "Configuring", "Starting",
                       "Running", "Failed", "RolledBack"})
GuardrailVerdictWire == Cases({"Accept", "Update", "Deny"})
HostExtensionError ==
  Cases({"InvalidInput", "MissingCapability", "PermissionDenied", "NotFound",
         "SchemaInvalid", "Internal"})
DeployExtensionError == HostExtensionError

RoleErrorOver(base) ==
  Cases({"UnknownRole", "CompileFailed", "VersionNotSupported"})
  \cup {<<"InvalidInput">> \o severity : severity \in Severity}
  \cup {<<"TargetNotSupported">> \o target : target \in TargetKind}
  \cup {<<"Host">> \o error : error \in base}
RoleError == RoleErrorOver(HostExtensionError)

\* All that a guest may return, as a value and as an error.
Values == Text \cup Severity \cup TargetKind \cup DeployStatus
          \cup GuardrailVerdictWire
Errors == HostExtensionError \cup RoleError \cup Text

-----------------------------------------------------------------------------
(* What a component built against a version of a contract exports *)

\* extension-base 0.1.0 and 0.2.0: types.extension-error.
Base1 == Cases({"InvalidInput", "MissingCapability", "PermissionDenied",
                "Internal"})
Base2 == Base1 \cup Cases({"NotFound", "SchemaInvalid"})
BaseError(iface, v) ==
  IF v >= (IF iface \in DesignIfaces THEN 3 ELSE 2) THEN Base2 ELSE Base1

\* The error type of a function's result; none if it cannot fail.
WitErrors(iface, func, v) ==
  CASE func = "compile-role" -> RoleErrorOver(BaseError(iface, v))
    [] func = "compose" -> IF v = 1 THEN Text ELSE BaseError(iface, v)
    [] func \in {"invoke-tool", "get-entry", "deploy", "poll", "rollback",
                 "render", "credential-schema"} -> BaseError(iface, v)
    [] OTHER -> {}

\* The type it returns.
WitValues(func) ==
  CASE func \in {"deploy", "poll"} -> DeployStatus
    [] func \in {"validate-content", "validate-credentials", "validate-role"}
         -> Severity
    [] func = "list-roles" -> TargetKind
    [] func = "evaluate" -> GuardrailVerdictWire
    [] OTHER -> Text

\* The type of its argument.
WitArguments(func) ==
  CASE func = "compile-role" -> TargetKind
    [] func = "evaluate" -> Cases({"Inbound", "Outbound"})
    [] OTHER -> Text

-----------------------------------------------------------------------------
(* Conversions *)

\* Every case to the one of the same name.
Same(cases) == [c \in cases |-> c]
None == Same({})

\* ext_error.rs
from_design_v01 == Same(Base1)
from_deploy_v01 == Same(Base1)
from_bundle_v01 == Same(Base1)
from_design_v03 == Same(Base2)
from_deploy_v02 == Same(Base2)
from_bundle_v02 == Same(Base2)
from_composer_v02 == Same(Base2)
\* A bare string has no category.
from_composer_v01 == [c \in Text |-> <<"Internal">>]

\* runtime_deploy.rs
job_to_host == Same(DeployStatus)
err_to_host == Same(Base1)
job_to_host_v2 == Same(DeployStatus)
\* MUTANT: the cases the older contract lacks end up in its catch-all.
err_to_host_v2_Narrow ==
  [c \in Base2 |-> IF c \in Base1 THEN c ELSE <<"Internal">>]
err_to_host_v2 == Same(Base2)

\* runtime_design.rs and runtime_targets.rs
severity_from_wit == Same(Severity)
deploy_severity_from_wit == Same(Severity)

\* runtime_roles.rs
target_to_wit == Same(TargetKind)
target_from_wit == Same(TargetKind)
wit_diagnostic_to_host == Same(Severity)
wit_extension_error_to_host == Same(Base1)
target_to_wit_v03 == Same(TargetKind)
target_from_wit_v03 == Same(TargetKind)
wit_diagnostic_to_host_v03 == Same(Severity)
wit_extension_error_to_host_v03 == Same(Base2)

\* Each variant of role-error, and what it carries by the conversion of its type.
RoleErrorWith(base, diagnostic, target, error) ==
  [c \in RoleErrorOver(base) |->
     CASE c[1] = "InvalidInput" -> <<c[1]>> \o diagnostic[Tail(c)]
       [] c[1] = "TargetNotSupported" -> <<c[1]>> \o target[Tail(c)]
       [] c[1] = "Host" -> <<c[1]>> \o error[Tail(c)]
       [] OTHER -> c]
wit_role_error_to_host ==
  RoleErrorWith(Base1, wit_diagnostic_to_host, target_from_wit,
                wit_extension_error_to_host)
wit_role_error_to_host_v03 ==
  RoleErrorWith(Base2, wit_diagnostic_to_host_v03, target_from_wit_v03,
                wit_extension_error_to_host_v03)
wit_role_spec_to_host == target_from_wit

\* guardrail_map.rs.  Any other direction, and input that is not the JSON of
\* the record, is refused before the guest runs.
Refused == <<"Refused">>
Direction == Cases({"Inbound", "Outbound"})
GuardrailInput == Direction \cup Cases({"sideways", "malformed"})
\* MUTANT: an unknown direction is inbound, as it once was.
parse_direction_Default ==
  [c \in GuardrailInput |-> CASE c \in Direction -> c
                              [] c = <<"sideways">> -> <<"Inbound">>
                              [] OTHER -> Refused]
parse_direction ==
  [c \in GuardrailInput |-> IF c \in Direction THEN c ELSE Refused]
map_verdict == Same(GuardrailVerdictWire)

-----------------------------------------------------------------------------
(* The operations *)

\* if version == newest { new } else { old }
Since(newest, new, old) ==
  [v \in Minors |-> IF v = newest THEN new ELSE old]
Always(conversion) == [v \in Minors |-> conversion]

\* A call that passes text and returns what says converts.
Query(name, iface, versions, func, says) ==
  [name |-> name, iface |-> iface, versions |-> versions, func |-> func,
   hears |-> Always(Same(Text)), says |-> says, fails |-> Always(None),
   raises |-> "none"]
\* A call that may also return an error, raised to the caller as one of raises.
Fallible(name, iface, versions, func, says, fails, raises) ==
  [Query(name, iface, versions, func, says) EXCEPT !.fails = fails,
                                                   !.raises = raises]

invoke_tool ==
  Fallible("invoke_tool", "tools", DESIGN_VERSIONS, "invoke-tool",
           Always(Same(Text)),
           Since(3, from_design_v03, from_design_v01), "Extension")
list_tools ==
  Query("list_tools", "tools", DESIGN_VERSIONS, "list-tools", Always(Same(Text)))
validate_content ==
  Query("validate_content", "validation", DESIGN_VERSIONS, "validate-content",
        Always(severity_from_wit))
evaluate_guardrail ==
  [Query("evaluate_guardrail", "guardrail", GUARDRAIL_VERSIONS, "evaluate",
         Always(map_verdict)) EXCEPT !.hears = Always(parse_direction)]

prompt_fragments ==
  Query("prompt_fragments", "prompting", DESIGN_VERSIONS,
        "system-prompt-fragments", Always(Same(Text)))
knowledge_list ==
  Query("knowledge_list", "knowledge", DESIGN_VERSIONS, "list-entries",
        Always(Same(Text)))
knowledge_get ==
  Fallible("knowledge_get", "knowledge", DESIGN_VERSIONS, "get-entry",
           Always(Same(Text)),
           Since(3, from_design_v03, from_design_v01), "Extension")
knowledge_suggest ==
  Query("knowledge_suggest", "knowledge", DESIGN_VERSIONS, "suggest-entries",
        Always(Same(Text)))

list_roles ==
  Query("list_roles", "roles", ROLES_VERSIONS, "list-roles",
        Always(wit_role_spec_to_host))
validate_role ==
  Query("validate_role", "roles", ROLES_VERSIONS, "validate-role",
        Always(wit_diagnostic_to_host))
compile_role ==
  [Fallible("compile_role", "roles", ROLES_VERSIONS, "compile-role",
            Always(Same(Text)),
            Since(3, wit_role_error_to_host_v03, wit_role_error_to_host), "Role")
   EXCEPT !.hears = Since(3, target_to_wit_v03, target_to_wit)]

validate_credentials ==
  Query("validate_credentials", "targets", DEPLOY_VERSIONS,
        "validate-credentials", Always(deploy_severity_from_wit))
credential_schema ==
  Fallible("credential_schema", "targets", DEPLOY_VERSIONS, "credential-schema",
           Always(Same(Text)),
           Since(2, from_deploy_v02, from_deploy_v01), "Extension")
list_targets ==
  Query("list_targets", "targets", DEPLOY_VERSIONS, "list-targets",
        Always(Same(Text)))

deploy ==
  Fallible("deploy", "deployment", DEPLOY_VERSIONS, "deploy",
           Since(2, job_to_host_v2, job_to_host),
           Since(2, err_to_host_v2, err_to_host), "Deploy")
\* MUTANT: polls by the oldest version first.
deploy_poll_Oldest ==
  Fallible("deploy_poll", "deployment", <<1, 2>>, "poll",
           Since(2, job_to_host_v2, job_to_host),
           Since(2, err_to_host_v2, err_to_host), "Deploy")
deploy_poll ==
  Fallible("deploy_poll", "deployment", DEPLOY_VERSIONS, "poll",
           Since(2, job_to_host_v2, job_to_host),
           Since(2, err_to_host_v2, err_to_host), "Deploy")
deploy_rollback ==
  Fallible("deploy_rollback", "deployment", DEPLOY_VERSIONS, "rollback",
           Always(Same(Text)),
           Since(2, err_to_host_v2, err_to_host), "Deploy")

render_bundle ==
  Fallible("render_bundle", "bundling", BUNDLE_VERSIONS, "render",
           Always(Same(Text)),
           Since(2, from_bundle_v02, from_bundle_v01), "Extension")

invoke_composer_metadata ==
  Query("invoke_composer_metadata", "composer", COMPOSER_VERSIONS, "metadata",
        Always(Same(Text)))
invoke_composer_compose ==
  Fallible("invoke_composer_compose", "composer", COMPOSER_VERSIONS, "compose",
           Always(Same(Text)),
           Since(2, from_composer_v02, from_composer_v01), "Composer")
invoke_composer_validate ==
  Query("invoke_composer_validate", "composer", COMPOSER_VERSIONS, "validate",
        Always(Same(Text)))
invoke_composer_templates ==
  Query("invoke_composer_templates", "composer", COMPOSER_VERSIONS, "templates",
        Always(Same(Text)))

Operations ==
  {invoke_tool, list_tools, validate_content, evaluate_guardrail,
   prompt_fragments, knowledge_list, knowledge_get, knowledge_suggest,
   list_roles, validate_role, compile_role,
   validate_credentials, credential_schema, list_targets,
   deploy, deploy_poll, deploy_rollback, render_bundle,
   invoke_composer_metadata, invoke_composer_compose, invoke_composer_validate,
   invoke_composer_templates}

OpNames == {op.name : op \in Operations}
Op == [name \in OpNames |-> CHOOSE op \in Operations : op.name = name]

-----------------------------------------------------------------------------
(* Resolution *)

NoVersion == 0

\* resolve_iface_versions: the first of the versions, newest first, that is
\* exported.
Resolve(op, exports) ==
  LET Exported(i) == <<op.iface, op.versions[i]>> \in exports
      tries == {i \in DOMAIN op.versions : Exported(i)}
  IN IF tries = {} THEN NoVersion
     ELSE op.versions[CHOOSE i \in tries : \A j \in tries : i <= j]

\* get_typed_func accepts a function of exactly the types it is asked for.
AbiFits(op, v) ==
  /\ {op.hears[v][c] : c \in DOMAIN op.hears[v]} \ {Refused}
       = WitArguments(op.func)
  /\ DOMAIN op.says[v] = WitValues(op.func)
  /\ DOMAIN op.fails[v] = WitErrors(op.iface, op.func, v)
=============================================================================
