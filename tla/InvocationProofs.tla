-------------------------- MODULE InvocationProofs --------------------------
(***************************************************************************)
(* The safety of a call, proved for every set of builds, hosts, host calls *)
(* and callers' arguments and for every number of reloads during a call:   *)
(* which entry it answers from, what guest and caller are told, which      *)
(* version of the contract a deployment is followed in, what a guest is    *)
(* served, and what the registry answers.                                  *)
(***************************************************************************)
EXTENDS Invocation, ContractsProofs, AlgorithmProofs

USE InvocationAssumption

-----------------------------------------------------------------------------
(* What the operations convert *)

LEMMA OpFacts ==
  ASSUME NEW name \in OpNames
  PROVE  /\ Op[name].raises \in Raised /\ Op[name].versions \in Tables
         /\ DOMAIN Op[name].hears[1] \subseteq Inputs
         /\ \A v \in Minors :
              /\ DOMAIN Op[name].hears[v] = DOMAIN Op[name].hears[1]
              /\ Heeds(Op[name].hears[v]) /\ Verbatim(Op[name].says[v])
              /\ \/ Verbatim(Op[name].fails[v])
                 \/ /\ Op[name].raises = "Composer"
                    /\ Op[name].fails[v] = from_composer_v01
  <1>1. Sound(Op[name])
    BY EveryOperationIsSound
  <1>2. 1 \in Minors
    BY DEF Minors
  <1>3. QED BY <1>1, <1>2 DEF Sound, Inputs

\* The version a deployment through e is spoken in.
DeployVersion(e) ==
  Resolve([iface |-> "deployment", versions |-> DEPLOY_VERSIONS], e.exports)

LEMMA DeploymentsResolveAlike ==
  ASSUME NEW name \in OpNames, name \in Deployment, NEW e
  PROVE  Resolve(Op[name], e.exports) = DeployVersion(e)
  <1>1. Op[name].iface = "deployment" /\ Op[name].versions = DEPLOY_VERSIONS
    BY EveryOperationIsSound DEF Sound
  <1>2. QED BY <1>1 DEF DeployVersion, Resolve

LEMMA ResolvedVersion ==
  ASSUME NEW name \in OpNames, NEW exports
  PROVE  Resolve(Op[name], exports) \in Minors \cup {NoVersion}
  <1>1. Op[name].versions \in Tables
    BY OpFacts
  <1>2. QED BY <1>1, ResolveFinds

\* A guest that a call is opened on is told what the caller passed.
LEMMA OpenedHears ==
  ASSUME NEW name \in OpNames, NEW with \in DOMAIN Op[name].hears[1], NEW e,
         NEW v \in Minors \cup {NoVersion}, Opening(e, v, Op[name], with) = "guest"
  PROVE  v \in Minors /\ Op[name].hears[v][with] = with
  <1>1. v # NoVersion /\ Op[name].hears[v][with] # Refused
    BY DEF Opening
  <1>2. v \in Minors
    BY <1>1
  <1>3. DOMAIN Op[name].hears[v] = DOMAIN Op[name].hears[1] /\ Heeds(Op[name].hears[v])
    BY <1>2, OpFacts
  <1>4. QED BY <1>1, <1>2, <1>3 DEF Heeds

\* An answer of the host is one the caller knows.
LEMMA Internal ==
  /\ <<"Internal">> \in HostExtensionError
  /\ <<"Host", "Internal">> \in RoleError
  <1>1. <<"Internal">> \in HostExtensionError
    BY DEF HostExtensionError, Cases
  <1>2. <<"Host">> \o <<"Internal">> = <<"Host", "Internal">>
    <2> DEFINE both == <<"Host">> \o <<"Internal">>
               pair == <<"Host", "Internal">>
    <2>1. "Host" \in Names /\ "Internal" \in Names
      BY DEF Names
    <2>2. <<"Host">> \in Seq(Names) /\ <<"Internal">> \in Seq(Names)
      BY <2>1
    <2>3. pair \in Seq(Names) /\ Len(pair) = 2
      BY <2>1
    <2>4. /\ both \in Seq(Names) /\ Len(both) = 2
          /\ both[1] = "Host" /\ both[2] = "Internal"
      BY <2>2, ConcatProperties
    <2>5. \A i \in 1 .. Len(both) : both[i] = pair[i]
      BY <2>4
    <2>6. QED BY <2>3, <2>4, <2>5, SeqEqual
  <1>3. QED BY <1>1, <1>2 DEF RoleError, RoleErrorOver

LEMMA HostFailureOutcome ==
  ASSUME NEW name, NEW stage \in Stages
  PROVE  HostFailure(name, stage) \in Outcome
  <1>1. <<stage>> \in Cases(Stages)
    BY DEF Cases
  <1>2. QED BY <1>1, Internal DEF HostFailure, Outcome, Tags, Errors

LEMMA OpeningStages ==
  ASSUME NEW e, NEW v, NEW op, NEW with
  PROVE  Opening(e, v, op, with) \in Stages \cup {"guest"}
  BY DEF Opening, Stages

-----------------------------------------------------------------------------
(* The inductive invariant *)

\* While a call is going on it is a call of something.
Live == {"looking", "again", "open", "running"}
Asked ==
  pc \in Live \cup {"answered"} =>
    /\ call.id \in Ids
    /\ call.op # "list_views" =>
         call.op \in OpNames /\ call.with \in DOMAIN Op[call.op].hears[1]

\* What is loaded under its id has been noted.
Noted == pc \in Live => loaded[call.id] \in seen

\* list_tools gets past its first lookup under the v1 contract only.
ListedByV1 == \E first \in seen \ {NoExt} : first.api = "v1"
Dropped == pc = "again" => call.op = "list_tools" /\ ListedByV1

\* A call that is opened or runs holds an entry that was loaded during it.
Held ==
  pc \in {"open", "running"} =>
    /\ entry \in seen \ {NoExt}
    /\ call.op # "list_views"
    /\ call.op = "list_tools" => ListedByV1

\* A version is resolved on that entry, and its guest entered.
Bound ==
  version # NoVersion =>
    /\ entry \in Entries /\ call.op \in OpNames
    /\ version = Resolve(Op[call.op], entry.exports)
    /\ Opening(entry, version, Op[call.op], call.with) = "guest"
Entered ==
  /\ pc = "running" => version # NoVersion
  /\ (pc = "answered" /\ call.op = "deploy" /\ answer.tag = "Ok")
       => version # NoVersion

\* Nothing is left over from the call before.
Fresh ==
  /\ pc \notin {"running", "answered"} =>
       version = NoVersion /\ heard = Nothing /\ outside = NoRequest
  /\ pc # "answered" => said = NoAnswer

\* A host call is served by what the entry was granted.
Served ==
  outside # NoRequest =>
    /\ entry \in Entries
    /\ outside.reply = Serve(HostStateOf(entry, host), outside.request)

\* A deployment is followed in the version of the entry that started it.
Followed ==
  job # NoJob =>
    /\ job.version = DeployVersion(job.entry)
    /\ pc \in Live \cup {"answered"} =>
         call.op \in {"deploy_poll", "deploy_rollback"}

Talk == HeardAsAsked /\ ToldWhatItSaid
CallInv == Asked /\ Noted /\ Dropped /\ Held
RunInv == Bound /\ Entered /\ Fresh /\ Served /\ Followed
IInv == InvocationTypeOK /\ CallInv /\ RunInv /\ OneVersionAnswers /\ Talk

LEMMA InitInv ==
  ASSUME Init
  PROVE  IInv
  <1>1. /\ loaded = [id \in Ids |-> NoExt] /\ registry = Offerings(loaded)
        /\ host \in Hosts /\ pc = "idle" /\ call = NoCall /\ seen = {}
        /\ entry = NoExt /\ version = NoVersion /\ heard = Nothing
        /\ said = NoAnswer /\ outside = NoRequest /\ answer = NoAnswer
        /\ job = NoJob
    BY DEF Init, Reader!Init, Reader!InStep
  <1>2. NoAnswer \in Outcome
    BY DEF NoAnswer, Outcome, Tags
  <1>3. InvocationTypeOK
    BY <1>1, <1>2 DEF InvocationTypeOK, Steps, NoCall, Offerings
  <1>4. CallInv
    BY <1>1 DEF CallInv, Asked, Noted, Dropped, Held, Live
  <1>5. RunInv
    BY <1>1 DEF RunInv, Bound, Entered, Fresh, Served, Followed
  <1>6. OneVersionAnswers /\ Talk
    BY <1>1 DEF OneVersionAnswers, Talk, HeardAsAsked, ToldWhatItSaid
  <1>7. QED BY <1>3, <1>4, <1>5, <1>6 DEF IInv

-----------------------------------------------------------------------------
(* Its steps *)

\* A reload only adds to what the call may see.
LEMMA ReloadInv ==
  ASSUME IInv, Reload
  PROVE  IInv'
  <1> USE DEF IInv
  <1>1. /\ pc \notin {"answered", "judged"}
        /\ UNCHANGED <<host, pc, call, entry, version, heard, said, outside,
                       answer, job, verdict>>
    BY DEF Reload
  <1>2. loaded' \in [Ids -> Entries \cup {NoExt}] /\ registry' \subseteq OfferedBinding
    <2>1. CASE Reader!Publish
      <3>1. /\ registry' = registry
            /\ \E id \in Ids, e \in Entries \cup {NoExt} :
                 loaded' = [loaded EXCEPT ![id] = e]
        BY <2>1 DEF Reader!Publish
      <3>2. QED BY <3>1 DEF InvocationTypeOK
    <2>2. CASE Reader!Advertise
      <3>1. registry' = Offerings(loaded) /\ loaded' = loaded
        BY <2>2 DEF Reader!Advertise
      <3>2. QED BY <3>1 DEF InvocationTypeOK, Offerings
    <2>3. QED BY <2>1, <2>2 DEF Reload
  <1>3. seen \subseteq seen' /\ (pc # "idle" => loaded'[call.id] \in seen')
    BY DEF Reload
  <1>4. seen' \subseteq Entries \cup {NoExt}
    <2>1. CASE pc = "idle"
      BY <2>1 DEF Reload, InvocationTypeOK
    <2>2. CASE pc # "idle"
      <3>1. pc \in Live
        BY <1>1, <2>2 DEF InvocationTypeOK, Steps, Live
      <3>2. call.id \in Ids
        BY <3>1 DEF CallInv, Asked
      <3>3. seen' = seen \cup {loaded'[call.id]}
        BY <2>2 DEF Reload
      <3>4. QED BY <1>2, <3>2, <3>3 DEF InvocationTypeOK
    <2>3. QED BY <2>1, <2>2
  <1>5. InvocationTypeOK'
    BY <1>1, <1>2, <1>4 DEF InvocationTypeOK
  <1>6. CallInv'
    BY <1>1, <1>3 DEF CallInv, Asked, Noted, Dropped, Held, Live, ListedByV1
  <1>7. RunInv'
    BY <1>1 DEF RunInv, Bound, Entered, Fresh, Served, Followed
  <1>8. OneVersionAnswers' /\ Talk'
    BY <1>1 DEF OneVersionAnswers, Talk, HeardAsAsked, ToldWhatItSaid
  <1>9. QED BY <1>5, <1>6, <1>7, <1>8

LEMMA StartCallInv ==
  ASSUME IInv,
         NEW name \in OpNames \cup {"list_views"}, NEW id \in Callable,
         NEW with \in Arguments(name), StartCall(name, id, with)
  PROVE  IInv'
  <1> USE DEF IInv
  <1>1. /\ pc = "idle" /\ pc' = "looking"
        /\ call' = [op |-> name, id |-> id, with |-> with]
        /\ seen' = {loaded[id]}
        /\ job # NoJob => name \in {"deploy_poll", "deploy_rollback"}
        /\ UNCHANGED <<loaded, registry, host, entry, version, heard, said,
                       outside, answer, job, verdict>>
    BY DEF StartCall
  <1>2. id \in Ids
    OBVIOUS
  <1>3. /\ name # "list_views" =>
             name \in OpNames /\ with \in DOMAIN Op[name].hears[1]
        /\ with \in Inputs
    BY OpFacts DEF Arguments, Inputs
  <1>4. InvocationTypeOK'
    <2>1. call' \in [op : OpNames \cup {"none", "list_views"}, id : Ids \cup {NoId},
                     with : Inputs \cup {Nothing}]
      BY <1>1, <1>2, <1>3
    <2>2. seen' \subseteq Entries \cup {NoExt}
      BY <1>1, <1>2 DEF InvocationTypeOK
    <2>3. QED BY <1>1, <2>1, <2>2 DEF InvocationTypeOK, Steps
  <1>5. CallInv'
    BY <1>1, <1>2, <1>3 DEF CallInv, Asked, Noted, Dropped, Held
  <1>6. RunInv'
    BY <1>1 DEF RunInv, Bound, Entered, Fresh, Served, Followed
  <1>7. OneVersionAnswers' /\ Talk'
    BY <1>1 DEF RunInv, Fresh, OneVersionAnswers, Talk, HeardAsAsked, ToldWhatItSaid
  <1>8. QED BY <1>4, <1>5, <1>6, <1>7

\* A call that is not answered and enters no guest keeps what it has.
LEMMA NotLoadedInv ==
  ASSUME IInv, NotLoaded
  PROVE  IInv'
  <1> USE DEF IInv
  <1>1. /\ pc \in {"looking", "again"} /\ pc' = "answered"
        /\ loaded[call.id] = NoExt
        /\ entry' = NoExt /\ answer' = Absent(call.op)
        /\ UNCHANGED <<loaded, registry, host, call, seen, version, heard, said,
                       outside, job, verdict>>
    BY DEF NotLoaded, Return
  <1>2. /\ version = NoVersion /\ heard = Nothing /\ outside = NoRequest
        /\ said = NoAnswer
    BY <1>1 DEF RunInv, Fresh
  <1>3. Absent(call.op) \in Outcome /\ Absent(call.op).tag # "Ok"
    <2>1. <<"UnknownRole">> \in RoleError
      BY DEF RoleError, RoleErrorOver, Cases
    <2>2. QED BY <2>1 DEF Absent, Outcome, Tags, Errors
  <1>4. InvocationTypeOK'
    BY <1>1, <1>3 DEF InvocationTypeOK, Steps
  <1>5. CallInv'
    BY <1>1 DEF CallInv, Asked, Noted, Dropped, Held, Live
  <1>6. RunInv'
    BY <1>1, <1>2, <1>3 DEF RunInv, Bound, Entered, Fresh, Served, Followed, Live
  <1>7. OneVersionAnswers'
    <2>1. NoExt \in seen
      BY <1>1 DEF CallInv, Noted, Live
    <2>2. answer' \in Alone(NoExt)'
      BY <1>1 DEF Alone
    <2>3. QED BY <1>1, <2>1, <2>2 DEF OneVersionAnswers
  <1>8. Talk'
    BY <1>1, <1>2 DEF Talk, HeardAsAsked, ToldWhatItSaid
  <1>9. QED BY <1>4, <1>5, <1>6, <1>7, <1>8

LEMMA ListDeclaredInv ==
  ASSUME IInv, ListDeclared
  PROVE  IInv'
  <1> USE DEF IInv
  <1> DEFINE e == loaded[call.id]
  <1>1. /\ pc = "looking" /\ pc' = "answered" /\ e # NoExt /\ entry' = e
        /\ \/ call.op = "list_views" /\ answer' = ViewsAnswer(e)
           \/ call.op = "list_tools" /\ e.api = "v2" /\ answer' = DeclaredAnswer
        /\ UNCHANGED <<loaded, registry, host, call, seen, version, heard, said,
                       outside, job, verdict>>
    BY DEF ListDeclared, Return
  <1>2. /\ version = NoVersion /\ heard = Nothing /\ outside = NoRequest
        /\ said = NoAnswer /\ call.id \in Ids /\ e \in seen
    BY <1>1 DEF RunInv, Fresh, CallInv, Asked, Noted, Live
  <1>3. answer' \in Outcome
    <2>1. <<"view">> \in Cases(Stages)
      BY DEF Cases, Stages
    <2>2. \A x : ViewsAnswer(x) \in Outcome
      BY <2>1 DEF ViewsAnswer, Outcome, Tags
    <2>3. DeclaredAnswer \in Outcome
      BY DEF DeclaredAnswer, Outcome, Tags
    <2>4. QED BY <1>1, <2>2, <2>3
  <1>4. e \in Entries
    BY <1>1, <1>2 DEF InvocationTypeOK
  <1>5. InvocationTypeOK'
    BY <1>1, <1>3, <1>4 DEF InvocationTypeOK, Steps
  <1>6. CallInv'
    BY <1>1 DEF CallInv, Asked, Noted, Dropped, Held, Live
  <1>7. RunInv'
    BY <1>1, <1>2 DEF RunInv, Bound, Entered, Fresh, Served, Followed, Live
  <1>8. OneVersionAnswers'
    <2>1. answer' \in Alone(e)'
      BY <1>1 DEF Alone
    <2>2. QED BY <1>1, <1>2, <2>1 DEF OneVersionAnswers
  <1>9. Talk'
    BY <1>1, <1>2 DEF Talk, HeardAsAsked, ToldWhatItSaid
  <1>10. QED BY <1>5, <1>6, <1>7, <1>8, <1>9

LEMMA ListByCallInv ==
  ASSUME IInv, ListByCall
  PROVE  IInv'
  <1> USE DEF IInv
  <1>1. /\ pc = "looking" /\ pc' = "again" /\ call.op = "list_tools"
        /\ loaded[call.id] # NoExt /\ loaded[call.id].api = "v1"
        /\ UNCHANGED <<loaded, registry, host, callVars, job, verdict>>
    BY DEF ListByCall
  <1>2. UNCHANGED <<call, seen, entry, version, heard, said, outside, answer>>
    BY <1>1 DEF callVars
  <1>3. loaded[call.id] \in seen
    BY <1>1 DEF CallInv, Noted, Live
  <1>4. InvocationTypeOK'
    BY <1>1, <1>2 DEF InvocationTypeOK, Steps
  <1>5. CallInv'
    BY <1>1, <1>2, <1>3 DEF CallInv, Asked, Noted, Dropped, Held, Live, ListedByV1
  <1>6. RunInv'
    BY <1>1, <1>2 DEF RunInv, Bound, Entered, Fresh, Served, Followed, Live
  <1>7. OneVersionAnswers' /\ Talk'
    BY <1>1, <1>2 DEF OneVersionAnswers, Talk, HeardAsAsked, ToldWhatItSaid
  <1>8. QED BY <1>4, <1>5, <1>6, <1>7

LEMMA LookupInv ==
  ASSUME IInv, Lookup
  PROVE  IInv'
  <1> USE DEF IInv
  <1>1. /\ \/ pc = "again"
           \/ pc = "looking" /\ call.op \notin {"list_views", "list_tools"}
        /\ pc' = "open" /\ loaded[call.id] # NoExt /\ entry' = loaded[call.id]
        /\ UNCHANGED <<loaded, registry, host, call, seen, version, heard, said,
                       outside, answer, job, verdict>>
    BY DEF Lookup
  <1>2. /\ version = NoVersion /\ heard = Nothing /\ outside = NoRequest
        /\ said = NoAnswer /\ call.id \in Ids /\ entry' \in seen \ {NoExt}
        /\ call.op # "list_views"
        /\ call.op = "list_tools" => ListedByV1
    BY <1>1 DEF RunInv, Fresh, CallInv, Asked, Noted, Dropped, Live
  <1>3. InvocationTypeOK'
    BY <1>1, <1>2 DEF InvocationTypeOK, Steps
  <1>4. CallInv'
    BY <1>1, <1>2 DEF CallInv, Asked, Noted, Dropped, Held, Live, ListedByV1
  <1>5. RunInv'
    BY <1>1, <1>2 DEF RunInv, Bound, Entered, Fresh, Served, Followed, Live
  <1>6. OneVersionAnswers' /\ Talk'
    BY <1>1, <1>2 DEF OneVersionAnswers, Talk, HeardAsAsked, ToldWhatItSaid
  <1>7. QED BY <1>3, <1>4, <1>5, <1>6

\* The version a call is opened at is one of the contract, and its guest is
\* told what the caller passed.
LEMMA OpenInv ==
  ASSUME IInv, Open
  PROVE  IInv'
  <1> USE DEF IInv
  <1>1. /\ pc = "open" /\ pc' = "running"
        /\ Opening(entry, Resolved, Op[call.op], call.with) = "guest"
        /\ version' = Resolved
        /\ heard' = Op[call.op].hears[version'][call.with]
        /\ UNCHANGED <<loaded, registry, host, call, seen, entry, said, outside,
                       answer, job, verdict>>
    BY DEF Open
  <1>2. /\ call.op \in OpNames /\ call.with \in DOMAIN Op[call.op].hears[1]
        /\ entry \in seen \ {NoExt}
        /\ outside = NoRequest /\ said = NoAnswer
    BY <1>1 DEF RunInv, Fresh, CallInv, Asked, Held, Live
  <1>3. Resolved \in Minors \cup {NoVersion}
    BY <1>2, ResolvedVersion DEF Resolved
  <1>4. version' \in Minors /\ heard' = call.with
    BY <1>1, <1>2, <1>3, OpenedHears
  <1>5. version' # NoVersion
    BY <1>4 DEF Minors, NoVersion
  <1>6. entry \in Entries
    BY <1>2 DEF InvocationTypeOK
  <1>7. call.with \in Inputs
    BY <1>2, OpFacts
  <1>8. InvocationTypeOK'
    BY <1>1, <1>4, <1>7 DEF InvocationTypeOK, Steps
  <1>9. CallInv'
    BY <1>1, <1>2 DEF CallInv, Asked, Noted, Dropped, Held, Live, ListedByV1
  <1>10. Bound'
    BY <1>1, <1>2, <1>6 DEF Bound, Resolved
  <1>11. RunInv'
    BY <1>1, <1>2, <1>5, <1>10 DEF RunInv, Entered, Fresh, Served, Followed, Live
  <1>12. OneVersionAnswers' /\ Talk'
    BY <1>1, <1>2, <1>4 DEF OneVersionAnswers, Talk, HeardAsAsked, ToldWhatItSaid
  <1>13. QED BY <1>8, <1>9, <1>11, <1>12

LEMMA HostCallInv ==
  ASSUME IInv, NEW request \in Requests, HostCall(request)
  PROVE  IInv'
  <1> USE DEF IInv
  <1>1. /\ pc = "running"
        /\ outside' = [request |-> request,
                       reply |-> Serve(HostStateOf(entry, host), request)]
        /\ UNCHANGED <<loaded, registry, host, pc, call, seen, entry, version,
                       heard, said, answer, job, verdict>>
    BY DEF HostCall
  <1>2. entry \in Entries
    BY <1>1 DEF RunInv, Entered, Bound
  <1>3. InvocationTypeOK'
    BY <1>1 DEF InvocationTypeOK
  <1>4. CallInv'
    BY <1>1 DEF CallInv, Asked, Noted, Dropped, Held, ListedByV1
  <1>5. RunInv'
    BY <1>1, <1>2 DEF RunInv, Bound, Entered, Fresh, Served, Followed
  <1>6. OneVersionAnswers' /\ Talk'
    BY <1>1 DEF OneVersionAnswers, Talk, HeardAsAsked, ToldWhatItSaid
  <1>7. QED BY <1>3, <1>4, <1>5, <1>6

\* A call that is opened, or runs, and answers by something that can be said
\* through the entry it holds has answered from one version.
LEMMA HeldAnswers ==
  ASSUME IInv, pc \in {"open", "running"}, pc' = "answered",
         UNCHANGED <<call, seen>>, answer' \in Through(entry)
  PROVE  OneVersionAnswers'
  <1>1. /\ entry \in seen \ {NoExt} /\ call.op # "list_views"
        /\ call.op = "list_tools" => ListedByV1
    BY DEF IInv, CallInv, Held
  <1>2. PICK held : held = entry
    OBVIOUS
  <1>3. Through(held)' = Through(held)
    BY DEF Through
  <1>4. CASE call.op = "list_tools"
    <2>1. PICK first \in seen \ {NoExt} : first.api = "v1"
      BY <1>1, <1>4 DEF ListedByV1
    <2>2. /\ first \in seen' \ {NoExt} /\ held \in seen' \ {NoExt}
          /\ answer' \in Through(held)'
      BY <1>1, <1>2, <1>3
    <2>3. QED BY <1>4, <2>1, <2>2 DEF OneVersionAnswers
  <1>5. CASE call.op # "list_tools"
    <2>1. Alone(held)' = Through(held)'
      BY <1>1, <1>2, <1>5 DEF Alone
    <2>2. held \in seen' /\ answer' \in Alone(held)'
      BY <1>1, <1>2, <1>3, <2>1
    <2>3. QED BY <2>2 DEF OneVersionAnswers
  <1>6. QED BY <1>4, <1>5

\* What holds of a call however it is answered from an entry it holds.
LEMMA AnsweredInv ==
  ASSUME IInv, pc \in {"open", "running"}, pc' = "answered", answer' \in Outcome,
         said' \in Outcome, answer' \in Through(entry),
         UNCHANGED <<loaded, registry, host, call, seen, entry, version, heard,
                     outside, job, verdict>>,
         call.op = "deploy" /\ answer'.tag = "Ok" => version # NoVersion
  PROVE  InvocationTypeOK' /\ CallInv' /\ RunInv' /\ OneVersionAnswers'
         /\ HeardAsAsked'
  <1> USE DEF IInv
  <1>1. InvocationTypeOK'
    BY DEF InvocationTypeOK, Steps
  <1>2. CallInv'
    BY DEF CallInv, Asked, Noted, Dropped, Held, Live
  <1>3. RunInv'
    BY DEF RunInv, Bound, Entered, Fresh, Served, Followed, Live
  <1>4. OneVersionAnswers'
    BY HeldAnswers
  <1>5. HeardAsAsked'
    BY DEF Talk, HeardAsAsked
  <1>6. QED BY <1>1, <1>2, <1>3, <1>4, <1>5

\* What is known of a call whose guest runs.
LEMMA RunningFacts ==
  ASSUME IInv, pc = "running"
  PROVE  /\ version \in Minors /\ call.op \in OpNames
         /\ version = Resolve(Op[call.op], entry.exports)
         /\ Opening(entry, version, Op[call.op], call.with) = "guest"
  BY DEF IInv, RunInv, Entered, Bound, InvocationTypeOK

LEMMA OpenFailsInv ==
  ASSUME IInv, OpenFails
  PROVE  IInv'
  <1> DEFINE stage == Opening(entry, Resolved, Op[call.op], call.with)
  <1>1. /\ pc = "open" /\ pc' = "answered" /\ stage # "guest"
        /\ answer' = HostFailure(call.op, stage)
        /\ UNCHANGED <<loaded, registry, host, call, seen, entry, version, heard,
                       said, outside, job, verdict>>
    BY DEF OpenFails, Return
  <1>2. stage \in Stages
    BY <1>1, OpeningStages
  <1>3. answer' \in Outcome
    BY <1>1, <1>2, HostFailureOutcome
  <1>4. answer' \in Through(entry)
    BY <1>1 DEF Through, Resolved
  <1>5. said = NoAnswer
    BY <1>1 DEF IInv, RunInv, Fresh
  <1>6. call.op = "deploy" => answer'.tag # "Ok"
    BY <1>1 DEF HostFailure
  <1>7. said' \in Outcome
    BY <1>1 DEF IInv, InvocationTypeOK
  <1>8. ToldWhatItSaid'
    BY <1>1, <1>5 DEF ToldWhatItSaid
  <1> HIDE DEF stage
  <1>9. QED BY <1>1, <1>3, <1>4, <1>6, <1>7, <1>8, AnsweredInv DEF IInv, Talk

LEMMA GuestTrapsInv ==
  ASSUME IInv, GuestTraps
  PROVE  IInv'
  <1>1. /\ pc = "running" /\ pc' = "answered"
        /\ answer' = HostFailure(call.op, "trap")
        /\ UNCHANGED <<loaded, registry, host, call, seen, entry, version, heard,
                       said, outside, job, verdict>>
    BY DEF GuestTraps, Return
  <1>2. answer' \in Outcome
    BY <1>1, HostFailureOutcome DEF Stages
  <1>3. answer' \in Through(entry)
    BY <1>1, RunningFacts DEF Through
  <1>4. said = NoAnswer /\ version # NoVersion
    BY <1>1 DEF IInv, RunInv, Fresh, Entered
  <1>5. said' \in Outcome
    BY <1>1 DEF IInv, InvocationTypeOK
  <1>6. ToldWhatItSaid'
    BY <1>1, <1>4 DEF ToldWhatItSaid
  <1>7. QED BY <1>1, <1>2, <1>3, <1>4, <1>5, <1>6, AnsweredInv DEF IInv, Talk

LEMMA GuestReturnsInv ==
  ASSUME IInv, NEW c \in Values, GuestReturns(c)
  PROVE  IInv'
  <1>1. /\ pc = "running" /\ pc' = "answered"
        /\ c \in DOMAIN Op[call.op].says[version]
        /\ said' = [tag |-> "Ok", case |-> c]
        /\ answer' = [tag |-> "Ok", case |-> Op[call.op].says[version][c]]
        /\ UNCHANGED <<loaded, registry, host, call, seen, entry, version, heard,
                       outside, job, verdict>>
    BY DEF GuestReturns, Return
  <1>2. version \in Minors /\ call.op \in OpNames
    BY <1>1, RunningFacts
  <1>3. Op[call.op].says[version][c] = c
    BY <1>1, <1>2, OpFacts DEF Verbatim
  <1>4. [tag |-> "Ok", case |-> c] \in Outcome
    BY DEF Outcome, Tags
  <1>5. answer' \in Through(entry)
    BY <1>1, RunningFacts DEF Through
  <1>6. ToldWhatItSaid'
    BY <1>1, <1>3 DEF ToldWhatItSaid
  <1>7. version # NoVersion
    BY <1>1 DEF IInv, RunInv, Entered
  <1>8. answer' \in Outcome /\ said' \in Outcome
    BY <1>1, <1>3, <1>4
  <1>9. QED BY <1>1, <1>5, <1>6, <1>7, <1>8, AnsweredInv DEF IInv, Talk

LEMMA GuestFailsInv ==
  ASSUME IInv, NEW c \in Errors, GuestFails(c)
  PROVE  IInv'
  <1> DEFINE raised == Op[call.op].raises
             told == Op[call.op].fails[version][c]
  <1>1. /\ pc = "running" /\ pc' = "answered"
        /\ c \in DOMAIN Op[call.op].fails[version]
        /\ said' = [tag |-> raised, case |-> c]
        /\ answer' = [tag |-> raised, case |-> told]
        /\ UNCHANGED <<loaded, registry, host, call, seen, entry, version, heard,
                       outside, job, verdict>>
    BY DEF GuestFails, Return
  <1>2. version \in Minors /\ call.op \in OpNames
    BY <1>1, RunningFacts
  <1>3. \/ told = c
        \/ raised = "Composer" /\ c = <<"text">> /\ told = <<"Internal">>
    <2>1. CASE Verbatim(Op[call.op].fails[version])
      BY <1>1, <2>1 DEF Verbatim
    <2>2. CASE raised = "Composer" /\ Op[call.op].fails[version] = from_composer_v01
      <3>1. c \in Text /\ told = <<"Internal">>
        BY <1>1, <2>2 DEF from_composer_v01
      <3>2. QED BY <2>2, <3>1 DEF Text, Cases
    <2>3. QED BY <1>2, <2>1, <2>2, OpFacts
  <1>4. raised \in Tags
    BY <1>2, OpFacts DEF Raised, Tags
  <1>5. answer' \in Through(entry)
    BY <1>1, RunningFacts DEF Through
  <1> HIDE DEF raised, told
  <1>6. ToldWhatItSaid'
    BY <1>1, <1>3 DEF ToldWhatItSaid
  <1>7. version # NoVersion
    BY <1>1 DEF IInv, RunInv, Entered
  <1>8. answer' \in Outcome /\ said' \in Outcome
    <2>1. c \in Errors /\ told \in Errors
      BY <1>3, Internal DEF Errors
    <2>2. QED BY <1>1, <1>4, <2>1 DEF Outcome
  <1>9. QED BY <1>1, <1>5, <1>6, <1>7, <1>8, AnsweredInv DEF IInv, Talk

\* A deployment that was started is followed in the version it was started in.
LEMMA CollectInv ==
  ASSUME IInv, Collect
  PROVE  IInv'
  <1> USE DEF IInv
  <1>1. /\ pc = "answered" /\ pc' = "idle" /\ job' = JobAfter
        /\ call' = NoCall /\ seen' = {} /\ entry' = NoExt /\ version' = NoVersion
        /\ heard' = Nothing /\ said' = NoAnswer /\ outside' = NoRequest
        /\ answer' = NoAnswer
        /\ UNCHANGED <<loaded, registry, host, verdict>>
    BY DEF Collect
  <1>2. /\ job' \in [id : Ids, entry : Entries, version : Minors] \cup {NoJob}
        /\ job' # NoJob => job'.version = DeployVersion(job'.entry)
    <2>1. CASE call.op = "deploy" /\ answer.tag = "Ok"
      <3>1. /\ version # NoVersion /\ call.id \in Ids /\ entry \in Entries
            /\ call.op \in OpNames
            /\ version = Resolve(Op[call.op], entry.exports)
        BY <1>1, <2>1 DEF RunInv, Entered, Bound, CallInv, Asked
      <3>2. version \in Minors
        BY <3>1 DEF InvocationTypeOK
      <3>3. version = DeployVersion(entry)
        BY <2>1, <3>1, DeploymentsResolveAlike DEF Deployment
      <3>4. job' = [id |-> call.id, entry |-> entry, version |-> version]
        BY <1>1, <2>1 DEF JobAfter
      <3>5. QED BY <3>1, <3>2, <3>3, <3>4
    <2>2. CASE ~(call.op = "deploy" /\ answer.tag = "Ok")
      <3>1. job' = NoJob \/ job' = job
        BY <1>1, <2>2 DEF JobAfter
      <3>2. QED BY <3>1 DEF InvocationTypeOK, RunInv, Followed
    <2>3. QED BY <2>1, <2>2
  <1>3. NoAnswer \in Outcome
    BY DEF NoAnswer, Outcome, Tags
  <1>4. InvocationTypeOK'
    BY <1>1, <1>2, <1>3 DEF InvocationTypeOK, Steps, NoCall
  <1>5. CallInv'
    BY <1>1 DEF CallInv, Asked, Noted, Dropped, Held, Live
  <1>6. RunInv'
    BY <1>1, <1>2 DEF RunInv, Bound, Entered, Fresh, Served, Followed, Live
  <1>7. OneVersionAnswers' /\ Talk'
    BY <1>1 DEF OneVersionAnswers, Talk, HeardAsAsked, ToldWhatItSaid
  <1>8. QED BY <1>4, <1>5, <1>6, <1>7

\* Between calls only the verdict changes.
LEMMA VerdictInv ==
  ASSUME IInv, pc \in {"idle", "judged"}, pc' \in {"idle", "judged"},
         UNCHANGED <<loaded, registry, host, callVars, job>>
  PROVE  IInv'
  <1> USE DEF IInv
  <1>1. UNCHANGED <<call, seen, entry, version, heard, said, outside, answer>>
    BY DEF callVars
  <1>2. InvocationTypeOK'
    BY <1>1 DEF InvocationTypeOK, Steps
  <1>3. CallInv'
    BY <1>1 DEF CallInv, Asked, Noted, Dropped, Held, Live
  <1>4. RunInv'
    BY <1>1 DEF RunInv, Bound, Entered, Fresh, Served, Followed, Live
  <1>5. OneVersionAnswers' /\ Talk'
    BY <1>1 DEF OneVersionAnswers, Talk, HeardAsAsked, ToldWhatItSaid
  <1>6. QED BY <1>2, <1>3, <1>4, <1>5

LEMMA StutterInv ==
  ASSUME IInv, UNCHANGED vars
  PROVE  IInv'
  <1> USE DEF IInv
  <1>1. UNCHANGED <<loaded, registry, host, pc, call, seen, entry, version, heard,
                    said, outside, answer, job>>
    BY DEF vars, callVars
  <1>2. InvocationTypeOK'
    BY <1>1 DEF InvocationTypeOK
  <1>3. CallInv'
    BY <1>1 DEF CallInv, Asked, Noted, Dropped, Held, ListedByV1
  <1>4. RunInv'
    BY <1>1 DEF RunInv, Bound, Entered, Fresh, Served, Followed
  <1>5. Talk'
    BY <1>1 DEF Talk, HeardAsAsked, ToldWhatItSaid
  <1>6. OneVersionAnswers'
    <2>1. ASSUME NEW e
          PROVE  Through(e)' = Through(e) /\ Alone(e)' = Alone(e)
      <3>1. Through(e)' = Through(e)
        BY <1>1 DEF Through
      <3>2. QED BY <1>1, <3>1 DEF Alone
    <2>2. QED BY <1>1, <2>1 DEF OneVersionAnswers
  <1>7. QED BY <1>2, <1>3, <1>4, <1>5, <1>6

\* Every step keeps the invariant.
LEMMA NextInv ==
  ASSUME IInv, [Next]_vars
  PROVE  IInv'
  <1>1. CASE Reload
    BY <1>1, ReloadInv
  <1>2. CASE Calls
    <2>1. CASE \E name \in OpNames \cup {"list_views"}, id \in Callable :
                 \E with \in Arguments(name) : StartCall(name, id, with)
      BY <2>1, StartCallInv
    <2>2. CASE NotLoaded \/ ListDeclared \/ ListByCall \/ Lookup
      BY <2>2, NotLoadedInv, ListDeclaredInv, ListByCallInv, LookupInv
    <2>3. CASE OpenFails \/ Open
      BY <2>3, OpenFailsInv, OpenInv
    <2>4. CASE \E request \in Requests : HostCall(request)
      BY <2>4, HostCallInv
    <2>5. CASE \E c \in Values : GuestReturns(c)
      BY <2>5, GuestReturnsInv
    <2>6. CASE \E c \in Errors : GuestFails(c)
      BY <2>6, GuestFailsInv
    <2>7. CASE GuestTraps \/ Collect
      BY <2>7, GuestTrapsInv, CollectInv
    <2>8. QED BY <1>2, <2>1, <2>2, <2>3, <2>4, <2>5, <2>6, <2>7 DEF Calls
  <1>3. CASE \/ \E required \in Demands : ResolveDemand(required)
             \/ \E listed \in Listings : FindCycles(listed)
             \/ Dismiss
    <2>1. /\ pc \in {"idle", "judged"} /\ pc' \in {"idle", "judged"}
          /\ UNCHANGED <<loaded, registry, host, callVars, job>>
      BY <1>3 DEF ResolveDemand, FindCycles, Judge, Dismiss
    <2>2. QED BY <2>1, VerdictInv
  <1>4. CASE UNCHANGED vars
    BY <1>4, StutterInv
  <1>5. QED BY <1>1, <1>2, <1>3, <1>4 DEF Next

\* The invariant of a call.
THEOREM Inductive == Spec => []IInv
  <1>1. Init => IInv
    BY InitInv
  <1>2. IInv /\ [Next]_vars => IInv'
    BY NextInv
  <1>3. QED BY <1>1, <1>2, PTL DEF Spec

-----------------------------------------------------------------------------
(* Its consequences *)

\* The type invariant: the states, values and errors of a call are those of the
\* code, whatever reloads it overlaps.
THEOREM InvocationTypes == Spec => []InvocationTypeOK
  <1>1. IInv => InvocationTypeOK
    BY DEF IInv
  <1>2. QED BY <1>1, Inductive, PTL

\* A call answers as it would have with one of the entries that were loaded while
\* it was under way, alone; list_tools is the stated exception
\* (runtime.rs, dispatch_instance_ctx).
THEOREM AnswersFromOneVersion == Spec => []OneVersionAnswers
  <1>1. IInv => OneVersionAnswers
    BY DEF IInv
  <1>2. QED BY <1>1, Inductive, PTL

\* A guest is told what the caller asked, at any version of its contract
\* (guardrail_map.rs, parse_direction).
THEOREM HearsWhatIsAsked == Spec => []HeardAsAsked
  <1>1. IInv => HeardAsAsked
    BY DEF IInv, Talk
  <1>2. QED BY <1>1, Inductive, PTL

\* The caller is told what the guest said, in the guest's own category
\* (ext_error.rs; runtime_deploy.rs, err_to_host_v2).
THEOREM TellsWhatIsSaid == Spec => []ToldWhatItSaid
  <1>1. IInv => ToldWhatItSaid
    BY DEF IInv, Talk
  <1>2. QED BY <1>1, Inductive, PTL

\* A deployment is polled and rolled back in the version it was started in while
\* the entry that started it stays (runtime_deploy.rs, deployment_call).
THEOREM FollowsInOneVersion == Spec => []JobKeepsItsContract
  <1>1. IInv => JobKeepsItsContract
    <2> SUFFICES ASSUME IInv, job # NoJob, version # NoVersion, entry = job.entry
                 PROVE  version = job.version
      BY DEF JobKeepsItsContract
    <2>1. /\ call.op \in OpNames /\ version = Resolve(Op[call.op], entry.exports)
          /\ job.version = DeployVersion(job.entry)
      BY DEF IInv, RunInv, Bound, Followed
    <2>2. pc \in {"running", "answered"}
      BY DEF IInv, RunInv, Fresh
    <2>3. call.op \in Deployment
      BY <2>2 DEF IInv, RunInv, Followed, Live, Deployment
    <2>4. QED BY <2>1, <2>3, DeploymentsResolveAlike
  <1>2. QED BY <1>1, Inductive, PTL

-----------------------------------------------------------------------------
(* The ports *)

\* resolve_llm_role names a role that is declared, and without a hint the only one.
LEMMA RoleIsDeclared ==
  ASSUME NEW S, NEW declared \in Seq(S), NEW hint,
         ResolveRole(declared, hint) # NoRole
  PROVE  IF hint = NoHint THEN Cardinality(ToSet(declared)) = 1
                          ELSE hint \in ToSet(declared)
  <1>1. CASE hint # NoHint
    BY <1>1 DEF ResolveRole
  <1>2. CASE hint = NoHint
    <2>1. Len(declared) = 1
      BY <1>2 DEF ResolveRole
    <2>2. DOMAIN declared = 1 .. 1
      BY <2>1
    <2>3. ToSet(declared) = {declared[1]}
      BY <2>2 DEF ToSet
    <2>4. QED BY <1>2, <2>3, FS_Singleton
  <1>3. QED BY <1>1, <1>2

\* An extension that is granted a token of its provider has an operator whose
\* broker is reached by https or on this machine.
LEMMA TokenIsCovered ==
  ASSUME NEW state, NEW provider, GetToken(state, provider) = "served",
         \A one, other \in state.oauth : one = other
  PROVE  /\ provider \in state.permissions.oauth_providers
         /\ \A base \in state.oauth : base.scheme = "https" \/ base.host \in Loopback
  <1>1. provider \in state.permissions.oauth_providers
    BY DEF GetToken, MayUse
  <1>2. \E base \in state.oauth : base.scheme = "https" \/ base.host \in Loopback
    BY DEF GetToken, SendsToken
  <1>3. QED BY <1>1, <1>2

\* A model is asked and a token sent within what the extension declares
\* (host_state_llm.rs, resolve_llm_role; host_state_oauth.rs; oauth.rs).
THEOREM PortsServeWithinGrant == Spec => []PortsWithinGrant
  <1> DEFINE request == outside.request
             state == HostStateOf(entry, host)
             roles == entry.permissions.llm_roles
  <1>1. ASSUME IInv, outside.reply = "served"
        PROVE  /\ entry \in Entry /\ host \in Hosts
               /\ Serve(state, request) = "served"
    <2>1. outside # NoRequest
      BY <1>1 DEF NoRequest
    <2>2. entry \in Entries /\ Serve(state, request) = "served" /\ host \in Hosts
      BY <1>1, <2>1 DEF IInv, RunInv, Served, InvocationTypeOK
    <2>3. entry \in Entry
      BY <2>2 DEF Entries
    <2>4. QED BY <2>2, <2>3
  <1>2. ASSUME IInv, outside.reply = "served", request.port \in {"complete", "embed"}
        PROVE  IF request.hint = NoHint THEN Cardinality(ToSet(roles)) = 1
                                        ELSE request.hint \in ToSet(roles)
    <2>1. Serve(state, request) = "served" /\ state.permissions = entry.permissions
      BY <1>1, <1>2 DEF HostStateOf
    <2>2. ResolveRole(roles, request.hint) # NoRole
      BY <1>2, <2>1 DEF Serve, Complete, Embed
    <2>3. roles \in Seq(STRING)
      BY <1>1, <1>2 DEF Entry
    <2>4. QED BY <2>2, <2>3, RoleIsDeclared
  <1>3. ASSUME IInv, outside.reply = "served", request.port = "token"
        PROVE  /\ request.provider \in entry.permissions.oauth_providers
               /\ \A base \in host.oauth :
                    base.scheme = "https" \/ base.host \in Loopback
    <2>1. Serve(state, request) = "served" /\ host \in Hosts
      BY <1>1, <1>3
    <2>2. state.permissions = entry.permissions /\ state.oauth = host.oauth
      BY DEF HostStateOf
    <2>3. GetToken(state, request.provider) = "served"
      BY <1>3, <2>1 DEF Serve
    <2>4. \A one, other \in state.oauth : one = other
      BY <2>1, <2>2
    <2> HIDE DEF state
    <2>5. QED BY <2>2, <2>3, <2>4, TokenIsCovered
  <1>4. IInv => PortsWithinGrant
    BY <1>2, <1>3 DEF PortsWithinGrant
  <1>5. QED BY <1>4, Inductive, PTL

-----------------------------------------------------------------------------
(* What is kept of an answer and of a verdict *)

\* list_views has answered from the describe of the entry that is held.
Listed ==
  /\ pc # "answered" => answer = NoAnswer
  /\ answer.tag = "Views" => entry \in Entries /\ ViewsResolve(entry.views)

\* The registry is finite, and a verdict is what it said of one of its states.
Judged ==
  /\ IsFiniteSet(registry)
  /\ verdict.about = "plan" =>
       /\ IsFiniteSet(verdict.offers) /\ verdict.offers \subseteq OfferedBinding
       /\ verdict.required \in Demands
       /\ verdict.plan \in Plans(verdict.offers, verdict.required)
  /\ verdict.about = "cycle" =>
       /\ verdict.offers \subseteq OfferedBinding
       /\ verdict.listed \in Listings
       /\ verdict.report = DetectCycle(verdict.offers, verdict.listed)

Kept == Listed /\ Judged

\* Finitely many ids with finitely many offers each advertise finitely many.
LEMMA OfferingsFinite ==
  ASSUME NEW m \in [Ids -> Entries \cup {NoExt}]
  PROVE  IsFiniteSet(Offerings(m))
  <1> DEFINE Of(id) == {o \in Offerings(m) : o.ext = id}
             f == [id \in Ids |-> Of(id)]
             All == {Of(id) : id \in Ids}
  <1>1. ASSUME NEW id \in Ids
        PROVE  IsFiniteSet(Of(id))
    <2>1. CASE m[id] = NoExt
      <3>1. Of(id) = {}
        BY <2>1 DEF Offerings
      <3>2. QED BY <3>1, FS_EmptySet
    <2>2. CASE m[id] # NoExt
      <3> DEFINE offered == m[id].offers
                 g == [o \in Of(id) |-> [cap |-> o.cap, version |-> o.version]]
      <3>1. IsFiniteSet(offered)
        BY <2>2, InvocationAssumption
      <3>2. \A o \in Of(id) : /\ o.ext = id /\ o \in OfferedBinding
                              /\ [cap |-> o.cap, version |-> o.version] \in offered
        BY DEF Offerings
      <3>3. g \in [Of(id) -> offered]
        BY <3>2
      <3>4. \A o, p \in Of(id) : g[o] = g[p] => o = p
        BY <3>2 DEF OfferedBinding
      <3> HIDE DEF g, offered
      <3>5. g \in Injection(Of(id), offered)
        BY <3>3, <3>4 DEF Injection, IsInjective
      <3>6. QED BY <3>1, <3>5, FS_Injection
    <2>3. QED BY <2>1, <2>2
  <1>2. f \in Surjection(Ids, All)
    <2>1. \A id \in Ids : f[id] = Of(id) /\ Of(id) \in All
      OBVIOUS
    <2>2. f \in [Ids -> All]
      BY <2>1
    <2>3. \A t \in All : \E id \in Ids : f[id] = t
      BY <2>1
    <2> HIDE DEF f, All
    <2>4. QED BY <2>2, <2>3 DEF Surjection
  <1>3. IsFiniteSet(All)
    <2> HIDE DEF f, All
    <2>1. QED BY <1>2, CapabilitiesAssumption, FS_Surjection
  <1>4. IsFiniteSet(UNION All)
    <2>1. \A T \in All : IsFiniteSet(T)
      BY <1>1
    <2> HIDE DEF All
    <2>2. QED BY <1>3, <2>1, FS_UNION
  <1>5. Offerings(m) = UNION All
    <2>1. \A o \in Offerings(m) : o.ext \in Ids
      BY DEF Offerings, OfferedBinding
    <2>2. QED BY <2>1
  <1>6. QED BY <1>4, <1>5

LEMMA InitKept ==
  ASSUME Init
  PROVE  Kept
  <1>1. /\ loaded = [id \in Ids |-> NoExt] /\ registry = Offerings(loaded)
        /\ answer = NoAnswer /\ verdict = NoVerdict
    BY DEF Init, Reader!Init, Reader!InStep
  <1>2. Listed
    BY <1>1 DEF Listed, NoAnswer
  <1>3. IsFiniteSet(registry)
    BY <1>1, OfferingsFinite
  <1>4. QED BY <1>1, <1>2, <1>3 DEF Kept, Judged, NoVerdict

LEMMA CallsKept ==
  ASSUME IInv, Kept, Calls
  PROVE  Kept'
  <1>1. UNCHANGED <<registry, verdict>>
    BY DEF Calls, StartCall, NotLoaded, ListDeclared, ListByCall, Lookup, OpenFails,
           Open, HostCall, GuestReturns, GuestFails, GuestTraps, Collect
  <1>2. Judged'
    BY <1>1 DEF Kept, Judged
  <1> SUFFICES Listed'
    BY <1>2 DEF Kept
  <1>3. ASSUME pc' # "answered", answer' = answer, pc # "answered"
        PROVE  Listed'
    BY <1>3 DEF Kept, Listed, NoAnswer
  <1>4. ASSUME pc' = "answered", answer'.tag # "Views"
        PROVE  Listed'
    BY <1>4 DEF Listed
  <1>5. CASE \E name \in OpNames \cup {"list_views"}, id \in Callable :
               \E with \in Arguments(name) : StartCall(name, id, with)
    BY <1>3, <1>5 DEF StartCall
  <1>6. CASE NotLoaded
    <2>1. Absent(call.op).tag # "Views"
      BY DEF Absent
    <2>2. QED BY <1>4, <1>6, <2>1 DEF NotLoaded, Return
  <1>7. CASE ListDeclared
    <2> DEFINE e == loaded[call.id]
    <2>1. /\ pc = "looking" /\ pc' = "answered" /\ e # NoExt /\ entry' = e
          /\ answer' = ViewsAnswer(e) \/ answer' = DeclaredAnswer
      BY <1>7 DEF ListDeclared, Return
    <2>2. e \in Entries
      BY <2>1 DEF IInv, InvocationTypeOK, CallInv, Asked, Live
    <2>3. ViewsAnswer(e).tag = "Views" => ViewsResolve(e.views)
      BY DEF ViewsAnswer
    <2>4. DeclaredAnswer.tag # "Views"
      BY DEF DeclaredAnswer
    <2> HIDE DEF e
    <2>5. QED BY <2>1, <2>2, <2>3, <2>4 DEF Listed
  <1>8. CASE ListByCall \/ Lookup \/ Open
    BY <1>3, <1>8 DEF ListByCall, Lookup, Open, callVars
  <1>9. CASE OpenFails \/ GuestTraps
    <2>1. \A name, stage : HostFailure(name, stage).tag # "Views"
      BY DEF HostFailure
    <2>2. QED BY <1>4, <1>9, <2>1 DEF OpenFails, GuestTraps, Return
  <1>10. CASE \E request \in Requests : HostCall(request)
    BY <1>3, <1>10 DEF HostCall
  <1>11. CASE \E c \in Values : GuestReturns(c)
    BY <1>4, <1>11 DEF GuestReturns, Return
  <1>12. CASE \E c \in Errors : GuestFails(c)
    <2>1. pc = "running" /\ pc' = "answered" /\ answer'.tag = Op[call.op].raises
      BY <1>12 DEF GuestFails, Return
    <2>2. Op[call.op].raises \in Raised
      BY <2>1, RunningFacts, OpFacts
    <2>3. "Views" \notin Raised
      BY DEF Raised
    <2>4. QED BY <1>4, <2>1, <2>2, <2>3
  <1>13. CASE Collect
    BY <1>13 DEF Collect, Listed, NoAnswer
  <1>14. QED BY <1>5, <1>6, <1>7, <1>8, <1>9, <1>10, <1>11, <1>12, <1>13 DEF Calls

LEMMA NextKept ==
  ASSUME IInv, Kept, [Next]_vars
  PROVE  Kept'
  <1>1. CASE Reload
    <2>1. UNCHANGED <<pc, answer, entry, verdict>>
      BY <1>1 DEF Reload
    <2>2. IsFiniteSet(registry')
      <3>1. CASE Reader!Publish
        BY <3>1 DEF Reader!Publish, Kept, Judged
      <3>2. CASE Reader!Advertise
        <4>1. registry' = Offerings(loaded)
          BY <3>2 DEF Reader!Advertise
        <4>2. QED BY <4>1, OfferingsFinite DEF IInv, InvocationTypeOK
      <3>3. QED BY <1>1, <3>1, <3>2 DEF Reload
    <2>3. QED BY <2>1, <2>2 DEF Kept, Listed, Judged
  <1>2. CASE Calls
    BY <1>2, CallsKept
  <1>3. ASSUME NEW result, Judge(result)
        PROVE  Listed' /\ IsFiniteSet(registry') /\ verdict' = result
    BY <1>3 DEF Judge, callVars, Kept, Listed, Judged
  <1>4. registry \subseteq OfferedBinding /\ IsFiniteSet(registry)
    BY DEF IInv, InvocationTypeOK, Kept, Judged
  <1>5. CASE \E required \in Demands : ResolveDemand(required)
    <2>1. PICK required \in Demands : ResolveDemand(required)
      BY <1>5
    <2>2. PICK plan \in Plans(registry, required) :
            Judge([about |-> "plan", offers |-> registry, required |-> required,
                   plan |-> plan])
      BY <2>1 DEF ResolveDemand
    <2>3. QED BY <1>3, <1>4, <2>2 DEF Kept, Judged
  <1>6. CASE \E listed \in Listings : FindCycles(listed)
    <2>1. PICK listed \in Listings :
            Judge([about |-> "cycle", offers |-> registry, listed |-> listed,
                   report |-> DetectCycle(registry, listed)])
      BY <1>6 DEF FindCycles
    <2>2. QED BY <1>3, <1>4, <2>1 DEF Kept, Judged
  <1>7. CASE Dismiss
    BY <1>7 DEF Dismiss, callVars, Kept, Listed, Judged, NoVerdict
  <1>8. CASE UNCHANGED vars
    BY <1>8 DEF vars, callVars, Kept, Listed, Judged
  <1>9. QED BY <1>1, <1>2, <1>5, <1>6, <1>7, <1>8 DEF Next

\* The invariant of answers and verdicts.
THEOREM KeptInductive == Spec => []Kept
  <1>1. Init => Kept
    BY InitKept
  <1>2. IInv /\ Kept /\ [Next]_vars => Kept'
    BY NextKept
  <1>3. QED BY <1>1, <1>2, Inductive, PTL DEF Spec

\* The pages list_views hands out lie in the pack
\* (runtime_views.rs, view_to_definition; runtime_verify.rs, pack_relative_path).
THEOREM ViewsStayInPack == Spec => []ViewsInsidePack
  <1>1. IInv /\ Kept => ViewsInsidePack
    <2> SUFFICES ASSUME IInv, Kept, answer.tag = "Views", NEW view \in entry.views
                 PROVE  ViewInPack(view)
      BY DEF ViewsInsidePack
    <2>1. entry \in Entry /\ ViewResolves(view)
      BY DEF Kept, Listed, ViewsResolve, Entries
    <2>2. view.id \in Seq(STRING) /\ view.entry \in Seq(STRING)
      BY <2>1 DEF Entry
    <2>3. QED BY <2>1, <2>2, ViewServed
  <1>2. QED BY <1>1, Inductive, KeptInductive, PTL

\* A host call that was served was served by what the entry is granted.
LEMMA ServedCall ==
  ASSUME IInv, outside.reply = "served"
  PROVE  /\ entry \in Entry /\ host \in Hosts /\ outside.request \in Requests
         /\ Serve(HostStateOf(entry, host), outside.request) = "served"
  <1>1. outside # NoRequest
    BY DEF NoRequest
  <1>2. /\ entry \in Entries /\ host \in Hosts /\ outside.request \in Requests
        /\ Serve(HostStateOf(entry, host), outside.request) = "served"
    BY <1>1 DEF IInv, RunInv, Served, InvocationTypeOK
  <1>3. entry \in Entry
    BY <1>2 DEF Entries
  <1>4. QED BY <1>2, <1>3

\* A secret that reaches the backend lies beneath a place the describe names
\* (host_state_ports.rs, secrets::get).
THEOREM SecretsServedWithinGrant == Spec => []SecretsWithinGrant
  <1>1. IInv => SecretsWithinGrant
    <2> SUFFICES ASSUME IInv, outside.reply = "served",
                        outside.request.port = "secrets"
                 PROVE  SecretGranted(entry.permissions, outside.request.uri)
      BY DEF SecretsWithinGrant
    <2> DEFINE state == HostStateOf(entry, host)
    <2>1. /\ entry \in Entry /\ outside.request \in Requests
          /\ Serve(state, outside.request) = "served"
      BY ServedCall
    <2>2. GetSecret(state, outside.request.uri) = "served"
      BY <2>1 DEF Serve
    <2>3. state.permissions = entry.permissions
      BY DEF HostStateOf
    <2>4. \A d \in entry.permissions.secrets : d \in Seq(STRING)
      BY <2>1 DEF Entry
    <2>5. outside.request.uri \in Seq(STRING)
      BY <2>1
    <2> HIDE DEF state
    <2>6. SecretGranted(state.permissions, outside.request.uri)
      BY <2>2, <2>3, <2>4, <2>5, SecretServed
    <2>7. QED BY <2>3, <2>6
  <1>2. QED BY <1>1, Inductive, PTL

\* A url that is fetched lies within both lists
\* (net_permissions.rs, url_matcher.rs).
THEOREM FetchesStayWithinLists == Spec => []FetchesWithinLists
  <1>1. IInv => FetchesWithinLists
    <2> SUFFICES ASSUME IInv, outside.reply = "served", outside.request.port = "http"
                 PROVE  UrlGranted(entry.permissions, host.operators, outside.request.url)
      BY DEF FetchesWithinLists
    <2> DEFINE state == HostStateOf(entry, host)
               url == outside.request.url
               matcher == EffectiveMatcher(entry.permissions.network, host.operators)
    <2>1. /\ entry \in Entry /\ host \in Hosts /\ outside.request \in Requests
          /\ Serve(state, outside.request) = "served"
      BY ServedCall
    <2>2. Fetch(state, url) = "served"
      BY <2>1 DEF Serve
    <2>3. state.url_matcher = matcher
      BY DEF HostStateOf
    <2>4. IsAllowed(matcher, url)
      BY <2>2, <2>3 DEF Fetch
    <2>5. \A p \in entry.permissions.network : p \in Pattern \cup {Unparseable}
      BY <2>1 DEF Entry
    <2>6. \A p \in host.operators.patterns : p \in Pattern \cup {Unparseable}
      BY <2>1
    <2>7. IsUrl(url)
      BY <2>1
    <2> HIDE DEF url
    <2>8. QED BY <2>4, <2>5, <2>6, <2>7, FetchServed DEF url
  <1>2. QED BY <1>1, Inductive, PTL

\* Resolving accounts for every requirement and binds the newest offer
\* (capability.rs, resolve).
THEOREM PlansAreBest == Spec => []PlanIsBest
  <1>1. Kept => PlanIsBest
    <2> SUFFICES ASSUME Kept, verdict.about = "plan"
                 PROVE  Answers(verdict.plan, verdict.offers, verdict.required)
      BY DEF PlanIsBest
    <2>1. /\ IsFiniteSet(verdict.offers) /\ verdict.offers \subseteq OfferedBinding
          /\ verdict.required \in Demands
          /\ verdict.plan \in Plans(verdict.offers, verdict.required)
      BY DEF Kept, Judged
    <2>2. \A o \in verdict.offers : o.version \in Nat
      BY <2>1, CapabilitiesAssumption DEF OfferedBinding
    <2>3. verdict.required \in Seq(Requirement)
      BY <2>1
    <2>4. QED BY <2>1, <2>2, <2>3, PlansAnswer
  <1>2. QED BY <1>1, KeptInductive, PTL

\* The extensions reported are those whose dependencies reach a cycle
\* (capability.rs, detect_cycle).
THEOREM CyclesAreReported == Spec => []CycleReport
  <1>1. Kept => CycleReport
    <2> SUFFICES ASSUME Kept, verdict.about = "cycle"
                 PROVE  verdict.report = Endless(verdict.offers, verdict.listed)
      BY DEF CycleReport
    <2>1. /\ verdict.offers \subseteq OfferedBinding /\ verdict.listed \in Listings
          /\ verdict.report = DetectCycle(verdict.offers, verdict.listed)
      BY DEF Kept, Judged
    <2>2. \A o \in verdict.offers : o.ext \in Ids
      BY <2>1 DEF OfferedBinding
    <2>3. DOMAIN verdict.listed \subseteq Ids
      BY <2>1
    <2>4. QED BY <2>1, <2>2, <2>3, DetectCycleEndless
  <1>2. QED BY <1>1, KeptInductive, PTL
=============================================================================
