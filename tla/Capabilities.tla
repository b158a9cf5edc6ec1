---------------------------- MODULE Capabilities ----------------------------
(***************************************************************************)
(* The questions a host puts to the capability registry: which offer each  *)
(* requirement of an extension is bound to, and which extensions depend on *)
(* a cycle (crates/greentic-ext-runtime/src/capability.rs).                *)
(*                                                                         *)
(* A version requirement is the set of versions it admits, or Malformed.   *)
(* The registry is a set: the order of the offers of one capability        *)
(* follows the iteration of a hash map, so between two offers of the same  *)
(* version either may come first.                                          *)
(***************************************************************************)
EXTENDS Naturals, FiniteSets, Sequences, SequencesExt

CONSTANTS Ids, Caps, Versions, Malformed

ASSUME CapabilitiesAssumption ==
  /\ IsFiniteSet(Ids)
  /\ Versions \subseteq Nat /\ \A admits \in SUBSET Versions : Malformed # admits

OfferedBinding == [ext : Ids, cap : Caps, version : Versions]
Requirement == [cap : Caps, wants : (SUBSET Versions) \cup {Malformed}]

\* parse_requirement: one that does not parse admits nothing.
Admitted(req) == IF req.wants = Malformed THEN {} ELSE req.wants

Matching(offers, req) ==
  {o \in offers : o.cap = req.cap /\ o.version \in Admitted(req)}

\* max_by version: any of those no other match is newer than.
\* MUTANT: the comparison is the wrong way round.
Best_Oldest(offers, req) ==
  {o \in Matching(offers, req) :
     \A other \in Matching(offers, req) : o.version <= other.version}
Best(offers, req) ==
  {o \in Matching(offers, req) :
     \A other \in Matching(offers, req) : other.version <= o.version}

-----------------------------------------------------------------------------
(* resolve *)

\* A plan: the offer each capability is bound to, and what nothing meets.
EmptyPlan == [resolved |-> {}, unresolved |-> <<>>]

\* One turn of the loop; the binding of a later requirement replaces that of an
\* earlier one of the same capability.
Bind(plan, offers, req) ==
  IF Best(offers, req) = {}
  THEN {[plan EXCEPT !.unresolved = Append(@, req)]}
  ELSE {[plan EXCEPT !.resolved = {o \in @ : o.cap # req.cap} \cup {best}] :
          best \in Best(offers, req)}

\* The plans resolve may return.
Plans(offers, required) ==
  FoldLeft(LAMBDA plans, req : UNION {Bind(plan, offers, req) : plan \in plans},
           {EmptyPlan}, required)

-----------------------------------------------------------------------------
(* detect_cycle *)

\* dfs_has_cycle from each id, with the set of the ids on the path that leads
\* to it; an id that is not listed has no requirements.
\* MUTANT: it follows only the offers resolve would bind.
HasCycle_Best(offers, listed) ==
  LET dfs[visited \in SUBSET Ids] ==
        [id \in Ids |->
           \/ id \in visited
           \/ /\ id \in DOMAIN listed
              /\ \E req \in listed[id] : \E o \in Best(offers, req) :
                   dfs[visited \cup {id}][o.ext]]
  IN dfs[{}]
HasCycle(offers, listed) ==
  LET dfs[visited \in SUBSET Ids] ==
        [id \in Ids |->
           \/ id \in visited
           \/ /\ id \in DOMAIN listed
              /\ \E req \in listed[id] : \E o \in Matching(offers, req) :
                   dfs[visited \cup {id}][o.ext]]
  IN dfs[{}]

\* The listed ids, in the order of the list, that are reported.
DetectCycle(offers, listed) ==
  {id \in DOMAIN listed : HasCycle(offers, listed)[id]}

-----------------------------------------------------------------------------
(* What they are for *)

\* The plan answers every requirement: nothing offered meets those it reports
\* unresolved, in the order they were asked, and what a capability is bound to
\* is a newest match of the last requirement on it that can be met.
Answers(plan, offers, required) ==
  LET Met(i) == \E o \in offers : o.cap = required[i].cap
                                  /\ required[i].wants # Malformed
                                  /\ o.version \in required[i].wants
      LastMet(cap) == {i \in DOMAIN required :
                      /\ required[i].cap = cap /\ Met(i)
                      /\ \A j \in DOMAIN required :
                           required[j].cap = cap /\ Met(j) => j <= i}
      Unmet == {i \in DOMAIN required : ~Met(i)}
  IN /\ plan.resolved \subseteq offers
     /\ \A cap \in Caps :
          LET bound == {o \in plan.resolved : o.cap = cap}
          IN IF LastMet(cap) = {} THEN bound = {}
             ELSE \E o \in bound : \E i \in LastMet(cap) :
                    /\ bound = {o}
                    /\ o.version \in required[i].wants
                    /\ \A other \in offers :
                         (other.cap = cap /\ other.version \in required[i].wants)
                         => other.version <= o.version
     /\ Len(plan.unresolved) = Cardinality(Unmet)
     /\ \A i \in Unmet : plan.unresolved[Cardinality({j \in Unmet : j <= i})]
                         = required[i]

Depends(offers, listed, consumer, provider) ==
  /\ consumer \in DOMAIN listed
  /\ \E req \in listed[consumer], o \in offers :
       /\ o.ext = provider /\ o.cap = req.cap
       /\ req.wants # Malformed /\ o.version \in req.wants

\* The ids from which the graph of dependencies can be followed for ever.
Endless(offers, listed) ==
  {id \in DOMAIN listed :
     \E trap \in SUBSET DOMAIN listed :
       /\ id \in trap
       /\ \A consumer \in trap : \E provider \in trap :
            Depends(offers, listed, consumer, provider)}
=============================================================================
