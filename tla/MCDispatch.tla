----------------------------- MODULE MCDispatch -----------------------------
(* A small instance of Dispatch for TLC: a tick of two units and a host call  *)
(* of at most two, redirected twice; timeouts below, at and between ticks.     *)
EXTENDS Dispatch, TLC

CONSTANTS memory, table, m1, m2, t1, u, v, w

MCKindOf == (m1 :> memory) @@ (m2 :> memory) @@ (t1 :> table)
MCCap == (memory :> 2) @@ (table :> 1)

Setup(t, alive, follow, decl, ceil) ==
  [timeout |-> t, ticker |-> alive, follows |-> follow, declared |-> decl, ceiling |-> ceil]

\* Every timeout with the ticker alive or not, and every combination of lists
\* that differ by what they grant.
MCConfigs ==
  {Setup(t, TRUE, FALSE, {u}, {}) : t \in {NoTimeout, 0, 1, 2, 3}}
    \cup {Setup(3, FALSE, FALSE, {u}, {})}
    \cup {Setup(1, TRUE, f, d, c) : f \in BOOLEAN, d \in {{}, {u}, {u, v, w}},
                                   c \in {{}, {u, w}, {v}}}
=============================================================================
