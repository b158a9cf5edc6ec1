---------------------------- MODULE StoreLimits ----------------------------
(***************************************************************************)
(* The resource budget of one wasmtime store: PackLimits of                *)
(* crates/greentic-ext-runtime/src/limits.rs, which wasmtime consults      *)
(* whenever a linear memory or a table of the store is allocated or grows. *)
(***************************************************************************)
EXTENDS Integers, FiniteSets

CONSTANTS
  Kinds,   \* what is budgeted: memory bytes, table elements
  Regions, \* the linear memories and tables a guest may have
  KindOf,  \* which of the two each region is
  Cap,     \* MAX_MEMORY_BYTES, MAX_TABLE_ELEMENTS
  Sizes    \* the sizes a guest asks for

ASSUME LimitsAssumption ==
  /\ KindOf \in [Regions -> Kinds]
  /\ Cap \in [Kinds -> Nat]
  /\ Sizes \subseteq Nat

VARIABLES
  counted, \* PackLimits.memory_bytes, PackLimits.table_elements
  size     \* how large each region is

limitVars == <<counted, size>>

LimitsTypeOK ==
  /\ counted \in [Kinds -> Nat]
  /\ size \in [Regions -> Nat]

\* PackLimits::new, and a store without memories or tables.
FreshStore ==
  /\ counted' = [k \in Kinds |-> 0]
  /\ size' = [r \in Regions |-> 0]

LimitsInit ==
  /\ counted = [k \in Kinds |-> 0]
  /\ size = [r \in Regions |-> 0]

\* MUTANT: the ceiling of StoreLimits::memory_size, one region at a time.
Charge_PerRegion(r, n) == n

\* What the total would be if region r became n large.
Charge(r, n) == counted[KindOf[r]] + (n - size[r])

\* admit: only what is granted is counted.
Admits(r, n) == Charge(r, n) <= Cap[KindOf[r]]

\* wasmtime may still fail a growth that was granted, for want of address space
\* or beyond the region's own maximum; PackLimits does not hear of it.
Grant(r, n) ==
  /\ n > size[r]
  /\ Admits(r, n)
  /\ counted' = [counted EXCEPT ![KindOf[r]] = Charge(r, n)]
  /\ size' \in {size, [size EXCEPT ![r] = n]}

Refuse(r, n) ==
  /\ n > size[r]
  /\ ~Admits(r, n)
  /\ UNCHANGED limitVars

-----------------------------------------------------------------------------
\* Every unit of memory, or every table element, the store holds.
Units(k) == UNION {{r} \X (1..size[r]) : r \in {r \in Regions : KindOf[r] = k}}

\* A store never holds more memory, or more table elements, than its ceiling,
\* summed over all its regions, and the running total never falls short of what
\* is held, although a growth that fails after it was granted stays counted.
WithinBudget == \A k \in Kinds : Cardinality(Units(k)) <= counted[k] /\ counted[k] <= Cap[k]
=============================================================================
