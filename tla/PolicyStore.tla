----------------------------- MODULE PolicyStore -----------------------------
(***************************************************************************)
(* The merchant_policy row: PATCH /policy requests editing it in sessions  *)
(* of their own, and the startup code that seeds and backfills it before   *)
(* any request is served (operations/policy_repository.py, server.py).     *)
(***************************************************************************)
EXTENDS PolicySandbox

CONSTANTS
  Editors,      \* PATCH requests
  Patches,      \* what they may ask for: column -> value, named columns only
  Defaults,     \* configuration/merchant_rules.json
  Legacy,       \* rows an older deployment may have left in the database; a
                \* partial-payment column that is empty is not in the domain
  MaxRestarts   \* bound: process restarts

NoRow == [columns |-> "none"]
Columns == DOMAIN Defaults

\* _row gives each empty column its default, whatever the other one holds.
Completed(r) == [c \in Columns |-> IF c \in DOMAIN r THEN r[c] ELSE Defaults[c]]
Whole(r)     == DOMAIN r = Columns

ASSUME PolicyAssumption ==
  /\ Defaults \in PolicyType(Nat)
  /\ \A x \in Legacy : /\ x = [c \in DOMAIN x |-> x[c]]
                      /\ DOMAIN x \cup {"partial", "minPct"} = Columns
                      /\ Completed(x) \in PolicyType(Nat)
  /\ \A x \in Patches :      \* the types of PolicyPatch
       /\ DOMAIN x \subseteq Columns
       /\ "ceiling" \in DOMAIN x => x["ceiling"] \in Int
       /\ "partial" \in DOMAIN x => x["partial"] \in BOOLEAN
  /\ MaxRestarts \in Nat

VARIABLES
  row,       \* the stored policy, or NoRow
  up,        \* the process serves requests
  step,      \* Editors -> "idle", "loaded", "saved" or "rejected"
  patch,     \* Editors -> the patch in hand
  loaded,    \* Editors -> the row as that session loaded it
  restarts

edit == <<step, patch, loaded>>
vars == <<row, up, edit, restarts>>

Nothing == [x \in {} |-> x]

Init ==
  /\ row \in Legacy \cup {NoRow} /\ up = FALSE
  /\ step = [o \in Editors |-> "idle"] /\ patch = [o \in Editors |-> Nothing]
  /\ loaded = [o \in Editors |-> NoRow] /\ restarts = 0
-----------------------------------------------------------------------------
\* _row: an absent row is inserted with the defaults, in a commit of its own.
Seed ==
  /\ ~up /\ row = NoRow
  /\ row' = Defaults
  /\ UNCHANGED <<up, edit, restarts>>

\* _row: the empty columns of an older row get the defaults, in another commit.
Complete ==
  /\ ~up /\ row # NoRow /\ ~Whole(row)
  /\ row' = Completed(row)
  /\ UNCHANGED <<up, edit, restarts>>

Backfill ==
  /\ ~up /\ row # NoRow /\ Whole(row)
  /\ row' = Backfilled(row) /\ up' = TRUE
  /\ UNCHANGED <<edit, restarts>>

Load(o, x) ==
  /\ up /\ step[o] = "idle"
  /\ step' = [step EXCEPT ![o] = "loaded"]
  /\ patch' = [patch EXCEPT ![o] = x]
  /\ loaded' = [loaded EXCEPT ![o] = row]
  /\ UNCHANGED <<row, up, restarts>>

\* Mutant of Valid: nothing is checked.
ValidAlways(x) == TRUE
Valid(x) ==
  \A c \in DOMAIN x :
    /\ c \in {"maxDiscount", "minPct"} => x[c] \in 0..100
    /\ c = "ceiling" => x[c] >= 0
    /\ c = "actions" => x[c] \subseteq Actions
    /\ c = "channels" => x[c] \subseteq Channels

\* Mutant of Patched: the session writes back every column it loaded.
PatchedWholeRow(o) ==
  [c \in DOMAIN row |-> IF c \in DOMAIN patch[o] THEN patch[o][c] ELSE loaded[o][c]]
Patched(o) ==
  [c \in DOMAIN row |-> IF c \in DOMAIN patch[o]
                        THEN Flush(loaded[o][c], patch[o][c], row[c]) ELSE row[c]]

Save(o) ==
  /\ step[o] = "loaded" /\ Valid(patch[o])
  /\ row' = Patched(o)
  /\ step' = [step EXCEPT ![o] = "saved"]
  /\ UNCHANGED <<up, patch, loaded, restarts>>

\* The columns assigned before the offending one go with the session.
Reject(o) ==
  /\ step[o] = "loaded" /\ ~Valid(patch[o])
  /\ step' = [step EXCEPT ![o] = "rejected"]
  /\ UNCHANGED <<row, up, patch, loaded, restarts>>

\* Edits in flight are gone with the process; the operator may send them again.
Restart ==
  /\ restarts < MaxRestarts
  /\ up' = FALSE /\ restarts' = restarts + 1
  /\ step' = [o \in Editors |-> IF step[o] = "loaded" THEN "idle" ELSE step[o]]
  /\ UNCHANGED <<row, patch, loaded>>

Next ==
  \/ Seed \/ Complete \/ Backfill \/ Restart
  \/ \E o \in Editors, x \in Patches : Load(o, x)
  \/ \E o \in Editors : Save(o) \/ Reject(o)

Spec == Init /\ [][Next]_vars
-----------------------------------------------------------------------------
\* Whatever the patches ask for, concurrently or in one body with good columns,
\* the stored row is one the sandbox understands.
TypeOK ==
  /\ row \in PolicyType(Nat) \cup Legacy \cup {NoRow}
  /\ up \in BOOLEAN /\ (up => row \in PolicyType(Nat)) /\ restarts \in 0..MaxRestarts
  /\ step \in [Editors -> {"idle", "loaded", "saved", "rejected"}]
  /\ patch \in [Editors -> Patches \cup {Nothing}]
  /\ loaded \in [Editors -> PolicyType(Nat) \cup {NoRow}]

\* An edit that was saved is still in force in every column that no other saved
\* edit names: edits of different columns never overwrite each other, however
\* their sessions overlap.  The allowlist may also be extended by a restart.
DisjointEditsBothLand ==
  \A o \in Editors : step[o] = "saved" => \A c \in DOMAIN patch[o] :
    \/ row[c] = patch[o][c]
    \/ \E other \in Editors \ {o} : step[other] = "saved" /\ c \in DOMAIN patch[other]
    \/ c = "actions" /\ restarts > 0 /\ patch[o][c] \subseteq row[c]

Tighter(p, q) ==
  \/ p.actions \ q.actions # {} \/ p.channels \ q.channels # {}
  \/ q.maxDiscount < p.maxDiscount \/ q.minPct > p.minPct
  \/ (p.partial /\ ~q.partial)

\* Once there is a complete row, only an operator's saved edit forbids what it allowed: a
\* restart never does.
OnlyOperatorsTighten ==
  [][row # NoRow /\ Whole(row) /\ Tighter(row, row') =>
       \E o \in Editors : step'[o] = "saved" /\ step[o] # "saved"]_vars
=============================================================================
