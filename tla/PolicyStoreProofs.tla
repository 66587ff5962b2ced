-------------------------- MODULE PolicyStoreProofs --------------------------
(***************************************************************************)
(* The stored policy row is always one the sandbox understands, edits of   *)
(* different columns never overwrite each other, and only an operator      *)
(* tightens it: for any number of patches, old rows and restarts.          *)
(***************************************************************************)
EXTENDS PolicyStore, TLAPS

\* The columns of the defaults are the columns of every policy.
LEMMA ColumnNames ==
  Columns = {"actions", "channels", "maxDiscount", "ceiling", "partial", "minPct"}
BY PolicyAssumption DEF Columns, PolicyType

\* A policy, column by column.
LEMMA PolicyColumns ==
  ASSUME NEW p
  PROVE  p \in PolicyType(Nat) <=>
           /\ p = [c \in Columns |-> p[c]]
           /\ p["actions"] \in SUBSET Actions /\ p["channels"] \in SUBSET Channels
           /\ p["maxDiscount"] \in 0..100 /\ p["ceiling"] \in Nat \cup {None}
           /\ p["partial"] \in BOOLEAN /\ p["minPct"] \in 0..100
BY ColumnNames DEF PolicyType

LEMMA PolicyDomain ==
  ASSUME NEW p \in PolicyType(Nat)
  PROVE  DOMAIN p = Columns
BY ColumnNames DEF PolicyType

\* What a patch may hold.
PatchFits(x) ==
  /\ DOMAIN x \subseteq Columns
  /\ "ceiling" \in DOMAIN x => x["ceiling"] \in Int
  /\ "partial" \in DOMAIN x => x["partial"] \in BOOLEAN

\* A patch that is checked leaves a valid row, whatever was loaded before it.
LEMMA PatchedType ==
  ASSUME NEW o, row \in PolicyType(Nat), PatchFits(patch[o]), Valid(patch[o])
  PROVE  /\ Patched(o) \in PolicyType(Nat)
         /\ \A c \in Columns \ DOMAIN patch[o] : Patched(o)[c] = row[c]
         /\ \A c \in DOMAIN patch[o] :
              Patched(o)[c] = Flush(loaded[o][c], patch[o][c], row[c])
<1> DEFINE q == Patched(o)
           x == patch[o]
<1>1. DOMAIN row = Columns
  BY PolicyDomain
<1>2. /\ q = [c \in Columns |-> q[c]]
      /\ \A c \in Columns : q[c] = IF c \in DOMAIN x THEN Flush(loaded[o][c], x[c], row[c])
                                   ELSE row[c]
  BY <1>1 DEF Patched
<1>3. \A c \in Columns : q[c] = row[c] \/ (c \in DOMAIN x /\ q[c] = x[c])
  BY <1>2 DEF Flush
<1>4. /\ row["actions"] \in SUBSET Actions /\ row["channels"] \in SUBSET Channels
      /\ row["maxDiscount"] \in 0..100 /\ row["ceiling"] \in Nat \cup {None}
      /\ row["partial"] \in BOOLEAN /\ row["minPct"] \in 0..100
  BY PolicyColumns
<1>5. /\ "actions" \in DOMAIN x => x["actions"] \in SUBSET Actions
      /\ "channels" \in DOMAIN x => x["channels"] \in SUBSET Channels
      /\ "maxDiscount" \in DOMAIN x => x["maxDiscount"] \in 0..100
      /\ "ceiling" \in DOMAIN x => x["ceiling"] \in Nat
      /\ "partial" \in DOMAIN x => x["partial"] \in BOOLEAN
      /\ "minPct" \in DOMAIN x => x["minPct"] \in 0..100
  BY DEF Valid, PatchFits
<1>6. q \in PolicyType(Nat)
  <2> HIDE DEF q, x
  <2>1. /\ q["actions"] \in SUBSET Actions /\ q["channels"] \in SUBSET Channels
        /\ q["maxDiscount"] \in 0..100 /\ q["ceiling"] \in Nat \cup {None}
        /\ q["partial"] \in BOOLEAN /\ q["minPct"] \in 0..100
    BY <1>3, <1>4, <1>5, ColumnNames
  <2> QED
    BY <1>2, <2>1, PolicyColumns
<1> QED
  BY <1>2, <1>6 DEF PatchFits

LEMMA BackfilledPolicy ==
  ASSUME NEW p \in PolicyType(Nat)
  PROVE  Backfilled(p) \in PolicyType(Nat)
BY DEF Backfilled, BackfillActions, PolicyType, Actions

\* The defaults complete an old row, and leave a complete one alone.
LEMMA CompletedPolicy ==
  ASSUME NEW p \in PolicyType(Nat) \cup Legacy
  PROVE  /\ Completed(p) \in PolicyType(Nat)
         /\ Whole(p) => p \in PolicyType(Nat)
<1>1. CASE p \in PolicyType(Nat)
  <2>1. DOMAIN p = Columns /\ p = [c \in Columns |-> p[c]]
    BY <1>1, PolicyDomain, PolicyColumns
  <2>2. Completed(p) = p
    BY <2>1 DEF Completed
  <2> QED
    BY <1>1, <2>2
<1>2. CASE p \in Legacy
  <2>1. Completed(p) \in PolicyType(Nat)
    BY <1>2, PolicyAssumption
  <2>2. Whole(p) => p = [c \in DOMAIN p |-> p[c]]
    BY <1>2, PolicyAssumption
  <2>3. Whole(p) => Completed(p) = p
    BY <2>2 DEF Completed, Whole
  <2> QED
    BY <2>1, <2>3
<1> QED
  BY <1>1, <1>2

-----------------------------------------------------------------------------
(* An edit is only in hand while the process serves requests, and then the *)
(* row it loaded was complete.                                             *)
LoadedWhole == \A o \in Editors :
  step[o] = "loaded" => up /\ loaded[o] \in PolicyType(Nat) /\ patch[o] \in Patches

StoreInv == TypeOK /\ LoadedWhole

\* Any sequence of seeding, editing and restarting keeps the row valid.
LEMMA InitStore == Init => StoreInv
<1> SUFFICES ASSUME Init PROVE StoreInv
  OBVIOUS
<1>1. restarts \in 0..MaxRestarts
  BY PolicyAssumption DEF Init
<1> QED
  BY <1>1 DEF Init, StoreInv, TypeOK, LoadedWhole

LEMMA PatchesFit == \A x \in Patches : PatchFits(x)
<1>1. DOMAIN Defaults = Columns
  BY PolicyAssumption, PolicyDomain
<1> QED
  BY <1>1, PolicyAssumption DEF PatchFits

LEMMA NextStore == StoreInv /\ [Next]_vars => StoreInv'
<1> SUFFICES ASSUME StoreInv, [Next]_vars PROVE StoreInv'
  OBVIOUS
<1> USE DEF StoreInv, LoadedWhole
<1>1. ASSUME Seed PROVE StoreInv'
  BY <1>1, PolicyAssumption DEF Seed, TypeOK, edit
<1>2. ASSUME Complete PROVE StoreInv'
  <2>1. row \in PolicyType(Nat) \cup Legacy
    BY <1>2 DEF Complete, TypeOK
  <2>2. row' \in PolicyType(Nat)
    BY <1>2, <2>1, CompletedPolicy DEF Complete
  <2> QED
    BY <1>2, <2>2 DEF Complete, TypeOK, edit
<1>3. ASSUME Backfill PROVE StoreInv'
  <2>1. row \in PolicyType(Nat)
    <3>1. row \in PolicyType(Nat) \cup Legacy
      BY <1>3 DEF Backfill, TypeOK
    <3> QED
      BY <1>3, <3>1, CompletedPolicy DEF Backfill
  <2>2. row' \in PolicyType(Nat)
    BY <1>3, <2>1, BackfilledPolicy DEF Backfill
  <2> QED
    BY <1>3, <2>2 DEF Backfill, TypeOK, edit
<1>4. ASSUME NEW o \in Editors, NEW x \in Patches, Load(o, x) PROVE StoreInv'
  <2>1. row \in PolicyType(Nat)
    BY <1>4 DEF Load, TypeOK
  <2> QED
    BY <1>4, <2>1 DEF Load, TypeOK
<1>5. ASSUME NEW o \in Editors, Save(o) PROVE StoreInv'
  <2>1. row \in PolicyType(Nat) /\ up
    BY <1>5 DEF Save, TypeOK
  <2>2. row' \in PolicyType(Nat)
    BY <1>5, <2>1, PatchedType, PatchesFit DEF Save
  <2> QED
    BY <1>5, <2>1, <2>2 DEF Save, TypeOK
<1>6. ASSUME NEW o \in Editors, Reject(o) PROVE StoreInv'
  BY <1>6 DEF Reject, TypeOK
<1>7. ASSUME Restart PROVE StoreInv'
  <2>1. restarts' \in 0..MaxRestarts
    BY <1>7, PolicyAssumption DEF Restart, TypeOK
  <2>2. /\ step' \in [Editors -> {"idle", "loaded", "saved", "rejected"}]
        /\ \A o \in Editors : step'[o] # "loaded"
    BY <1>7 DEF Restart, TypeOK
  <2> QED
    BY <1>7, <2>1, <2>2 DEF Restart, TypeOK
<1>8. ASSUME UNCHANGED vars PROVE StoreInv'
  BY <1>8 DEF vars, edit, TypeOK
<1> QED
  BY <1>1, <1>2, <1>3, <1>4, <1>5, <1>6, <1>7, <1>8 DEF Next

\* The stored row, the edits in hand and the restarts keep their types, whatever
\* the patches ask for.
THEOREM StoreTyped == Spec => []TypeOK
<1>1. Init => StoreInv
  BY InitStore
<1>2. StoreInv /\ [Next]_vars => StoreInv'
  BY NextStore
<1>3. StoreInv => TypeOK
  BY DEF StoreInv
<1> QED
  BY <1>1, <1>2, <1>3, PTL DEF Spec
-----------------------------------------------------------------------------
(* A saved edit found a complete row, so only a restart can touch it again *)
(* without an operator; and a session finds every column as it loaded it,  *)
(* or as an edit saved meanwhile names it.                                 *)
SavedWhole == \A o \in Editors :
  step[o] = "saved" => /\ patch[o] \in Patches /\ row \in PolicyType(Nat)
                       /\ up \/ restarts > 0

NamedByOther(o, c) == \E q \in Editors \ {o} : step[q] = "saved" /\ c \in DOMAIN patch[q]

Unshadowed == \A o \in Editors : step[o] = "loaded" =>
  \A c \in Columns : row[c] = loaded[o][c] \/ NamedByOther(o, c)

EditsInv == StoreInv /\ SavedWhole /\ Unshadowed /\ DisjointEditsBothLand

LEMMA InitEdits == Init => EditsInv
<1> SUFFICES ASSUME Init PROVE EditsInv
  OBVIOUS
<1>1. StoreInv
  BY InitStore
<1>2. \A o \in Editors : step[o] = "idle"
  BY DEF Init
<1> QED
  BY <1>1, <1>2 DEF EditsInv, SavedWhole, Unshadowed, DisjointEditsBothLand

\* An edit that touches no column of the row leaves what is saved in force, as long
\* as no saved edit is taken back.
LEMMA SameRow ==
  ASSUME EditsInv, row' = row, patch' = patch, restarts' >= restarts, up => up' \/ restarts' > 0,
         restarts' \in Nat,
         \A o \in Editors : /\ step'[o] = "saved" <=> step[o] = "saved"
                            /\ step'[o] = "loaded" => step[o] = "loaded",
         loaded' = loaded, StoreInv'
  PROVE  EditsInv'
<1> USE DEF EditsInv
<1>0. restarts \in Nat
  BY PolicyAssumption DEF StoreInv, TypeOK
<1>1. SavedWhole'
  BY <1>0 DEF SavedWhole
<1>2. Unshadowed'
  BY DEF Unshadowed, NamedByOther
<1>3. DisjointEditsBothLand'
  <2>1. \A o \in Editors : \A c : c \in DOMAIN patch[o] /\ step[o] = "saved" =>
          \/ row[c] = patch[o][c]
          \/ \E other \in Editors \ {o} : step[other] = "saved" /\ c \in DOMAIN patch[other]
          \/ c = "actions" /\ restarts > 0 /\ patch[o][c] \subseteq row[c]
    BY DEF DisjointEditsBothLand
  <2> QED
    BY <1>0, <2>1 DEF DisjointEditsBothLand
<1> QED
  BY <1>1, <1>2, <1>3
\* The row is absent or incomplete only before any edit was saved.
LEMMA NotWhole ==
  ASSUME EditsInv, row \notin PolicyType(Nat)
  PROVE  \A o \in Editors : step[o] # "saved"
BY DEF EditsInv, SavedWhole

\* A startup commit finds no edit in hand: what is saved stays in force as long as
\* the row stays whole and keeps or extends its columns.
LEMMA StartupKeeps ==
  ASSUME EditsInv, ~up, StoreInv', UNCHANGED <<edit, restarts>>,
         \/ \A o \in Editors : step[o] # "saved"
         \/ /\ row' \in PolicyType(Nat) /\ row["actions"] \subseteq row'["actions"]
            /\ \A c \in Columns \ {"actions"} : row'[c] = row[c]
  PROVE  EditsInv'
<1> USE DEF EditsInv, edit
<1>1. \A o \in Editors : step[o] # "loaded"
  BY DEF StoreInv, LoadedWhole
<1>2. SavedWhole'
  BY DEF SavedWhole
<1>3. Unshadowed'
  BY <1>1 DEF Unshadowed
<1>4. DisjointEditsBothLand'
  <2> SUFFICES ASSUME NEW o \in Editors, step[o] = "saved", NEW c \in DOMAIN patch[o],
                      ~ \E other \in Editors \ {o} :
                          step[other] = "saved" /\ c \in DOMAIN patch[other]
               PROVE  \/ row'[c] = patch[o][c]
                      \/ (c = "actions" /\ restarts > 0 /\ patch[o][c] \subseteq row'[c])
    BY DEF DisjointEditsBothLand
  <2>1. restarts > 0 /\ c \in Columns
    BY PatchesFit DEF SavedWhole, PatchFits
  <2>2. row[c] = patch[o][c] \/ (c = "actions" /\ patch[o][c] \subseteq row[c])
    BY DEF DisjointEditsBothLand
  <2> QED
    BY <2>1, <2>2
<1> QED
  BY <1>2, <1>3, <1>4

LEMMA SaveKeeps ==
  ASSUME EditsInv, NEW o \in Editors, Save(o), StoreInv'
  PROVE  EditsInv'
<1> USE DEF EditsInv
<1>1. /\ row \in PolicyType(Nat) /\ patch[o] \in Patches /\ up
      /\ step \in [Editors -> {"idle", "loaded", "saved", "rejected"}]
  BY DEF Save, StoreInv, LoadedWhole, TypeOK
<1>2. /\ row' \in PolicyType(Nat)
      /\ \A c \in Columns \ DOMAIN patch[o] : row'[c] = row[c]
      /\ \A c \in DOMAIN patch[o] : row'[c] = Flush(loaded[o][c], patch[o][c], row[c])
  BY <1>1, PatchedType, PatchesFit DEF Save
<1>3. /\ step'[o] = "saved" /\ up' = up /\ patch' = patch /\ loaded' = loaded
      /\ restarts' = restarts
      /\ \A q \in Editors \ {o} : step'[q] = step[q]
  BY <1>1 DEF Save
<1>4. \A q \in Editors : step'[q] = "saved" => patch[q] \in Patches
  BY <1>1, <1>3 DEF SavedWhole
<1>5. SavedWhole'
  BY <1>1, <1>2, <1>3, <1>4 DEF SavedWhole
<1>6. \A q \in Editors : \A c : NamedByOther(q, c) => NamedByOther(q, c)'
  BY <1>3 DEF NamedByOther
<1>7. Unshadowed'
  <2> SUFFICES ASSUME NEW q \in Editors, step'[q] = "loaded", NEW c \in Columns
               PROVE  row'[c] = loaded[q][c] \/ NamedByOther(q, c)'
    BY <1>3 DEF Unshadowed
  <2>1. q # o /\ step[q] = "loaded"
    BY <1>3
  <2>2. CASE c \in DOMAIN patch[o]
    BY <1>3, <2>1, <2>2 DEF NamedByOther
  <2>3. CASE c \notin DOMAIN patch[o]
    BY <1>2, <1>6, <2>1, <2>3 DEF Unshadowed
  <2> QED
    BY <2>2, <2>3
<1>8. DisjointEditsBothLand'
  <2> SUFFICES ASSUME NEW q \in Editors, step'[q] = "saved", NEW c \in DOMAIN patch[q],
                      ~ NamedByOther(q, c)'
               PROVE  \/ row'[c] = patch[q][c]
                      \/ (c = "actions" /\ restarts > 0 /\ patch[q][c] \subseteq row'[c])
    BY <1>3 DEF DisjointEditsBothLand, NamedByOther
  <2>1. c \in Columns
    BY <1>4, PatchesFit DEF PatchFits
  <2>2. ~ NamedByOther(q, c)
    BY <1>6
  <2>3. CASE q = o
    \* the value it loaded is still there, so leaving the column alone is the same
    <3>1. row[c] = loaded[o][c]
      BY <2>1, <2>2, <2>3 DEF Save, Unshadowed
    <3> QED
      BY <1>2, <2>3, <3>1 DEF Flush
  <2>4. CASE q # o
    <3>1. c \notin DOMAIN patch[o] /\ step[q] = "saved"
      BY <1>3, <2>4 DEF NamedByOther
    <3>2. row'[c] = row[c]
      BY <1>2, <2>1, <3>1
    <3> QED
      BY <2>2, <3>1, <3>2 DEF DisjointEditsBothLand, NamedByOther
  <2> QED
    BY <2>3, <2>4
<1> QED
  BY <1>5, <1>7, <1>8

LEMMA NextEdits == EditsInv /\ [Next]_vars => EditsInv'
<1> SUFFICES ASSUME EditsInv, [Next]_vars PROVE EditsInv'
  OBVIOUS
<1>0. StoreInv' /\ restarts \in Nat
  BY NextStore, PolicyAssumption DEF EditsInv, StoreInv, TypeOK
<1>1. ASSUME Seed PROVE EditsInv'
  <2>1. row \notin PolicyType(Nat)
    BY <1>1 DEF Seed, NoRow, PolicyType
  <2> QED
    BY <1>0, <1>1, <2>1, NotWhole, StartupKeeps DEF Seed
<1>2. ASSUME Complete PROVE EditsInv'
  <2>1. row \notin PolicyType(Nat)
    BY <1>2, PolicyDomain DEF Complete, Whole
  <2> QED
    BY <1>0, <1>2, <2>1, NotWhole, StartupKeeps DEF Complete
<1>3. ASSUME Backfill PROVE EditsInv'
  <2>1. CASE row \in PolicyType(Nat)
    <3>1. row' \in PolicyType(Nat)
      BY <1>3, <2>1, BackfilledPolicy DEF Backfill
    <3>2. /\ row["actions"] \subseteq row'["actions"]
          /\ \A c \in Columns \ {"actions"} : row'[c] = row[c]
      <4>1. DOMAIN row = Columns /\ row' = [row EXCEPT !.actions = @ \cup BackfillActions]
        BY <1>3, <2>1, PolicyDomain DEF Backfill, Backfilled
      <4>2. row'["actions"] = row["actions"] \cup BackfillActions
        BY <4>1, ColumnNames
      <4> QED
        BY <4>1, <4>2
    <3> QED
      BY <1>0, <1>3, <3>1, <3>2, StartupKeeps DEF Backfill
  <2>2. CASE row \notin PolicyType(Nat)
    BY <1>0, <1>3, <2>2, NotWhole, StartupKeeps DEF Backfill
  <2> QED
    BY <2>1, <2>2
<1>4. ASSUME NEW o \in Editors, NEW x \in Patches, Load(o, x) PROVE EditsInv'
  <2> USE DEF EditsInv
  <2>1. /\ step[o] = "idle" /\ step'[o] = "loaded" /\ loaded'[o] = row
        /\ \A q \in Editors \ {o} : /\ step'[q] = step[q] /\ patch'[q] = patch[q]
                                    /\ loaded'[q] = loaded[q]
        /\ row' = row /\ up' = up /\ restarts' = restarts
    BY <1>4 DEF Load, StoreInv, TypeOK
  <2>2. SavedWhole'
    BY <2>1 DEF SavedWhole
  <2>3. Unshadowed'
    BY <2>1 DEF Unshadowed, NamedByOther
  <2>4. \A q \in Editors : step'[q] = "saved" =>
          /\ q # o /\ step[q] = "saved" /\ patch'[q] = patch[q]
    BY <2>1
  <2>5. \A q \in Editors : step[q] = "saved" =>
          step'[q] = "saved" /\ patch'[q] = patch[q]
    BY <2>1
  <2>6. DisjointEditsBothLand'
    BY <2>1, <2>4, <2>5 DEF DisjointEditsBothLand
  <2> QED
    BY <1>0, <2>2, <2>3, <2>6
<1>5. ASSUME NEW o \in Editors, Save(o) PROVE EditsInv'
  BY <1>0, <1>5, SaveKeeps
<1>6. ASSUME NEW o \in Editors, Reject(o) PROVE EditsInv'
  BY <1>0, <1>6, SameRow DEF Reject, EditsInv, StoreInv, TypeOK
<1>7. ASSUME Restart PROVE EditsInv'
  <2>1. \A o \in Editors : /\ step'[o] = "saved" <=> step[o] = "saved"
                           /\ step'[o] = "loaded" => step[o] = "loaded"
    BY <1>7 DEF Restart, EditsInv, StoreInv, TypeOK
  <2> QED
    BY <1>0, <1>7, <2>1, SameRow DEF Restart
<1>8. ASSUME UNCHANGED vars PROVE EditsInv'
  BY <1>0, <1>8, SameRow DEF vars, edit
<1> QED
  BY <1>1, <1>2, <1>3, <1>4, <1>5, <1>6, <1>7, <1>8 DEF Next

\* However their sessions overlap and whenever the process restarts, saved edits of
\* different columns are all in force.
THEOREM EditsLand == Spec => []DisjointEditsBothLand
<1>1. Init => EditsInv
  BY InitEdits
<1>2. EditsInv /\ [Next]_vars => EditsInv'
  BY NextEdits
<1>3. EditsInv => DisjointEditsBothLand
  BY DEF EditsInv
<1> QED
  BY <1>1, <1>2, <1>3, PTL DEF Spec
-----------------------------------------------------------------------------
\* A step that forbids what a complete row allowed saves an operator's edit.
LEMMA TighterStep ==
  StoreInv /\ [Next]_vars =>
    (row # NoRow /\ Whole(row) /\ Tighter(row, row') =>
       \E o \in Editors : step'[o] = "saved" /\ step[o] # "saved")
<1> SUFFICES ASSUME StoreInv, [Next]_vars, row # NoRow, Whole(row), Tighter(row, row')
             PROVE  \E o \in Editors : step'[o] = "saved" /\ step[o] # "saved"
  OBVIOUS
<1>1. row \in PolicyType(Nat)
  BY CompletedPolicy DEF StoreInv, TypeOK
<1>2. ~ Tighter(row, row)
  BY <1>1 DEF Tighter, PolicyType
<1>3. row' # row
  BY <1>2
<1>4. ~Backfill
  <2> SUFFICES ASSUME Backfill PROVE FALSE
    OBVIOUS
  <2>1. /\ row.actions \subseteq row'.actions /\ row'.channels = row.channels
        /\ row'.maxDiscount = row.maxDiscount /\ row'.minPct = row.minPct
        /\ row'.partial = row.partial
    BY <1>1 DEF Backfill, Backfilled, PolicyType
  <2> QED
    BY <1>1, <2>1 DEF Tighter, PolicyType
<1>5. PICK o \in Editors : Save(o)
  BY <1>3, <1>4 DEF Next, vars, Seed, Complete, Restart, Load, Reject
<1> QED
  BY <1>5 DEF Save, StoreInv, TypeOK

\* Restarts and the commits of startup never take away what the merchant allowed.
THEOREM OperatorsTighten == Spec => OnlyOperatorsTighten
<1>1. Init => StoreInv
  BY InitStore
<1>2. StoreInv /\ [Next]_vars => StoreInv'
  BY NextStore
<1>3. StoreInv /\ [Next]_vars =>
        [row # NoRow /\ Whole(row) /\ Tighter(row, row') =>
           \E o \in Editors : step'[o] = "saved" /\ step[o] # "saved"]_vars
  BY TighterStep
<1> QED
  BY <1>1, <1>2, <1>3, PTL DEF Spec, OnlyOperatorsTighten
=============================================================================
