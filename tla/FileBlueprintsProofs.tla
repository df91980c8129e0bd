------------------------ MODULE FileBlueprintsProofs -------------------------
(***************************************************************************)
(* What holds of file blueprints for all blueprints, trees, applies, acts  *)
(* of users and faults: no file is replaced unasked, no number is handed   *)
(* out twice, the row stays the user's, each but for the overlaps that the *)
(* model records, and the simulation is right.                             *)
(***************************************************************************)
EXTENDS FileBlueprints, FiniteSetTheorems, WellFoundedInduction, TLAPS

-----------------------------------------------------------------------------
(***************************************************************************)
(* The least of some numbers.                                              *)
(***************************************************************************)

\* Every set of natural numbers but the empty one has a least member.
LEMMA LeastNumber ==
  ASSUME NEW T \in SUBSET Nat, T # {}
  PROVE  \E n \in T : \A m \in T : n <= m
<1> DEFINE less == OpToRel(<, Nat)
<1>1. IsWellFoundedOn(less, Nat)
  BY NatLessThanWellFounded
<1>2. \A n, m \in Nat : n < m => <<n, m>> \in less
  BY DEF OpToRel
<1> HIDE DEF less
<1>3. PICK n \in T : \A m \in T : ~(<<m, n>> \in less)
  BY <1>1, WFMin
<1>4. \A m \in T : ~(m < n)
  BY <1>2, <1>3, Zenon
<1>5. QED BY <1>4, SMT

\* What resolve_conflict returns is free, unless it may overwrite.
LEMMA ResolvedIsFree ==
  ASSUME NEW target, blueprint.conflict # "overwrite", ResolveConflict(target).does = "act"
  PROVE  ResolveConflict(target).target \notin DOMAIN tree
<1> DEFINE free == {n \in 1..MaxSuffix : ~Exists(Suffixed(target, n))}
           least == CHOOSE n \in free : \A m \in free : n <= m
<1>1. free # {} => least \in free
  <2>1. free \in SUBSET Nat
    BY BoundsAssumption
  <2> HIDE DEF free
  <2>2. free # {} => \E n \in free : \A m \in free : n <= m
    BY <2>1, LeastNumber
  <2>3. QED BY <2>2
<1>2. free # {} => ~Exists(Suffixed(target, least))
  BY <1>1
<1> HIDE DEF free, least
<1>3. \/ ResolveConflict(target) = Act(target) /\ ~Exists(target)
      \/ ResolveConflict(target) \in {Skip, Fail}
      \/ free # {} /\ ResolveConflict(target) = Act(Suffixed(target, least))
  BY DEF ResolveConflict, free, least
<1>4. QED BY <1>2, <1>3 DEF Act, Skip, Fail, Exists

-----------------------------------------------------------------------------
(***************************************************************************)
(* Calls.                                                                  *)
(***************************************************************************)

Fields == {"at", "files", "plan", "k", "choice", "copy", "foretold", "solo"}

\* One record for each call.
IsCalls(calls) ==
  /\ calls = [a \in Applies |-> calls[a]]
  /\ \A a \in Applies : /\ calls[a] = [f \in Fields |-> calls[a][f]]

\* What the properties ask of a call that another one disturbs.
SameCall(old, new) == new.at = old.at /\ new.copy = old.copy /\ new.choice = old.choice

\* Disturbing calls only says that they are not alone.
LEMMA DisturbedCalls ==
  ASSUME NEW calls, IsCalls(calls), NEW a
  PROVE  /\ IsCalls(Disturbed(calls, a))
         /\ \A b \in Applies : SameCall(calls[b], Disturbed(calls, a)[b])
  BY DEF IsCalls, Disturbed, SameCall, Fields

\* The records that calls begin and end with.
LEMMA Records ==
  /\ Idle = [f \in Fields |-> Idle[f]] /\ Idle.at = "idle"
  /\ Over = [f \in Fields |-> Over[f]] /\ Over.at = "over"
  BY DEF Idle, Over, Fields

\* A call whose item was transferred.
Passed(c) == [c EXCEPT !.k = @ + 1, !.at = "look", !.choice = Skip]

\* A call that drew a number or transferred an item is neither in a transfer nor
\* about to save.
LEMMA DrawsOrTransfers ==
  ASSUME IsCalls(apply), NEW a \in Applies, Draw(a) \/ Transfer(a)
  PROVE  \E c : /\ c = [f \in Fields |-> c[f]] /\ c.at \notin {"save", "transfer"} /\ apply'[a] = c
                /\ \/ apply' = [apply EXCEPT ![a] = c]
                   \/ apply' = Disturbed([apply EXCEPT ![a] = c], a)
<1> DEFINE Rec(c) == c = [f \in Fields |-> c[f]]
<1>1. Rec(apply[a]) /\ apply = [b \in Applies |-> apply[b]]
  BY DEF IsCalls
<1>2. SUFFICES \E c : /\ Rec(c) /\ c.at \notin {"save", "transfer"}
                      /\ \/ apply' = [apply EXCEPT ![a] = c]
                         \/ apply' = Disturbed([apply EXCEPT ![a] = c], a)
  <2>1. ASSUME NEW c, \/ apply' = [apply EXCEPT ![a] = c]
                      \/ apply' = Disturbed([apply EXCEPT ![a] = c], a)
        PROVE  apply'[a] = c
    BY <1>1, <2>1 DEF Disturbed
  <2>2. QED BY <2>1
<1>3. CASE Draw(a)
  <2>1. PICK c : /\ c = Over \/ \E plan : c = Planned(a, plan)
                 /\ apply' = Disturbed([apply EXCEPT ![a] = c], a)
    <3> DEFINE file == apply[a].files[apply[a].k]
               plan == Listed(apply[a].plan, file, Destination(file, apply[a].k, Stored(ScopeKey(file.folder))))
    <3>1. apply' = Disturbed([apply EXCEPT ![a] = IF Usable(file) THEN Planned(a, plan) ELSE Over], a)
      BY <1>3, Zenon DEF Draw
    <3> HIDE DEF file, plan
    <3>2. CASE Usable(file)
      BY <3>1, <3>2
    <3>3. CASE ~Usable(file)
      BY <3>1, <3>3
    <3>4. QED BY <3>2, <3>3
  <2>2. ASSUME NEW plan PROVE Rec(Planned(a, plan)) /\ Planned(a, plan).at \in {"plan", "look"}
    <3> DEFINE old == apply[a]
    <3>1. Rec(old)
      BY <1>1
    <3> HIDE DEF old
    <3>2. ASSUME NEW k, NEW at \in {"plan", "look"}
          PROVE  LET d == [old EXCEPT !.plan = plan, !.k = k, !.at = at]
                 IN  Rec(d) /\ d.at \in {"plan", "look"}
      BY <3>1 DEF Fields
    <3>3. QED BY <3>2 DEF Planned, old
  <2>3. QED BY <2>1, <2>2, Records
<1>4. CASE Transfer(a)
  <2> DEFINE c == Passed(apply[a])
  <2>1. Rec(c) /\ c.at = "look"
    <3> DEFINE old == apply[a]
    <3>1. Rec(old)
      BY <1>1
    <3> HIDE DEF old
    <3>2. Rec(Passed(old)) /\ Passed(old).at = "look"
      BY <3>1 DEF Passed, Fields
    <3>3. QED BY <3>2 DEF old
  <2>2. [apply EXCEPT ![a].k = @ + 1, ![a].at = "look", ![a].choice = Skip] = [apply EXCEPT ![a] = c]
    BY <1>1 DEF Passed
  <2> HIDE DEF c
  <2>3. apply' = [apply EXCEPT ![a] = c] \/ apply' = Disturbed([apply EXCEPT ![a] = c], a)
    BY <1>4, <2>2 DEF Transfer
  <2>4. QED BY <2>1, <2>3
<1>5. QED BY <1>3, <1>4

\* A step of a call leaves the other calls as they are.
LEMMA OneCall ==
  ASSUME IsCalls(apply), NEW a \in Applies, ApplyStep(a)
  PROVE  IsCalls(apply') /\ \A b \in Applies \ {a} : SameCall(apply[b], apply'[b])
<1> DEFINE Rec(c) == c = [f \in Fields |-> c[f]]
<1>1. ASSUME NEW c, Rec(c), apply' = [apply EXCEPT ![a] = c]
      PROVE  IsCalls(apply') /\ \A b \in Applies \ {a} : SameCall(apply[b], apply'[b])
  BY <1>1 DEF IsCalls, SameCall
<1>2. ASSUME NEW c, Rec(c), apply' = Disturbed([apply EXCEPT ![a] = c], a)
      PROVE  IsCalls(apply') /\ \A b \in Applies \ {a} : SameCall(apply[b], apply'[b])
  <2> DEFINE calls == [apply EXCEPT ![a] = c]
  <2>1. IsCalls(calls) /\ \A b \in Applies \ {a} : calls[b] = apply[b]
    BY <1>2 DEF IsCalls
  <2>2. apply' = Disturbed(calls, a)
    BY <1>2
  <2> HIDE DEF calls
  <2>3. /\ IsCalls(Disturbed(calls, a))
        /\ \A b \in Applies : SameCall(calls[b], Disturbed(calls, a)[b])
    BY <2>1, DisturbedCalls
  <2>4. QED BY <2>1, <2>2, <2>3
<1>3. Rec(apply[a])
  BY DEF IsCalls
<1>4. CASE Begin(a)
  BY <1>1, <1>4, Records DEF Begin, Idle, Fields
<1>5. CASE Draw(a) \/ Transfer(a)
  BY <1>1, <1>2, <1>5, DrawsOrTransfers
<1>6. CASE NothingToPlan(a)
  BY <1>1, <1>3, <1>6 DEF NothingToPlan, Fields
<1>7. CASE Look(a)
  <2> DEFINE found == ResolveConflict(Item(a).target)
             choice ==
               IF found.does = "act" /\ ~blueprint.intermediate /\ found.target.folder \notin dirs
               THEN Fail ELSE found
  <2>1. apply' = [apply EXCEPT ![a] = IF choice.does = "act"
                    THEN [apply[a] EXCEPT !.at = "transfer", !.choice = choice]
                    ELSE [apply[a] EXCEPT !.k = apply[a].k + 1]]
    BY <1>7 DEF Look
  <2> HIDE DEF choice
  <2>2. CASE choice.does = "act"
    BY <1>1, <1>3, <2>1, <2>2 DEF Fields
  <2>3. CASE choice.does # "act"
    BY <1>1, <1>3, <2>1, <2>3 DEF Fields
  <2>4. QED BY <2>2, <2>3
<1>8. CASE Stops(a) \/ SaveLastRun(a)
  BY <1>1, <1>8, Records DEF Stops, SaveLastRun
<1>9. CASE ReadLastRun(a)
  BY <1>1, <1>9, Records DEF ReadLastRun, Fields, Idle
<1>10. QED BY <1>4, <1>5, <1>6, <1>7, <1>8, <1>9 DEF ApplyStep

\* The user, the second statement of a delete and midnight disturb calls at most.
LEMMA OutsideCalls ==
  ASSUME IsCalls(apply), UserActs \/ CountersDeleted \/ Midnight
  PROVE  IsCalls(apply') /\ \A b \in Applies : SameCall(apply[b], apply'[b])
<1>1. apply' = apply \/ apply' = Disturbed(apply, "user")
  BY DEF UserActs, UserEdits, UserDeletes, UserPuts, CountersDeleted, Midnight
<1>2. IsCalls(Disturbed(apply, "user"))
      /\ \A b \in Applies : SameCall(apply[b], Disturbed(apply, "user")[b])
  BY DisturbedCalls
<1>3. QED BY <1>1, <1>2 DEF SameCall

CallsInv == IsCalls(apply)

\* The first state has a record for each call, and so have the others.
LEMMA InitCalls == Init => CallsInv
  BY Records DEF Init, CallsInv, IsCalls

\* Every step keeps the records of the applies.
LEMMA CallsStep == CallsInv /\ [Next]_vars => CallsInv'
<1> SUFFICES ASSUME IsCalls(apply), [Next]_vars PROVE IsCalls(apply')
  BY DEF CallsInv
<1>1. CASE UNCHANGED vars
  BY <1>1 DEF vars
<1>2. QED BY <1>1, OneCall, OutsideCalls DEF Next

-----------------------------------------------------------------------------
(***************************************************************************)
(* The row.                                                                *)
(***************************************************************************)

\* What an apply is about to save is the row, unless the user acted meanwhile.
RowInv ==
  /\ RowIsAsked
  /\ \A a \in Applies : apply[a].at = "save" => apply[a].copy = row \/ overlapped

\* Every step keeps it.
LEMMA RowStep == CallsInv /\ RowInv /\ [Next]_vars => RowInv'
<1> SUFFICES ASSUME IsCalls(apply), RowInv, [Next]_vars PROVE RowInv'
  BY DEF CallsInv
<1>1. CASE UNCHANGED vars
  BY <1>1 DEF vars, RowInv, RowIsAsked, store, observed
<1>2. ASSUME NEW a \in Applies, ApplyStep(a) PROVE RowInv'
  <2>1. IsCalls(apply') /\ \A b \in Applies \ {a} : SameCall(apply[b], apply'[b])
    BY <1>2, OneCall
  <2>2. UNCHANGED <<asked, overlapped>>
    BY <1>2 DEF ApplyStep, Begin, Draw, NothingToPlan, Look, Transfer, ReadLastRun,
       SaveLastRun, Stops
  <2>3. CASE SaveLastRun(a)
    <3>1. row' = apply[a].copy /\ apply[a].at = "save" /\ apply'[a].at = "over"
      BY <2>3, Records DEF SaveLastRun, IsCalls
    <3>2. QED BY <2>1, <2>2, <3>1 DEF RowInv, RowIsAsked, SameCall
  <2>4. CASE ~SaveLastRun(a)
    <3>1. UNCHANGED row
      BY <1>2, <2>4 DEF ApplyStep, Begin, Draw, NothingToPlan, Look, Transfer, ReadLastRun, Stops
    <3>2. apply'[a].at = "save" => apply'[a].copy = row
      <4>1. CASE ReadLastRun(a)
        BY <4>1, Records DEF ReadLastRun, IsCalls, Idle
      <4>2. CASE Draw(a) \/ Transfer(a)
        BY <4>2, DrawsOrTransfers
      <4>3. CASE Begin(a) \/ NothingToPlan(a)
        <5>1. CASE Begin(a)
          BY <5>1, Records DEF Begin, IsCalls, Fields
        <5>2. CASE NothingToPlan(a)
          BY <5>2 DEF NothingToPlan, IsCalls, Fields
        <5>3. QED BY <4>3, <5>1, <5>2
      <4>4. CASE Stops(a)
        BY <4>4, Records DEF Stops, IsCalls
      <4>5. CASE Look(a)
        BY <4>5 DEF Look, IsCalls, Fields
      <4>6. QED BY <1>2, <2>4, <4>1, <4>2, <4>3, <4>4, <4>5 DEF ApplyStep
    <3>3. QED BY <2>1, <2>2, <3>1, <3>2 DEF RowInv, RowIsAsked, SameCall
  <2>5. QED BY <2>3, <2>4
<1>3. CASE UserActs \/ CountersDeleted \/ Midnight
  <2>1. \A b \in Applies : SameCall(apply[b], apply'[b])
    BY <1>3, OutsideCalls
  <2>2. \/ UNCHANGED <<row, asked, overlapped>>
        \/ row' = asked' /\ overlapped' = (overlapped \/ Holding)
    BY <1>3 DEF UserActs, UserEdits, UserDeletes, UserPuts, Asks, CountersDeleted, Midnight,
       store, observed
  <2>3. QED BY <2>1, <2>2 DEF RowInv, RowIsAsked, SameCall, Holding
<1>4. QED BY <1>1, <1>2, <1>3 DEF Next

\* The blueprint stays as the user left it, deleted too, but for an overlap with
\* the two statements of update_last_run.
THEOREM RowStaysAsked == Spec => []RowIsAsked
<1>1. Init => RowInv
  BY DEF Init, RowInv, RowIsAsked, Idle
<1>2. RowInv => RowIsAsked
  BY DEF RowInv
<1>3. QED BY <1>1, <1>2, InitCalls, CallsStep, RowStep, PTL DEF Spec

-----------------------------------------------------------------------------
(***************************************************************************)
(* The numbers.                                                            *)
(***************************************************************************)

\* A deleted blueprint that nobody applies stays away: its numbers end.
Dead == ~row.there /\ Working = {}

\* All numbers drawn under a key are below its counter.
Below == \A d \in drawn : d[1] \in DOMAIN counters /\ d[2] \in Nat /\ d[2] < counters[d[1]]

NumbersInv ==
  /\ blueprint \in Blueprints
  /\ counters \in [DOMAIN counters -> Nat]
  /\ orphaned \/ (~twice /\ (Dead \/ Below))

\* A drawn number is new, and its counter goes on above it.
LEMMA DrawStep ==
  ASSUME NumbersInv, IsCalls(apply), NEW a \in Applies, Draw(a), UNCHANGED <<blueprint, orphaned>>
  PROVE  NumbersInv'
<1> USE DEF NumbersInv
<1> DEFINE key == ScopeKey(apply[a].files[apply[a].k].folder)
           n == Stored(key)
<1>1. n \in Nat /\ (key \in DOMAIN counters => n = counters[key])
  BY BlueprintsAssumption DEF Stored
<1>2. /\ counters' = [k \in DOMAIN counters \cup {key} |-> IF k = key THEN n + 1 ELSE counters[k]]
      /\ drawn' = drawn \cup {<<key, n>>} /\ twice' = (twice \/ <<key, n>> \in drawn)
  BY DEF Draw, NextCounter
<1> HIDE DEF key, n
<1>3. counters' \in [DOMAIN counters' -> Nat]
  BY <1>1, <1>2
<1>4. ~Dead
  BY DEF Dead, Draw, Working
<1>5. Below => <<key, n>> \notin drawn
  BY <1>1 DEF Below
<1>6. Below => Below'
  <2>1. SUFFICES ASSUME Below, NEW d \in drawn'
                 PROVE  d[1] \in DOMAIN counters' /\ d[2] \in Nat /\ d[2] < counters'[d[1]]
    BY DEF Below
  <2>2. CASE d = <<key, n>>
    BY <1>1, <1>2, <2>2
  <2>3. CASE d \in drawn
    <3>1. d[1] \in DOMAIN counters /\ d[2] \in Nat /\ d[2] < counters[d[1]]
      BY <2>1, <2>3 DEF Below
    <3>2. counters[d[1]] \in Nat
      BY <3>1
    <3>3. CASE d[1] = key
      BY <1>1, <1>2, <3>1, <3>3
    <3>4. CASE d[1] # key
      BY <1>2, <3>1, <3>4
    <3>5. QED BY <3>3, <3>4
  <2>4. QED BY <1>2, <2>2, <2>3
<1>7. QED BY <1>2, <1>3, <1>4, <1>5, <1>6

\* The other steps draw nothing, and nobody wakes the dead.
LEMMA NumbersStep == CallsInv /\ NumbersInv /\ [Next]_vars => NumbersInv'
<1> SUFFICES ASSUME IsCalls(apply), NumbersInv, [Next]_vars PROVE NumbersInv'
  BY DEF CallsInv
<1> USE DEF NumbersInv
<1>1. CASE UNCHANGED vars
  BY <1>1 DEF vars, Dead, Below, Working, store, observed
<1>2. ASSUME NEW a \in Applies, ApplyStep(a) PROVE NumbersInv'
  <2>1. CASE Draw(a)
    BY <1>2, <2>1, DrawStep DEF ApplyStep
  <2>2. CASE ~Draw(a)
    <3>1. UNCHANGED <<blueprint, counters, drawn, twice, orphaned>>
      BY <1>2, <2>2 DEF ApplyStep, Begin, NothingToPlan, Look, Transfer, ReadLastRun,
         SaveLastRun, Stops
    <3>2. ~Dead
      BY <1>2, <2>2 DEF ApplyStep, Begin, NothingToPlan, Look, Transfer, ReadLastRun,
         SaveLastRun, Stops, Dead, Working
    <3>3. QED BY <3>1, <3>2 DEF Below
  <2>3. QED BY <2>1, <2>2
<1>3. CASE UserActs \/ Midnight
  <2>1. UNCHANGED <<blueprint, counters, drawn, twice, orphaned>> /\ (~row.there => UNCHANGED row)
    BY <1>3 DEF UserActs, UserEdits, UserDeletes, UserPuts, Midnight, store, observed
  <2>2. Working' = Working
    BY <1>3, OutsideCalls DEF Working, SameCall
  <2>3. QED BY <2>1, <2>2 DEF Dead, Below
<1>4. CASE CountersDeleted
  <2>1. /\ UNCHANGED <<blueprint, row, drawn, twice>>
        /\ \/ counters' = <<>> /\ orphaned' = (orphaned \/ row.there \/ Working # {})
           \/ UNCHANGED <<counters, orphaned>>
    BY <1>4 DEF CountersDeleted
  <2>2. Working' = Working
    BY <1>4, OutsideCalls DEF Working, SameCall
  <2>3. counters' \in [DOMAIN counters' -> Nat]
    <3>1. <<>> \in [DOMAIN <<>> -> Nat]
      OBVIOUS
    <3>2. QED BY <2>1, <3>1
  <2>4. QED BY <2>1, <2>2, <2>3 DEF Dead, Below
<1>5. QED BY <1>1, <1>2, <1>3, <1>4 DEF Next

\* No number is handed out twice under one key, whichever applies draw at a time,
\* unless the counters went while somebody still used the blueprint.
THEOREM NumbersAreUnique == Spec => []NumbersOnce
<1>1. Init => NumbersInv
  BY DEF Init, NumbersInv, Below
<1>2. NumbersInv => NumbersOnce
  BY DEF NumbersInv, NumbersOnce
<1>3. QED BY <1>1, <1>2, InitCalls, CallsStep, NumbersStep, PTL DEF Spec

-----------------------------------------------------------------------------
(***************************************************************************)
(* The files.                                                              *)
(***************************************************************************)

\* What an apply is about to write to is free.
TargetsFree == \A a \in Applies : apply[a].at = "transfer" => ~Exists(apply[a].choice.target)

FilesInv ==
  blueprint.conflict = "overwrite" \/ contested \/ (kept \subseteq Range(tree) /\ TargetsFree)

\* A file that goes to a free target replaces none.
LEMMA TransferKeeps ==
  ASSUME NEW source \in DOMAIN tree, NEW target, ~Exists(target)
  PROVE  Range(tree) \subseteq Range(Transferred(source, target))
<1> DEFINE new == Transferred(source, target)
<1>1. new[target] = tree[source] /\ target \in DOMAIN new
  BY DEF Transferred
<1>2. \A p \in DOMAIN tree \ {source} : p \in DOMAIN new /\ new[p] = tree[p]
  BY DEF Transferred, Exists
<1> HIDE DEF new
<1>3. \A p \in DOMAIN tree : \E q \in DOMAIN new : new[q] = tree[p]
  BY <1>1, <1>2
<1>4. QED BY <1>3 DEF new, Range

\* The look finds a target that is free at that moment.
LEMMA LookStep ==
  ASSUME IsCalls(apply), NEW a \in Applies, Look(a), blueprint.conflict # "overwrite",
         apply'[a].at = "transfer"
  PROVE  ~Exists(apply'[a].choice.target)
<1> DEFINE found == ResolveConflict(Item(a).target)
           choice ==
             IF found.does = "act" /\ ~blueprint.intermediate /\ found.target.folder \notin dirs
             THEN Fail ELSE found
<1>1. found.does = "act" => ~Exists(found.target)
  BY ResolvedIsFree DEF Exists
<1>2. choice.does = "act" => choice = found
  BY DEF Fail
<1>3. /\ apply[a].at = "look"
      /\ apply' = [apply EXCEPT ![a] = IF choice.does = "act"
                    THEN [apply[a] EXCEPT !.at = "transfer", !.choice = choice]
                    ELSE [apply[a] EXCEPT !.k = apply[a].k + 1]]
  BY DEF Look
<1> HIDE DEF found, choice
<1>4. choice.does = "act" /\ apply'[a].choice = choice
  BY <1>3 DEF IsCalls, Fields
<1>5. QED BY <1>1, <1>2, <1>4

\* Every step keeps the files.
LEMMA FilesStep == CallsInv /\ FilesInv /\ [Next]_vars => FilesInv'
<1> SUFFICES ASSUME IsCalls(apply), FilesInv, [Next]_vars PROVE FilesInv'
  BY DEF CallsInv
<1>1. CASE UNCHANGED vars
  BY <1>1 DEF vars, FilesInv, TargetsFree, Exists, Range, disk, observed
<1>2. ASSUME NEW a \in Applies, ApplyStep(a) PROVE FilesInv'
  <2>1. IsCalls(apply') /\ \A b \in Applies \ {a} : SameCall(apply[b], apply'[b])
    BY <1>2, OneCall
  <2>2. UNCHANGED <<blueprint, kept>>
    BY <1>2 DEF ApplyStep, Begin, Draw, NothingToPlan, Look, Transfer, ReadLastRun,
       SaveLastRun, Stops
  <2>3. CASE Look(a)
    <3>1. UNCHANGED <<tree, contested>>
      BY <2>3 DEF Look, disk
    <3>2. blueprint.conflict # "overwrite" /\ apply'[a].at = "transfer"
            => ~Exists(apply'[a].choice.target)
      BY <2>3, LookStep
    <3>3. QED BY <2>1, <2>2, <3>1, <3>2 DEF FilesInv, TargetsFree, SameCall, Exists, Range
  <2>4. CASE Transfer(a)
    <3>1. apply[a].at = "transfer" /\ apply'[a].at # "transfer"
      <4>1. apply'[a].at # "transfer"
        BY <2>4, DrawsOrTransfers
      <4>2. QED BY <2>4, <4>1, Zenon DEF Transfer
    <3>2. CASE UNCHANGED <<tree, contested>>
      BY <2>1, <2>2, <3>1, <3>2 DEF FilesInv, TargetsFree, SameCall, Exists, Range
    <3>3. CASE ~UNCHANGED <<tree, contested>>
      <4> DEFINE source == Item(a).source
                 target == apply[a].choice.target
      <4>1. /\ source \in DOMAIN tree /\ tree' = Transferred(source, target)
            /\ contested' = (contested \/ InTransfer(a))
        BY <2>4, <3>3 DEF Transfer, Exists
      <4>2. ~InTransfer(a) => TargetsFree'
        BY <2>1, <3>1 DEF InTransfer, TargetsFree, SameCall
      <4>3. TargetsFree => Range(tree) \subseteq Range(tree')
        BY <3>1, <4>1, TransferKeeps DEF TargetsFree
      <4>4. QED BY <2>2, <4>1, <4>2, <4>3 DEF FilesInv
    <3>4. QED BY <3>2, <3>3
  <2>5. CASE ~Look(a) /\ ~Transfer(a)
    <3>1. UNCHANGED <<tree, contested>>
      BY <1>2, <2>5 DEF ApplyStep, Begin, Draw, NothingToPlan, ReadLastRun, SaveLastRun, Stops,
         disk
    <3>2. apply'[a].at # "transfer"
      <4>1. CASE Draw(a)
        BY <4>1, DrawsOrTransfers
      <4>2. CASE Begin(a) \/ NothingToPlan(a) \/ ReadLastRun(a)
        <5>1. CASE Begin(a)
          BY <5>1, Records DEF Begin, IsCalls, Fields
        <5>2. CASE NothingToPlan(a)
          BY <5>2 DEF NothingToPlan, IsCalls, Fields
        <5>3. CASE ReadLastRun(a)
          BY <5>3, Records DEF ReadLastRun, IsCalls, Fields
        <5>4. QED BY <4>2, <5>1, <5>2, <5>3
      <4>3. CASE SaveLastRun(a) \/ Stops(a)
        BY <4>3, Records DEF SaveLastRun, Stops, IsCalls
      <4>4. QED BY <1>2, <2>5, <4>1, <4>2, <4>3 DEF ApplyStep
    <3>3. QED BY <2>1, <2>2, <3>1, <3>2 DEF FilesInv, TargetsFree, SameCall, Exists, Range
  <2>6. QED BY <2>3, <2>4, <2>5
<1>3. CASE UserActs \/ CountersDeleted \/ Midnight
  <2>1. \A b \in Applies : SameCall(apply[b], apply'[b])
    BY <1>3, OutsideCalls
  <2>2. CASE UNCHANGED <<blueprint, tree, kept, contested>>
    BY <2>1, <2>2 DEF FilesInv, TargetsFree, SameCall, Exists, Range
  <2>3. CASE ~UNCHANGED <<blueprint, tree, kept, contested>>
    <3>1. UNCHANGED blueprint /\ UserPuts
      BY <1>3, <2>3 DEF UserActs, UserEdits, UserDeletes, CountersDeleted, Midnight, disk,
         observed
    <3>2. PICK p \in UserPaths \ DOMAIN tree, c \in UserFiles \ kept :
            /\ tree' = [q \in DOMAIN tree \cup {p} |-> IF q = p THEN c ELSE tree[q]]
            /\ kept' = kept \cup {c}
      BY <3>1 DEF UserPuts
    <3>3. Range(tree') = Range(tree) \cup {c}
      BY <3>2 DEF Range
    <3>4. contested' = (contested \/ InTransfer("user"))
      BY <3>1 DEF UserPuts
    <3>5. ~InTransfer("user") => TargetsFree'
      BY <2>1, AppliesAssumption DEF InTransfer, TargetsFree, SameCall
    <3>6. QED BY <3>1, <3>2, <3>3, <3>4, <3>5 DEF FilesInv
  <2>4. QED BY <2>2, <2>3
<1>4. QED BY <1>1, <1>2, <1>3 DEF Next

\* No apply replaces a file, its own or the user's, whatever the template makes of
\* the names, but for an overwrite that was asked for or a target that changed
\* after the look.
THEOREM FilesAreKept == Spec => []NothingLost
<1>1. Init => FilesInv
  BY DEF Init, FilesInv, TargetsFree, Idle
<1>2. FilesInv => NothingLost
  BY DEF FilesInv, NothingLost
<1>3. QED BY <1>1, <1>2, InitCalls, CallsStep, FilesStep, PTL DEF Spec


-----------------------------------------------------------------------------
(***************************************************************************)
(* The simulation.                                                         *)
(***************************************************************************)

\* What holds of a number whenever it holds of all smaller ones holds of all.
LEMMA NoneIsLeast ==
  ASSUME NEW T \in SUBSET Nat, \A n \in T : \E m \in T : m < n
  PROVE  T = {}
<1>1. ASSUME T # {} PROVE FALSE
  <2>1. PICK n \in T : \A m \in T : n <= m
    BY <1>1, LeastNumber
  <2>2. PICK m \in T : m < n
    OBVIOUS
  <2>3. n \in Nat /\ m \in Nat /\ n <= m
    BY <2>1
  <2>4. QED BY <2>2, <2>3
<1>2. QED BY <1>1

\* The number that the simulation shows for the k-th file.
Number(files, k) ==
  Stored(ScopeKey(files[k].folder)) +
    Cardinality({i \in 1..(k - 1) : ScopeKey(files[i].folder) = ScopeKey(files[k].folder)})

\* plan holds what the simulation has listed after each of the first n files.
Lists(plan, files, n) ==
  plan = [k \in 0..n |-> IF k = 0 THEN <<>>
                         ELSE Listed(plan[k - 1], files[k], Destination(files[k], k, Number(files, k)))]

\* The simulation gets to the end of its files.
LEMMA ListsExist ==
  ASSUME NEW files, NEW n \in Nat
  PROVE  \E plan : Lists(plan, files, n)
<1> DEFINE T == {m \in Nat : ~\E plan : Lists(plan, files, m)}
           Grown(plan, k) == Listed(plan, files[k], Destination(files[k], k, Number(files, k)))
<1>1. ASSUME NEW m \in T PROVE \E l \in T : l < m
  <2>1. CASE m = 0
    <3>1. Lists([k \in 0..0 |-> <<>>], files, 0)
      BY DEF Lists
    <3>2. QED BY <2>1, <3>1
  <2>2. CASE m # 0
    <3>1. m - 1 \in Nat /\ m - 1 < m
      BY <2>2
    <3>2. SUFFICES ASSUME m - 1 \notin T PROVE FALSE
      BY <3>1
    <3>3. PICK plan : Lists(plan, files, m - 1)
      BY <3>1, <3>2
    <3>4. DEFINE more == [k \in 0..m |-> IF k = m THEN Grown(plan[m - 1], m) ELSE plan[k]]
    <3>5. \A k \in 0..m : more[k] = IF k = 0 THEN <<>> ELSE Grown(more[k - 1], k)
      <4>1. \A k \in 0..(m - 1) : plan[k] = IF k = 0 THEN <<>> ELSE Grown(plan[k - 1], k)
        BY <3>3 DEF Lists
      <4> HIDE DEF Grown
      <4>2. \A k \in 0..(m - 1) : more[k] = plan[k]
        OBVIOUS
      <4>3. more[m] = Grown(more[m - 1], m)
        BY <3>1, <4>2
      <4> HIDE DEF more
      <4>4. TAKE k \in 0..m
      <4>5. CASE k = m
        BY <2>2, <4>3, <4>5
      <4>6. CASE k \in 0..(m - 1)
        BY <4>1, <4>2, <4>6
      <4>7. QED BY <4>5, <4>6
    <3>6. Lists(more, files, m)
      <4>1. more = [k \in 0..m |-> more[k]]
        OBVIOUS
      <4> HIDE DEF more
      <4>2. QED BY <3>5, <4>1 DEF Lists
    <3>7. QED BY <3>6
  <2>3. QED BY <2>1, <2>2
<1>2. T = {}
  <2>1. T \in SUBSET Nat
    OBVIOUS
  <2> HIDE DEF T
  <2>2. QED BY <1>1, <2>1, NoneIsLeast
<1>3. QED BY <1>2

\* The candidates are the list of their members.
LEMMA CandidatesAreList ==
  ASSUME IsFiniteSet(DOMAIN tree)
  PROVE  Len(Candidates) \in Nat /\ Candidates = [k \in 1..Len(Candidates) |-> Candidates[k]]
<1> DEFINE files == {p \in DOMAIN tree : blueprint.recursive \/ p.folder = <<>>}
           at(k) == CHOOSE p \in files : Cardinality({q \in files : PathBefore(q, p)}) = k - 1
<1>1. Cardinality(files) \in Nat
  BY FS_Subset, FS_CardinalityType
<1>2. Candidates = [k \in 1..Cardinality(files) |-> at(k)]
  BY DEF Candidates
<1> HIDE DEF files, at
<1>3. QED BY <1>1, <1>2

\* The simulation shows what it has listed after the last of the candidates.
LEMMA SimulatedLists ==
  ASSUME IsFiniteSet(DOMAIN tree)
  PROVE  /\ Len(Candidates) \in Nat
         /\ \E plan : Lists(plan, Candidates, Len(Candidates)) /\ Simulated = plan[Len(Candidates)]
<1>1. Len(Candidates) \in Nat
  BY CandidatesAreList
<1> DEFINE plan == CHOOSE f : Lists(f, Candidates, Len(Candidates))
<1>2. Lists(plan, Candidates, Len(Candidates))
  <2>1. PICK files : files = Candidates
    OBVIOUS
  <2>2. \E f : Lists(f, files, Len(files))
    BY <1>1, <2>1, ListsExist
  <2>3. QED BY <2>1, <2>2
<1>3. Simulated = plan[Len(Candidates)]
  BY DEF Simulated, Lists, Number
<1>4. QED BY <1>1, <1>2, <1>3
\* The number that a call will draw for its n-th file if nobody else draws.
Foreseen(c, n) ==
  Stored(ScopeKey(c.files[n].folder)) +
    Cardinality({i \in c.k..(n - 1) : ScopeKey(c.files[i].folder) = ScopeKey(c.files[n].folder)})

\* From what is planned so far, the files that are left lead to what was foretold.
Foresees(c) ==
  \E plan :
    /\ plan[c.k - 1] = c.plan /\ plan[Len(c.files)] = c.foretold
    /\ \A n \in c.k..Len(c.files) :
         plan[n] = Listed(plan[n - 1], c.files[n], Destination(c.files[n], n, Foreseen(c, n)))

CallForetells(c) ==
  c.solo =>
    /\ c.at = "plan" =>
         /\ Len(c.files) \in Nat /\ c.k \in Nat \ {0}
         /\ c.k <= Len(c.files) \/ (c.files = <<>> /\ c.k = 1)
         /\ Foresees(c)
    /\ c.at \in {"look", "transfer"} => c.plan = c.foretold

ForetoldInv == IsFiniteSet(DOMAIN tree) /\ \A a \in Applies : CallForetells(apply[a])

\* What a call foresees depends on the counters and the day only.
LEMMA SameForetold ==
  ASSUME NEW c, CallForetells(c), UNCHANGED <<blueprint, counters, today>>
  PROVE  CallForetells(c)'
<1>1. \A folder : ScopeKey(folder)' = ScopeKey(folder)
  BY DEF ScopeKey
<1>2. \A key : Stored(key)' = Stored(key)
  BY DEF Stored
<1>3. \A n : Foreseen(c, n)' = Foreseen(c, n)
  BY <1>1, <1>2 DEF Foreseen
<1>4. \A p, n, number : Destination(p, n, number)' = Destination(p, n, number)
  BY DEF Destination
<1>5. Foresees(c)' <=> Foresees(c)
  BY <1>3, <1>4 DEF Foresees
<1>6. QED BY <1>5 DEF CallForetells

\* A call begins with what the simulation has just shown.
LEMMA BeginForetells ==
  ASSUME NumbersInv, IsCalls(apply), IsFiniteSet(DOMAIN tree), NEW a \in Applies, Begin(a),
         NEW c, c = apply'[a]
  PROVE  CallForetells(c)
<1>1. PICK files : files = Candidates
  OBVIOUS
<1>2. Len(files) \in Nat
  BY <1>1, SimulatedLists
<1>3. PICK plan : Lists(plan, files, Len(files)) /\ Simulated = plan[Len(files)]
  BY <1>1, SimulatedLists
<1>4. /\ c.at = "plan" /\ c.files = files /\ c.plan = <<>> /\ c.k = 1
      /\ c.foretold = Simulated
  BY <1>1 DEF Begin, IsCalls, Idle
<1>5. \A n : Foreseen(c, n) = Number(files, n)
  BY <1>4 DEF Foreseen, Number
<1>6. \A n \in 0..Len(files) : plan[n] =
        IF n = 0 THEN <<>> ELSE Listed(plan[n - 1], files[n], Destination(files[n], n, Number(files, n)))
  BY <1>3 DEF Lists
<1>7. plan[0] = <<>>
  BY <1>2, <1>6
<1>8. \A n \in 1..Len(files) :
        plan[n] = Listed(plan[n - 1], files[n], Destination(files[n], n, Number(files, n)))
  BY <1>2, <1>6
<1>9. Foresees(c)
  BY <1>3, <1>4, <1>5, <1>7, <1>8 DEF Foresees
<1>10. 1 <= Len(files) \/ files = <<>>
  <2>1. files = [k \in 1..Len(files) |-> files[k]]
    BY <1>1, CandidatesAreList
  <2>2. QED BY <1>2, <2>1
<1>11. QED BY <1>2, <1>4, <1>9, <1>10 DEF CallForetells

\* A draw moves one counter on.
LEMMA StoredNext ==
  ASSUME NEW p, NEW q, counters' = NextCounter(q), UNCHANGED blueprint, Stored(p) \in Nat
  PROVE  Stored(p)' = Stored(p) + IF p = q THEN 1 ELSE 0
<1>1. CASE p = q
  BY <1>1 DEF NextCounter, Stored
<1>2. CASE p # q
  BY <1>2 DEF NextCounter, Stored
<1>3. QED BY <1>1, <1>2

\* What one draw takes from the files that are left, its counter gains.
LEMMA ForeseenStays ==
  ASSUME NEW c, NEW d, d.files = c.files, d.k = c.k + 1, Len(c.files) \in Nat, c.k \in Nat \ {0},
         counters' = NextCounter(ScopeKey(c.files[c.k].folder)), UNCHANGED <<blueprint, today>>,
         \A key : Stored(key) \in Nat
  PROVE  \A n \in (c.k + 1)..Len(c.files) : Foreseen(d, n)' = Foreseen(c, n)
<1> TAKE n \in (c.k + 1)..Len(c.files)
<1> DEFINE key(i) == ScopeKey(c.files[i].folder)
           left == {i \in c.k..(n - 1) : key(i) = key(n)}
           fewer == {i \in (c.k + 1)..(n - 1) : key(i) = key(n)}
<1>1. \A folder : ScopeKey(folder)' = ScopeKey(folder)
  BY DEF ScopeKey
<1>2. Foreseen(d, n)' = Stored(key(n))' + Cardinality(fewer)
  BY <1>1 DEF Foreseen
<1>3. Foreseen(c, n) = Stored(key(n)) + Cardinality(left)
  BY DEF Foreseen
<1>4. IsFiniteSet(fewer) /\ Cardinality(fewer) \in Nat
  <2>1. c.k + 1 \in Int /\ n - 1 \in Int
    OBVIOUS
  <2>2. IsFiniteSet((c.k + 1)..(n - 1))
    BY <2>1, FS_Interval
  <2>3. QED BY <2>2, FS_Subset, FS_CardinalityType
<1>5. Stored(key(n))' = Stored(key(n)) + IF key(n) = key(c.k) THEN 1 ELSE 0
  <2>1. PICK p, q : p = key(n) /\ q = key(c.k)
    OBVIOUS
  <2>2. Stored(p)' = Stored(p) + IF p = q THEN 1 ELSE 0
    BY <2>1, StoredNext
  <2>3. key(n)' = p
    BY <1>1, <2>1
  <2>4. Stored(key(n))' = Stored(p)'
    BY <2>3 DEF Stored
  <2>5. QED BY <2>1, <2>2, <2>4
<1>6. CASE key(n) = key(c.k)
  <2>1. left = fewer \cup {c.k} /\ c.k \notin fewer
    <3> HIDE DEF key
    <3>1. QED BY <1>6
  <2>2. Cardinality(left) = Cardinality(fewer) + 1
    <3> HIDE DEF left, fewer
    <3>1. QED BY <1>4, <2>1, FS_AddElement
  <2>3. Stored(key(n)) \in Nat
    OBVIOUS
  <2> HIDE DEF key, left, fewer
  <2>4. QED BY <1>2, <1>3, <1>4, <1>5, <1>6, <2>2, <2>3
<1>7. CASE key(n) # key(c.k)
  <2>1. left = fewer
    <3> HIDE DEF key
    <3>1. QED BY <1>7
  <2>2. Stored(key(n)) \in Nat
    OBVIOUS
  <2> HIDE DEF key, left, fewer
  <2>3. QED BY <1>2, <1>3, <1>4, <1>5, <1>7, <2>1, <2>2
<1>8. QED BY <1>6, <1>7

\* The number that a call draws was foreseen, and so are the next ones.
LEMMA DrawForetells ==
  ASSUME NumbersInv, IsCalls(apply), NEW a \in Applies, Draw(a), UNCHANGED <<blueprint, today>>,
         NEW c, c = apply[a], CallForetells(c), NEW d, d = apply'[a]
  PROVE  CallForetells(d)'
<1> DEFINE key(n) == ScopeKey(c.files[n].folder)
           file == c.files[c.k]
           planned == Listed(c.plan, file, Destination(file, c.k, Stored(key(c.k))))
           next == IF c.k < Len(c.files)
                   THEN [c EXCEPT !.plan = planned, !.k = c.k + 1, !.at = "plan"]
                   ELSE [c EXCEPT !.plan = planned, !.k = 1, !.at = "look"]
<1>1. c.at = "plan" /\ c.k <= Len(c.files) /\ counters' = NextCounter(key(c.k))
  BY DEF Draw
<1>2. c = [f \in Fields |-> c[f]]
  BY DEF IsCalls
<1>3. d = next \/ d = Over
  <2>1. d = IF Usable(file) THEN Planned(a, planned) ELSE Over
    BY DEF Draw, Disturbed, IsCalls
  <2>2. Planned(a, planned) = next
    BY <1>1, <1>2 DEF Planned, Fields
  <2>3. QED BY <2>1, <2>2
<1>4. CASE d = Over
  BY <1>4 DEF Over, Idle, CallForetells
<1>5. CASE d = next /\ ~c.solo
  BY <1>2, <1>5 DEF CallForetells, Fields
<1>6. ASSUME d = next, c.solo PROVE CallForetells(d)'
  <2>1. /\ Len(c.files) \in Nat /\ c.k \in Nat \ {0} /\ c.k \in c.k..Len(c.files)
        /\ Foresees(c)
    BY <1>1, <1>6 DEF CallForetells
  <2>2. PICK plan :
          /\ plan[c.k - 1] = c.plan /\ plan[Len(c.files)] = c.foretold
          /\ \A n \in c.k..Len(c.files) :
               plan[n] = Listed(plan[n - 1], c.files[n], Destination(c.files[n], n, Foreseen(c, n)))
    BY <2>1 DEF Foresees
  <2>3. \A k : Stored(k) \in Nat
    BY BlueprintsAssumption DEF NumbersInv, Stored
  <2>4. Foreseen(c, c.k) = Stored(key(c.k))
    <3>1. {i \in c.k..(c.k - 1) : key(i) = key(c.k)} = {}
      BY <2>1
    <3>2. Foreseen(c, c.k) = Stored(key(c.k)) + 0
      BY <3>1, FS_EmptySet DEF Foreseen
    <3>3. QED BY <2>3, <3>2
  <2>5. plan[c.k] = planned
    BY <2>1, <2>2, <2>4
  <2>6. CASE c.k < Len(c.files)
    <3>1. /\ d.at = "plan" /\ d.k = c.k + 1 /\ d.plan = planned
          /\ d.files = c.files /\ d.foretold = c.foretold
      <4> HIDE DEF planned
      <4>1. d = [c EXCEPT !.plan = planned, !.k = c.k + 1, !.at = "plan"]
        BY <1>6, <2>6
      <4>2. QED BY <1>2, <4>1 DEF Fields
    <3>2. \A n \in (c.k + 1)..Len(c.files) : Foreseen(d, n)' = Foreseen(c, n)
      BY <1>1, <2>1, <2>3, <3>1, ForeseenStays
    <3>3. \A p, n, number : Destination(p, n, number)' = Destination(p, n, number)
      BY DEF Destination
    <3>4. \A n \in (c.k + 1)..Len(c.files) : n \in c.k..Len(c.files)
      BY <2>1
    <3>5. d.k - 1 = c.k
      BY <2>1, <3>1
    <3>6. Foresees(d)'
      <4> HIDE DEF planned
      <4>1. plan[d.k - 1] = d.plan /\ plan[Len(d.files)] = d.foretold
        BY <2>2, <2>5, <3>1, <3>5
      <4>2. \A n \in d.k..Len(d.files) :
              plan[n] = Listed(plan[n - 1], d.files[n], Destination(d.files[n], n, Foreseen(d, n)'))
        BY <2>2, <3>1, <3>2, <3>4
      <4>3. QED BY <3>3, <4>1, <4>2 DEF Foresees
    <3>7. Len(d.files) \in Nat /\ d.k \in Nat \ {0} /\ d.k <= Len(d.files)
      BY <2>1, <2>6, <3>1
    <3>8. QED BY <3>1, <3>6, <3>7 DEF CallForetells
  <2>7. CASE ~(c.k < Len(c.files))
    <3>1. c.k = Len(c.files)
      BY <1>1, <2>1, <2>7
    <3>2. d.at = "look" /\ d.plan = planned /\ d.foretold = c.foretold
      BY <1>2, <1>6, <2>7 DEF Fields
    <3>3. QED BY <2>2, <2>5, <3>1, <3>2 DEF CallForetells
  <2>8. QED BY <2>6, <2>7
<1>7. QED BY <1>3, <1>4, <1>5, <1>6

\* What a step does to another call is that it may no longer be alone, and it is
\* not when the numbers change.
LEMMA OthersForetell ==
  ASSUME IsCalls(apply), NEW a \in Applies, ApplyStep(a), NEW b \in Applies \ {a}
  PROVE  /\ apply'[b] = apply[b] \/ ~apply'[b].solo
         /\ ~Draw(a) => UNCHANGED <<blueprint, counters, today>>
         /\ Draw(a) => ~apply'[b].solo
<1>1. apply[b] = [f \in Fields |-> apply[b][f]]
  BY DEF IsCalls
<1>2. ASSUME Draw(a) PROVE ~apply'[b].solo
  <2>1. ASSUME NEW c, apply' = Disturbed([apply EXCEPT ![a] = c], a)
        PROVE  ~apply'[b].solo
    <3>1. apply'[b] = [apply[b] EXCEPT !.solo = FALSE]
      BY <2>1 DEF Disturbed, IsCalls
    <3>2. QED BY <1>1, <3>1 DEF Fields
  <2>2. QED BY <1>2, <2>1 DEF Draw
<1>3. ASSUME Transfer(a) PROVE apply'[b] = apply[b] \/ ~apply'[b].solo
  <2>1. CASE \E calls : apply' = Disturbed(calls, a) /\ calls[b] = apply[b]
    <3>1. apply'[b] = [apply[b] EXCEPT !.solo = FALSE]
      BY <2>1 DEF Disturbed
    <3>2. QED BY <1>1, <3>1 DEF Fields
  <2>2. CASE apply'[b] = apply[b]
    BY <2>2
  <2>3. QED BY <1>3, <2>1, <2>2 DEF Transfer, IsCalls
<1>4. ASSUME ~Draw(a) PROVE UNCHANGED <<blueprint, counters, today>>
  BY <1>4 DEF ApplyStep, Begin, NothingToPlan, Look, Transfer, ReadLastRun, SaveLastRun, Stops
<1>5. ASSUME ~Draw(a), ~Transfer(a) PROVE apply'[b] = apply[b]
  BY <1>5 DEF ApplyStep, Begin, NothingToPlan, Look, ReadLastRun, SaveLastRun, Stops, IsCalls
<1>6. QED BY <1>2, <1>3, <1>4, <1>5

\* A call that is neither beginning nor drawing keeps its plan, or forgets it.
LEMMA CallKeepsPlan ==
  ASSUME IsCalls(apply), NEW a \in Applies, ApplyStep(a), ~Begin(a), ~Draw(a),
         NEW c, c = apply[a], CallForetells(c), NEW d, d = apply'[a]
  PROVE  CallForetells(d)
<1>1. c = [f \in Fields |-> c[f]] /\ DOMAIN apply = Applies
  BY DEF IsCalls
<1>2. CASE NothingToPlan(a)
  <2>1. d = [c EXCEPT !.at = "look"] /\ c.at = "plan" /\ c.files = <<>>
    BY <1>1, <1>2 DEF NothingToPlan
  <2>2. d.at = "look" /\ d.solo = c.solo /\ d.plan = c.plan /\ d.foretold = c.foretold
    BY <1>1, <2>1 DEF Fields
  <2>3. c.solo => c.plan = c.foretold
    <3>1. SUFFICES ASSUME c.solo PROVE c.plan = c.foretold
      OBVIOUS
    <3>2. c.k = 1 /\ Foresees(c)
      BY <2>1, <3>1 DEF CallForetells
    <3>3. c.k - 1 = 0 /\ Len(c.files) = 0
      BY <2>1, <3>2
    <3>4. QED BY <3>2, <3>3 DEF Foresees
  <2>4. QED BY <2>2, <2>3 DEF CallForetells
<1>3. CASE Look(a) \/ Transfer(a)
  <2>1. /\ c.at \in {"look", "transfer"} /\ d.at \in {"look", "transfer"}
        /\ d.solo = c.solo /\ d.plan = c.plan /\ d.foretold = c.foretold
    <3>1. CASE Look(a)
      <4> DEFINE found == ResolveConflict(Item(a).target)
                 choice ==
                   IF found.does = "act" /\ ~blueprint.intermediate /\ found.target.folder \notin dirs
                   THEN Fail ELSE found
      <4>1. d = IF choice.does = "act" THEN [c EXCEPT !.at = "transfer", !.choice = choice]
                ELSE [c EXCEPT !.k = c.k + 1]
        BY <1>1, <3>1 DEF Look
      <4>2. c.at = "look"
        BY <3>1 DEF Look
      <4> HIDE DEF choice
      <4>3. QED BY <1>1, <4>1, <4>2 DEF Fields
    <3>2. CASE Transfer(a)
      <4> DEFINE next == [apply EXCEPT ![a].k = c.k + 1, ![a].at = "look", ![a].choice = Skip]
      <4>1. next[a] = [c EXCEPT !.k = c.k + 1, !.at = "look", !.choice = Skip]
        BY <1>1
      <4>2. d = next[a] /\ c.at = "transfer"
        <5>1. apply' = next \/ apply' = Disturbed(next, a)
          BY <3>2 DEF Transfer
        <5> HIDE DEF next
        <5>2. d = next[a]
          BY <5>1 DEF Disturbed
        <5>3. QED BY <3>2, <5>2 DEF Transfer
      <4> HIDE DEF next
      <4>3. QED BY <1>1, <4>1, <4>2 DEF Fields
    <3>3. QED BY <1>3, <3>1, <3>2
  <2>2. QED BY <2>1 DEF CallForetells
<1>4. CASE ReadLastRun(a) \/ SaveLastRun(a) \/ Stops(a)
  <2>1. ~d.solo
    BY <1>1, <1>4 DEF ReadLastRun, SaveLastRun, Stops, Over, Idle
  <2>2. QED BY <2>1 DEF CallForetells
<1>5. QED BY <1>2, <1>3, <1>4 DEF ApplyStep

\* The user, a delete and midnight disturb the calls when they change the numbers.
LEMMA OutsideForetells ==
  ASSUME IsCalls(apply), UserActs \/ CountersDeleted \/ Midnight, NEW b \in Applies
  PROVE  \/ apply'[b] = apply[b] /\ UNCHANGED <<blueprint, counters, today>>
         \/ ~apply'[b].solo
<1>1. apply[b] = [f \in Fields |-> apply[b][f]]
  BY DEF IsCalls
<1>2. CASE apply' = Disturbed(apply, "user")
  <2>1. apply'[b] = [apply[b] EXCEPT !.solo = FALSE]
    BY <1>2, AppliesAssumption DEF Disturbed
  <2>2. QED BY <1>1, <2>1 DEF Fields
<1>3. CASE UNCHANGED <<apply, blueprint, counters, today>>
  BY <1>3
<1>4. apply' = Disturbed(apply, "user") \/ UNCHANGED <<apply, blueprint, counters, today>>
  BY DEF UserActs, UserEdits, UserDeletes, UserPuts, CountersDeleted, Midnight
<1>5. QED BY <1>2, <1>3, <1>4

\* A tree of finitely many files stays one.
LEMMA TreeIsFinite ==
  ASSUME IsFiniteSet(DOMAIN tree), [Next]_vars
  PROVE  IsFiniteSet(DOMAIN tree')
<1>1. ASSUME NEW a \in Applies, Transfer(a) PROVE IsFiniteSet(DOMAIN tree')
  <2>1. PICK target : DOMAIN tree' \subseteq DOMAIN tree \cup {target}
    BY <1>1 DEF Transfer, Transferred
  <2>2. IsFiniteSet(DOMAIN tree \cup {target})
    BY FS_AddElement
  <2>3. QED BY <2>1, <2>2, FS_Subset
<1>2. ASSUME UserPuts PROVE IsFiniteSet(DOMAIN tree')
  <2>1. PICK p : DOMAIN tree' = DOMAIN tree \cup {p}
    BY <1>2 DEF UserPuts
  <2>2. QED BY <2>1, FS_AddElement
<1>3. \/ \E a \in Applies : Transfer(a)
      \/ UserPuts
      \/ UNCHANGED tree
  BY DEF Next, vars, disk, ApplyStep, Begin, Draw, NothingToPlan, Look, ReadLastRun, SaveLastRun, Stops,
     UserActs, UserEdits, UserDeletes, CountersDeleted, Midnight
<1>4. QED BY <1>1, <1>2, <1>3

\* Every step keeps what was foretold.
LEMMA ForetoldStep == CallsInv /\ NumbersInv /\ ForetoldInv /\ [Next]_vars => ForetoldInv'
<1> SUFFICES ASSUME IsCalls(apply), NumbersInv, ForetoldInv, [Next]_vars PROVE ForetoldInv'
  BY DEF CallsInv
<1>1. IsFiniteSet(DOMAIN tree) /\ IsFiniteSet(DOMAIN tree')
  BY TreeIsFinite DEF ForetoldInv
<1>2. SUFFICES ASSUME NEW b \in Applies PROVE CallForetells(apply[b])'
  BY <1>1 DEF ForetoldInv
<1>3. PICK c, d : c = apply[b] /\ d = apply'[b] /\ CallForetells(c)
  BY DEF ForetoldInv
<1>4. CallForetells(apply[b])' <=> CallForetells(d)'
  BY <1>3 DEF CallForetells, Foresees, Foreseen
<1>5. ASSUME ~d.solo PROVE CallForetells(d)'
  BY <1>5 DEF CallForetells
<1>6. ASSUME d = c, UNCHANGED <<blueprint, counters, today>> PROVE CallForetells(d)'
  BY <1>3, <1>6, SameForetold
<1>7. ASSUME NEW a \in Applies, ApplyStep(a) PROVE CallForetells(d)'
  <2>1. CASE a # b
    BY <1>3, <1>5, <1>6, <1>7, <2>1, OthersForetell
  <2>2. CASE a = b /\ Begin(a)
    <3>1. CallForetells(d)
      BY <1>1, <1>3, <2>2, BeginForetells
    <3>2. UNCHANGED <<blueprint, counters, today>>
      BY <1>7, <2>2 DEF ApplyStep, Begin
    <3>3. QED BY <3>1, <3>2, SameForetold
  <2>3. CASE a = b /\ Draw(a)
    <3>1. UNCHANGED <<blueprint, today>>
      BY <1>7 DEF ApplyStep
    <3>2. QED BY <1>3, <2>3, <3>1, DrawForetells
  <2>4. CASE a = b /\ ~Begin(a) /\ ~Draw(a)
    <3>1. CallForetells(d)
      BY <1>3, <1>7, <2>4, CallKeepsPlan
    <3>2. UNCHANGED <<blueprint, counters, today>>
      BY <1>7, <2>4 DEF ApplyStep, NothingToPlan, Look, Transfer, ReadLastRun, SaveLastRun, Stops
    <3>3. QED BY <3>1, <3>2, SameForetold
  <2>5. QED BY <2>1, <2>2, <2>3, <2>4
<1>8. CASE UserActs \/ CountersDeleted \/ Midnight
  BY <1>3, <1>5, <1>6, <1>8, OutsideForetells
<1>9. CASE UNCHANGED vars
  BY <1>3, <1>6, <1>9 DEF vars, store
<1>10. QED BY <1>4, <1>7, <1>8, <1>9 DEF Next

\* In every execution an apply that nothing has disturbed since the simulation
\* (simulate_blueprint_data) plans the very targets it has shown, numbers included,
\* whatever the files, the scope of the counter and the applies before.
THEOREM SimulationIsRight == Spec => []SimulationForetells
<1>1. Init => NumbersInv
  BY DEF Init, NumbersInv, Below
<1>2. Init => ForetoldInv
  BY TreesAssumption DEF Init, ForetoldInv, CallForetells, Idle
<1>3. ForetoldInv => SimulationForetells
  BY DEF ForetoldInv, SimulationForetells, CallForetells
<1>4. QED BY <1>1, <1>2, <1>3, InitCalls, CallsStep, NumbersStep, ForetoldStep, PTL DEF Spec

=============================================================================
