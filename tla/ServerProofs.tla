--------------------------- MODULE ServerProofs -----------------------------
(***************************************************************************)
(* What holds of the fleet for all machines, secrets, requests of users,   *)
(* tools and operators, and faults: a batch goes to the machines meant, an *)
(* answer is never ahead of the audit, and only a changed secret locks a   *)
(* machine out.                                                            *)
(***************************************************************************)
EXTENDS AdminServer, MemoryStore, SequenceTheorems, FiniteSetTheorems, WellFoundedInduction, FunctionTheorems, TLAPS

-----------------------------------------------------------------------------
(***************************************************************************)
(* Induction: a set of numbers without a least member is empty.            *)
(***************************************************************************)

\* What holds of a number whenever it holds of all smaller ones holds of all.
LEMMA NoneIsLeast ==
  ASSUME NEW T \in SUBSET Nat, \A n \in T : \E m \in T : m < n
  PROVE  T = {}
<1> DEFINE less == OpToRel(<, Nat)
<1>1. IsWellFoundedOn(less, Nat)
  BY NatLessThanWellFounded
<1>2. \A n, m \in Nat : n < m => <<n, m>> \in less
  BY DEF OpToRel
<1> HIDE DEF less
<1>3. T # {} => \E n \in T : \A m \in T : ~(<<m, n>> \in less)
  BY <1>1, WFMin
<1>4. QED BY <1>2, <1>3, Zenon

-----------------------------------------------------------------------------
(***************************************************************************)
(* Lists of instance ids.                                                  *)
(***************************************************************************)

\* One id more or not, as normalize_instance_ids goes through the list.
KeptNext(kept, id) ==
  IF id = Nothing \/ Contains(kept, id) THEN kept ELSE Append(kept, id)

\* kept holds what is left after each of the first n ids.
Keeps(kept, ids, n) ==
  kept = [k \in 0..n |-> IF k = 0 THEN <<>> ELSE KeptNext(kept[k - 1], ids[k])]

\* normalize_instance_ids gets to the end of every list.
LEMMA KeptExists ==
  ASSUME NEW ids, NEW n \in Nat
  PROVE  \E kept : Keeps(kept, ids, n)
<1> DEFINE T == {m \in Nat : ~\E kept : Keeps(kept, ids, m)}
<1>1. ASSUME NEW m \in T PROVE \E l \in T : l < m
  <2>1. CASE m = 0
    <3>1. Keeps([k \in 0..0 |-> <<>>], ids, 0)
      BY DEF Keeps
    <3>2. QED BY <2>1, <3>1
  <2>2. CASE m # 0
    <3>1. m - 1 \in Nat /\ m - 1 < m
      BY <2>2
    <3>2. SUFFICES ASSUME m - 1 \notin T PROVE FALSE
      BY <3>1
    <3>3. PICK kept : Keeps(kept, ids, m - 1)
      BY <3>1, <3>2
    <3>4. DEFINE more == [k \in 0..m |-> IF k = m THEN KeptNext(kept[m - 1], ids[m]) ELSE kept[k]]
    <3>5. \A k \in 0..(m - 1) : more[k] = kept[k]
      OBVIOUS
    <3>6. more[m] = KeptNext(more[m - 1], ids[m])
      BY <3>1, <3>5
    <3>7. \A k \in 0..m : more[k] = IF k = 0 THEN <<>> ELSE KeptNext(more[k - 1], ids[k])
      <4>1. \A k \in 0..(m - 1) : kept[k] = IF k = 0 THEN <<>> ELSE KeptNext(kept[k - 1], ids[k])
        BY <3>3 DEF Keeps
      <4> HIDE DEF more
      <4>2. TAKE k \in 0..m
      <4>3. CASE k = m
        BY <2>2, <3>6, <4>3
      <4>4. CASE k \in 0..(m - 1)
        BY <3>5, <4>1, <4>4
      <4>5. QED BY <4>3, <4>4
    <3>8. Keeps(more, ids, m)
      <4>1. more = [k \in 0..m |-> more[k]]
        OBVIOUS
      <4> HIDE DEF more
      <4>2. QED BY <3>7, <4>1 DEF Keeps
    <3>9. QED BY <3>8
  <2>3. QED BY <2>1, <2>2
<1>2. T = {}
  BY <1>1, NoneIsLeast
<1>3. QED BY <1>2

\* Normalized is what is left at the end.
LEMMA NormalizedKept ==
  ASSUME NEW ids, Len(ids) \in Nat
  PROVE  \E kept : Keeps(kept, ids, Len(ids)) /\ Normalized(ids) = kept[Len(ids)]
<1> DEFINE kept == CHOOSE f : Keeps(f, ids, Len(ids))
<1>1. Keeps(kept, ids, Len(ids))
  BY KeptExists
<1>2. Normalized(ids) = kept[Len(ids)]
  BY DEF Normalized, Keeps, KeptNext
<1>3. QED BY <1>1, <1>2

\* What has been kept so far: of the first n ids those not blank, each once.
KeptExactly(kept, ids, n) ==
  /\ kept[n] \in Seq(Machines)
  /\ Range(kept[n]) = {ids[k] : k \in 1..n} \ {Nothing}
  /\ IsInjective(kept[n])

\* One more member at the end.
LEMMA AppendedOnce ==
  ASSUME NEW S, NEW s \in Seq(S), NEW e \in S
  PROVE  /\ Range(Append(s, e)) = Range(s) \cup {e}
         /\ IsInjective(s) /\ e \notin Range(s) => IsInjective(Append(s, e))
<1> DEFINE t == Append(s, e)
<1>1. /\ DOMAIN s = 1..Len(s) /\ DOMAIN t = 1..(Len(s) + 1) /\ Len(s) \in Nat
      /\ \A k \in 1..Len(s) : t[k] = s[k]
      /\ t[Len(s) + 1] = e
  OBVIOUS
<1>2. DOMAIN t = DOMAIN s \cup {Len(s) + 1}
  BY <1>1
<1> HIDE DEF t
<1>3. Range(t) = Range(s) \cup {e}
  BY <1>1, <1>2 DEF Range
<1>4. IsInjective(s) /\ e \notin Range(s) => IsInjective(t)
  BY <1>1, <1>2 DEF Range, IsInjective
<1>5. QED BY <1>3, <1>4 DEF t

\* normalize_instance_ids: no id is lost but the blank one, and none is left twice.
LEMMA NormalizedIsExact ==
  ASSUME NEW ids \in Seq(Machines \cup {Nothing})
  PROVE  /\ Normalized(ids) \in Seq(Machines)
         /\ Range(Normalized(ids)) = Range(ids) \ {Nothing}
         /\ IsInjective(Normalized(ids))
<1>1. PICK kept : Keeps(kept, ids, Len(ids)) /\ Normalized(ids) = kept[Len(ids)]
  BY NormalizedKept
<1> DEFINE T == {n \in 0..Len(ids) : ~KeptExactly(kept, ids, n)}
<1>2. ASSUME NEW n \in T PROVE \E m \in T : m < n
  <2>1. CASE n = 0
    <3>1. kept[0] = <<>>
      BY <1>1 DEF Keeps
    <3>2. KeptExactly(kept, ids, 0)
      BY <3>1 DEF KeptExactly, Range, IsInjective
    <3>3. QED BY <2>1, <3>2
  <2>2. CASE n # 0
    <3>1. n - 1 \in 0..Len(ids) /\ n - 1 < n /\ n \in 1..Len(ids)
      BY <2>2
    <3>2. SUFFICES ASSUME n - 1 \notin T PROVE KeptExactly(kept, ids, n)
      BY <3>1
    <3>3. KeptExactly(kept, ids, n - 1)
      BY <3>1, <3>2
    <3>4. kept[n] = KeptNext(kept[n - 1], ids[n])
      BY <1>1, <2>2 DEF Keeps
    <3> DEFINE old == kept[n - 1]
               before == {ids[k] : k \in 1..(n - 1)}
    <3>5. {ids[k] : k \in 1..n} = before \cup {ids[n]}
      <4>1. 1..n = 1..(n - 1) \cup {n}
        BY <3>1
      <4>2. QED BY <4>1
    <3>6. old \in Seq(Machines) /\ Range(old) = before \ {Nothing} /\ IsInjective(old)
      BY <3>3 DEF KeptExactly
    <3>7. Contains(old, ids[n]) <=> ids[n] \in Range(old)
      BY <3>6 DEF Contains, Range
    <3> HIDE DEF old, before
    <3>8. CASE ids[n] = Nothing \/ Contains(old, ids[n])
      <4>1. kept[n] = old
        BY <3>4, <3>8 DEF KeptNext, old
      <4>2. QED BY <3>5, <3>6, <3>7, <3>8, <4>1 DEF KeptExactly
    <3>9. CASE ~(ids[n] = Nothing \/ Contains(old, ids[n]))
      <4>1. kept[n] = Append(old, ids[n])
        BY <3>4, <3>9 DEF KeptNext, old
      <4>2. ids[n] \in Machines
        BY <3>1, <3>9
      <4>3. Append(old, ids[n]) \in Seq(Machines)
        BY <3>6, <4>2
      <4>4. /\ Range(Append(old, ids[n])) = Range(old) \cup {ids[n]}
            /\ ids[n] \notin Range(old) => IsInjective(Append(old, ids[n]))
        BY <3>6, <4>2, AppendedOnce
      <4>5. QED BY <3>5, <3>6, <3>7, <3>9, <4>1, <4>3, <4>4 DEF KeptExactly
    <3>10. QED BY <3>8, <3>9
  <2>3. QED BY <2>1, <2>2
<1>3. T \in SUBSET Nat
  OBVIOUS
<1> HIDE DEF T
<1>4. T = {}
  BY <1>2, <1>3, NoneIsLeast
<1>5. KeptExactly(kept, ids, Len(ids))
  BY <1>4 DEF T
<1>6. {ids[k] : k \in 1..Len(ids)} = Range(ids)
  BY DEF Range
<1>7. QED BY <1>1, <1>5, <1>6 DEF KeptExactly

\* Range of one sequence after another.
LEMMA ConcatRange ==
  ASSUME NEW S, NEW s \in Seq(S), NEW t \in Seq(S)
  PROVE  s \o t \in Seq(S) /\ Range(s \o t) = Range(s) \cup Range(t)
<1> DEFINE u == s \o t
<1>1. /\ u \in Seq(S) /\ Len(u) = Len(s) + Len(t) /\ DOMAIN u = 1..(Len(s) + Len(t))
      /\ DOMAIN s = 1..Len(s) /\ DOMAIN t = 1..Len(t) /\ Len(s) \in Nat /\ Len(t) \in Nat
      /\ \A k \in 1..Len(s) : u[k] = s[k]
      /\ \A k \in 1..Len(t) : u[Len(s) + k] = t[k]
  OBVIOUS
<1> HIDE DEF u
<1>2. \A k \in DOMAIN u : k \in DOMAIN s \/ \E l \in DOMAIN t : k = Len(s) + l
  <2>1. TAKE k \in DOMAIN u
  <2>2. CASE k <= Len(s)
    BY <1>1, <2>2
  <2>3. CASE k > Len(s)
    <3>1. k - Len(s) \in DOMAIN t /\ k = Len(s) + (k - Len(s))
      BY <1>1, <2>3
    <3>2. QED BY <3>1
  <2>4. QED BY <1>1, <2>2, <2>3
<1>3. Range(u) \subseteq Range(s) \cup Range(t)
  BY <1>1, <1>2 DEF Range
<1>4. Range(s) \subseteq Range(u)
  BY <1>1 DEF Range
<1>5. \A k \in DOMAIN t : Len(s) + k \in DOMAIN u
  BY <1>1
<1>6. Range(t) \subseteq Range(u)
  BY <1>1, <1>5 DEF Range
<1>7. QED BY <1>1, <1>3, <1>4, <1>6 DEF u

\* flat holds the concatenation of the first sequences.
Flattens(flat, seqs, n) ==
  flat = [k \in 1..n |-> IF k = 1 THEN seqs[k] ELSE flat[k - 1] \o seqs[k]]

\* The concatenation gets to the end.
LEMMA FlatExists ==
  ASSUME NEW seqs, NEW n \in Nat
  PROVE  \E flat : Flattens(flat, seqs, n)
<1> DEFINE T == {m \in Nat : ~\E flat : Flattens(flat, seqs, m)}
<1>1. ASSUME NEW m \in T PROVE \E l \in T : l < m
  <2>1. CASE m = 0
    <3>1. Flattens([k \in 1..0 |-> <<>>], seqs, 0)
      BY DEF Flattens
    <3>2. QED BY <2>1, <3>1
  <2>2. CASE m # 0
    <3>1. m - 1 \in Nat /\ m - 1 < m
      BY <2>2
    <3>2. SUFFICES ASSUME m - 1 \notin T PROVE FALSE
      BY <3>1
    <3>3. PICK flat : Flattens(flat, seqs, m - 1)
      BY <3>1, <3>2
    <3> DEFINE more == [k \in 1..m |-> IF k < m THEN flat[k]
                                       ELSE IF m = 1 THEN seqs[1] ELSE flat[m - 1] \o seqs[m]]
    <3>4. \A k \in 1..(m - 1) : more[k] = flat[k]
      OBVIOUS
    <3>5. more[m] = IF m = 1 THEN seqs[1] ELSE flat[m - 1] \o seqs[m]
      BY <3>1
    <3>6. \A k \in 1..(m - 1) : flat[k] = IF k = 1 THEN seqs[k] ELSE flat[k - 1] \o seqs[k]
      BY <3>3 DEF Flattens
    <3>7. more = [k \in 1..m |-> more[k]]
      OBVIOUS
    <3> HIDE DEF more
    <3>8. \A k \in 1..m : more[k] = IF k = 1 THEN seqs[k] ELSE more[k - 1] \o seqs[k]
      <4>1. TAKE k \in 1..m
      <4>2. CASE k = m
        <5>1. m # 1 => more[m - 1] = flat[m - 1]
          BY <3>1, <3>4
        <5>2. QED BY <3>5, <4>2, <5>1
      <4>3. CASE k < m
        <5>1. k \in 1..(m - 1) /\ (k # 1 => k - 1 \in 1..(m - 1))
          BY <3>1, <4>3
        <5>2. QED BY <3>4, <3>6, <5>1
      <4>4. QED BY <4>2, <4>3
    <3>9. Flattens(more, seqs, m)
      BY <3>7, <3>8 DEF Flattens
    <3>10. QED BY <3>9
  <2>3. QED BY <2>1, <2>2
<1>2. T \in SUBSET Nat
  OBVIOUS
<1> HIDE DEF T
<1>3. T = {}
  BY <1>1, <1>2, NoneIsLeast
<1>4. QED BY <1>3 DEF T

\* The first n sequences together.
FlatExactly(flat, seqs, n, S) ==
  flat[n] \in Seq(S) /\ \A x : x \in Range(flat[n]) <=> \E k \in 1..n : x \in Range(seqs[k])

\* The concatenation of sequences holds what they hold.
LEMMA FlattenSeqIsExact ==
  ASSUME NEW S, NEW seqs \in Seq(Seq(S))
  PROVE  /\ FlattenSeq(seqs) \in Seq(S)
         /\ Range(FlattenSeq(seqs)) = UNION {Range(seqs[k]) : k \in DOMAIN seqs}
<1>1. CASE Len(seqs) = 0
  <2>1. FlattenSeq(seqs) = <<>> /\ DOMAIN seqs = {}
    BY <1>1 DEF FlattenSeq
  <2>2. QED BY <2>1 DEF Range
<1>2. CASE Len(seqs) # 0
  <2> DEFINE last == Len(seqs)
             flat == CHOOSE f : Flattens(f, seqs, last)
             T == {n \in 1..last : ~FlatExactly(flat, seqs, n, S)}
  <2>1. /\ last \in Nat /\ last \in 1..last /\ DOMAIN seqs = 1..last
        /\ \A k \in 1..last : seqs[k] \in Seq(S)
    BY <1>2
  <2>2. Flattens(flat, seqs, last)
    BY <2>1, FlatExists
  <2>3. FlattenSeq(seqs) = flat[last]
    BY <1>2 DEF FlattenSeq, Flattens
  <2>4. T \in SUBSET Nat
    OBVIOUS
  <2> HIDE DEF flat, last
  <2>5. ASSUME NEW n \in T PROVE \E m \in T : m < n
    <3>1. n \in 1..last
      OBVIOUS
    <3>2. CASE n = 1
      <4>1. flat[1] = seqs[1] /\ 1..1 = {1}
        BY <2>2, <3>1, <3>2 DEF Flattens
      <4>2. FlatExactly(flat, seqs, 1, S)
        BY <2>1, <3>1, <3>2, <4>1 DEF FlatExactly
      <4>3. QED BY <3>2, <4>2
    <3>3. CASE n # 1
      <4>1. n - 1 \in 1..last /\ n - 1 < n /\ 1..n = 1..(n - 1) \cup {n}
        BY <2>1, <3>1, <3>3
      <4>2. SUFFICES ASSUME n - 1 \notin T PROVE FlatExactly(flat, seqs, n, S)
        BY <4>1
      <4>3. FlatExactly(flat, seqs, n - 1, S)
        BY <4>1, <4>2
      <4>4. flat[n] = flat[n - 1] \o seqs[n]
        BY <2>2, <3>1, <3>3 DEF Flattens
      <4>5. seqs[n] \in Seq(S)
        BY <2>1, <3>1
      <4>6. flat[n - 1] \in Seq(S)
        BY <4>3 DEF FlatExactly
      <4>7. flat[n] \in Seq(S) /\ Range(flat[n]) = Range(flat[n - 1]) \cup Range(seqs[n])
        BY <4>4, <4>5, <4>6, ConcatRange
      <4>8. \A x : x \in Range(flat[n]) <=> x \in Range(flat[n - 1]) \/ x \in Range(seqs[n])
        BY <4>7
      <4> DEFINE before == 1..(n - 1)
      <4>9. /\ \A x : x \in Range(flat[n - 1]) <=> \E k \in before : x \in Range(seqs[k])
            /\ 1..n = before \cup {n}
        BY <4>1, <4>3 DEF FlatExactly
      <4> HIDE DEF before
      <4>10. \A x : x \in Range(flat[n]) <=> \E k \in 1..n : x \in Range(seqs[k])
        BY <4>8, <4>9
      <4>11. QED BY <4>7, <4>10 DEF FlatExactly
    <3>4. QED BY <3>2, <3>3
  <2> HIDE DEF T
  <2>6. T = {}
    BY <2>4, <2>5, NoneIsLeast
  <2>7. FlatExactly(flat, seqs, last, S)
    BY <2>1, <2>6 DEF T
  <2>8. QED BY <2>1, <2>3, <2>7 DEF FlatExactly
<1>3. QED BY <1>1, <1>2

-----------------------------------------------------------------------------
(***************************************************************************)
(* Requests.                                                               *)
(***************************************************************************)

\* What operators ask for.
Requests == [ids : Seq(Machines \cup {Nothing}), groups : Seq(Nat)]

CallFields == {"at", "kind", "machine", "secret", "value", "fresh", "waiting", "ok"}

IsRecord(r) == r = [f \in CallFields |-> r[f]]

\* Who sends what.
IsCall(c, r) ==
  \/ r = NoCall
  \/ /\ IsRecord(r)
     /\ r.at \in {"sent", "save", "audit", "answered"}
     /\ r.kind \in Kinds
     /\ r.kind \in {"group", "batch"} => r.value \in Requests
     /\ r.kind = "enroll" => r.machine \in Machines /\ c = LoopOf(r.machine)

CallsInv ==
  /\ call = [c \in Callers |-> call[c]]
  /\ \A c \in Callers : IsCall(c, call[c])

\* It is the same request.
SameRequest(old, new) ==
  /\ old # NoCall /\ IsRecord(new)
  /\ new.kind = old.kind /\ new.machine = old.machine
  /\ new.secret = old.secret /\ new.value = old.value

\* A request goes on to its end without its handler: it is answered, or its
\* caller, the handler or the server is gone.
Fades(old, new) ==
  \/ new \in {old, NoCall}
  \/ /\ SameRequest(old, new) /\ new.at \in {old.at, "answered"}
     /\ new.at = "answered" /\ new.ok =>
          (old.at = "answered" /\ old.ok) \/ old.at = "audit" \/ old.kind = "heartbeat"

Fading == call' = [c \in Callers |-> call'[c]] /\ \A c \in Callers : Fades(call[c], call'[c])

\* The handler goes on to the next statement.
Proceeds(c, at) ==
  /\ call' = [d \in Callers |-> call'[d]]
  /\ SameRequest(call[c], call'[c]) /\ call'[c].at = at
  /\ \A d \in Callers \ {c} : call'[d] = call[d]

\* A request is sent.
Sends(c) ==
  /\ call' = [d \in Callers |-> call'[d]]
  /\ IsCall(c, call'[c]) /\ call'[c].at = "sent" /\ call[c] = NoCall
  /\ \A d \in Callers \ {c} : call'[d] = call[d]

\* The loops and the tool of every machine, and the operator, are who may call.
LEMMA CallersAre ==
  /\ \A m \in Machines : {LoopOf(m), WorkerOf(m), ToolOf(m)} \subseteq Callers
  /\ Operator \in Callers
  BY DEF Callers, LoopOf, WorkerOf, ToolOf, Operator

\* A call that somebody works on is one.
LEMMA CallIsRecord ==
  ASSUME CallsInv, NEW c \in Callers, call[c].at # "none"
  PROVE  call[c] # NoCall /\ IsRecord(call[c]) /\ call[c].kind \in Kinds
  BY DEF CallsInv, IsCall, NoCall

\* A handler that goes on changes nothing of the call but its place.
LEMMA HandlerProceeds ==
  ASSUME CallsInv, NEW c \in Callers, call[c].at # "none", NEW at, HandlerTo(c, at)
  PROVE  Proceeds(c, at)
<1>1. call[c] # NoCall /\ IsRecord(call[c])
  BY CallIsRecord
<1>2. QED BY <1>1 DEF HandlerTo, Proceeds, SameRequest, IsRecord, CallFields, CallsInv

\* One call fades.
LEMMA OneFades ==
  ASSUME CallsInv, NEW c \in Callers, NEW new, Fades(call[c], new), call' = [call EXCEPT ![c] = new]
  PROVE  Fading
  BY DEF CallsInv, Fading, Fades

\* An answer ends a call, or puts its outcome where the caller will read it.
LEMMA AnswerFades ==
  ASSUME CallsInv, NEW c \in Callers, call[c].at # "none", NEW ok \in BOOLEAN, Answer(c, ok),
         ok => call[c].at = "audit" \/ call[c].kind = "heartbeat"
  PROVE  Fading
<1> DEFINE answered == [call[c] EXCEPT !.at = "answered", !.ok = ok]
<1>1. call[c] # NoCall /\ IsRecord(call[c])
  BY CallIsRecord
<1>2. Fades(call[c], answered) /\ Fades(call[c], NoCall)
  BY <1>1 DEF Fades, SameRequest, IsRecord, CallFields
<1>3. \/ call' = [call EXCEPT ![c] = answered]
      \/ call' = [call EXCEPT ![c] = NoCall]
  BY DEF Answer
<1> HIDE DEF answered
<1>4. QED BY <1>2, <1>3, OneFades

\* A posted request is one.
LEMMA PostSends ==
  ASSUME CallsInv, NEW c \in Callers, NEW kind \in Kinds, NEW m, NEW secret, NEW value,
         kind \in {"group", "batch"} => value \in Requests,
         kind = "enroll" => m \in Machines /\ c = LoopOf(m),
         Post(c, Call(kind, m, secret, value))
  PROVE  Sends(c) /\ call'[c] = Call(kind, m, secret, value)
<1>1. IsCall(c, Call(kind, m, secret, value)) /\ Call(kind, m, secret, value).at = "sent"
  BY DEF IsCall, IsRecord, Call, CallFields
<1> DEFINE new == Call(kind, m, secret, value)
<1>2. call[c] = NoCall /\ call' = [call EXCEPT ![c] = new]
  BY DEF Post
<1> HIDE DEF new
<1>3. /\ call'[c] = new /\ call' = [d \in Callers |-> call'[d]]
      /\ \A d \in Callers \ {c} : call'[d] = call[d]
  BY <1>2 DEF CallsInv
<1>4. QED BY <1>1, <1>2, <1>3 DEF Sends, new

-----------------------------------------------------------------------------
(***************************************************************************)
(* What each step does to the requests.                                    *)
(***************************************************************************)

\* Installations.
LEMMA LoopCalls ==
  ASSUME CallsInv, NEW m \in Machines, LoopStep(m) \/ WorkerStep(m)
  PROVE  \/ Fading
         \/ Sends(LoopOf(m)) \/ Sends(WorkerOf(m))
<1>1. LoopOf(m) \in Callers /\ WorkerOf(m) \in Callers
  BY CallersAre
<1>2. CASE AgentEnrolls(m)
  BY <1>1, <1>2, PostSends DEF AgentEnrolls, Kinds, Audited
<1>3. CASE AgentBeats(m)
  BY <1>1, <1>3, PostSends DEF AgentBeats, Kinds
<1>4. CASE WorkerBeats(m)
  BY <1>1, <1>4, PostSends DEF WorkerBeats, Kinds
<1>5. CASE AgentEnrolled(m) \/ AgentSleeps(m) \/ WorkerSleeps(m)
  <2>1. \A c : Fades(call[c], NoCall) /\ Fades(call[c], call[c])
    BY DEF Fades
  <2>2. \/ call' = [call EXCEPT ![LoopOf(m)] = NoCall]
        \/ call' = [call EXCEPT ![WorkerOf(m)] = NoCall]
        \/ call' = call
    BY <1>5 DEF AgentEnrolled, AgentSleeps, WorkerSleeps
  <2>3. CASE call' = call
    BY <2>1, <2>3 DEF Fading, CallsInv
  <2>4. QED BY <1>1, <2>1, <2>2, <2>3, OneFades
<1>6. QED BY <1>2, <1>3, <1>4, <1>5 DEF LoopStep, WorkerStep

\* Users, tools and operators.
LEMMA UserCalls ==
  ASSUME CallsInv, OperatorAsks \/ \E m \in Machines : UserStep(m)
  PROVE  Fading \/ Sends(Operator) \/ \E m \in Machines : Sends(ToolOf(m))
<1>1. CASE OperatorAsks
  <2>1. PICK token \in Tokens, ids \in IdLists, kind \in {"group", "batch"} :
          \E ofGroups \in IF kind = "batch" THEN {<<>>, <<1>>, <<1, 1>>} ELSE {<<>>} :
            Post(Operator, Call(kind, Nothing, token, [ids |-> ids, groups |-> ofGroups]))
    BY <1>1 DEF OperatorAsks
  <2>2. PICK ofGroups \in {<<>>, <<1>>, <<1, 1>>} :
          Post(Operator, Call(kind, Nothing, token, [ids |-> ids, groups |-> ofGroups]))
    BY <2>1
  <2>3. ofGroups \in Seq(Nat) /\ ids \in Seq(Machines \cup {Nothing})
    <3>1. <<>> \in Seq(Nat) /\ <<1>> \in Seq(Nat) /\ <<1, 1>> \in Seq(Nat)
      OBVIOUS
    <3>2. QED BY <3>1, IdListsAssumption
  <2>4. [ids |-> ids, groups |-> ofGroups] \in Requests /\ kind \in Kinds /\ kind # "enroll"
    BY <2>3 DEF Requests, Kinds, Audited
  <2>5. QED BY <2>2, <2>4, PostSends, CallersAre
<1>2. CASE \E m \in Machines : UserStep(m)
  <2>1. PICK m \in Machines : UserStep(m)
    BY <1>2
  <2>2. CASE ToolRotates(m)
    <3>1. PICK s \in Secrets, new \in Secrets : Post(ToolOf(m), Call("rotate", m, s, new))
      BY <2>2 DEF ToolRotates
    <3>2. QED BY <3>1, PostSends, CallersAre DEF Kinds, Audited
  <2>3. CASE ~ToolRotates(m)
    <3>1. call' = call
      BY <2>1, <2>3 DEF UserStep, UserSetsSecret, UserFlagged, UserSwitches, MachineChanges
    <3>2. QED BY <3>1 DEF Fading, Fades, CallsInv
  <2>4. QED BY <2>2, <2>3
<1>3. QED BY <1>1, <1>2

\* Handlers.
LEMMA HandlerCalls ==
  ASSUME CallsInv, NEW c \in Callers, Handler(c)
  PROVE  \/ Fading
         \/ Proceeds(c, "save") /\ call[c].kind \in {"enroll", "heartbeat", "rotate"}
         \/ Proceeds(c, "audit") /\ call[c].kind \in Audited
<1>1. call[c].at # "none"
  BY DEF Handler, EnrollAgent, VerifyEnvelope, SaveInstance, RotateAgentSecret, CreateMachineGroup,
     EnqueueBatchCommand, AppendCentralAudit, AtHandler
<1>2. CASE Refuse(c)
  BY <1>1, <1>2, AnswerFades DEF Refuse
<1>3. CASE AppendCentralAudit(c)
  BY <1>1, <1>3, AnswerFades DEF AppendCentralAudit, AtHandler
<1>4. CASE SaveInstance(c)
  <2>1. CASE call[c].kind = "enroll"
    BY <1>1, <1>4, <2>1, HandlerProceeds DEF SaveInstance, Audited
  <2>2. CASE call[c].kind # "enroll"
    BY <1>1, <1>4, <2>2, AnswerFades DEF SaveInstance, AtHandler
  <2>3. QED BY <2>1, <2>2
<1>5. CASE ~Refuse(c) /\ (EnrollAgent(c) \/ VerifyEnvelope(c))
  BY <1>1, <1>5, HandlerProceeds DEF EnrollAgent, VerifyEnvelope, AtHandler
<1>6. CASE ~Refuse(c) /\ (RotateAgentSecret(c) \/ CreateMachineGroup(c) \/ EnqueueBatchCommand(c))
  BY <1>1, <1>6, HandlerProceeds
     DEF RotateAgentSecret, CreateMachineGroup, EnqueueBatchCommand, AtHandler, Audited
<1>7. QED BY <1>2, <1>3, <1>4, <1>5, <1>6 DEF Handler

\* Faults.
Breaks ==
  \/ \E c \in Callers : StatementFails(c) \/ Late(c) \/ ConnectionLost(c) \/ HandlerDropped(c)
  \/ \E m \in Machines : DesktopRestarts(m)
  \/ ServerRestarts

\* Failures and restarts only make calls fade.
LEMMA BreakCalls == ASSUME CallsInv, Breaks PROVE Fading
<1>1. \A c : Fades(call[c], NoCall) /\ Fades(call[c], call[c])
  BY DEF Fades
<1>2. ASSUME NEW c \in Callers, call[c].at # "none"
      PROVE  /\ Fades(call[c], [call[c] EXCEPT !.waiting = FALSE])
             /\ Fades(call[c], [call[c] EXCEPT !.fresh = FALSE])
  BY <1>2, CallIsRecord DEF Fades, SameRequest, IsRecord, CallFields
<1>3. ASSUME NEW c \in Callers, StatementFails(c) PROVE Fading
  <2>1. call[c].at # "none" /\ Answer(c, FALSE)
    BY <1>3 DEF StatementFails, Refuse
  <2>2. QED BY <2>1, AnswerFades
<1>4. ASSUME NEW c \in Callers, Late(c) \/ ConnectionLost(c) \/ HandlerDropped(c) PROVE Fading
  <2>1. call[c].at # "none"
    BY <1>4 DEF Late, ConnectionLost, HandlerDropped, AtHandler
  <2>2. \/ call' = [call EXCEPT ![c] = NoCall]
        \/ call' = [call EXCEPT ![c] = [call[c] EXCEPT !.waiting = FALSE]]
        \/ call' = [call EXCEPT ![c] = [call[c] EXCEPT !.fresh = FALSE]]
    BY <1>4 DEF Late, ConnectionLost, HandlerDropped
  <2>3. QED BY <1>1, <1>2, <2>1, <2>2, OneFades
<1>5. ASSUME NEW m \in Machines, DesktopRestarts(m) PROVE Fading
  <2>1. call' = [c \in Callers |->
                IF c \notin {LoopOf(m), WorkerOf(m)} \/ call[c].at = "none" THEN call[c]
                ELSE IF call[c].at = "answered" THEN NoCall
                ELSE [call[c] EXCEPT !.waiting = FALSE]]
    BY <1>5 DEF DesktopRestarts
  <2>2. ASSUME NEW c \in Callers PROVE Fades(call[c], call'[c])
    <3>1. CASE call[c].at = "none" \/ c \notin {LoopOf(m), WorkerOf(m)}
      BY <1>1, <2>1, <3>1
    <3>2. CASE call[c].at = "answered"
      BY <1>1, <2>1, <3>2
    <3>3. CASE call[c].at \notin {"none", "answered"} /\ c \in {LoopOf(m), WorkerOf(m)}
      BY <1>2, <2>1, <3>3
    <3>4. QED BY <3>1, <3>2, <3>3
  <2>3. QED BY <2>1, <2>2 DEF Fading
<1>6. CASE ServerRestarts
  BY <1>1, <1>6 DEF ServerRestarts, Fading
<1>7. QED BY <1>3, <1>4, <1>5, <1>6 DEF Breaks

\* The requests stay requests, whoever goes on with them.
LEMMA SameIsCall ==
  ASSUME NEW c, NEW old, NEW new, IsCall(c, old), SameRequest(old, new),
         new.at \in {old.at, "answered", "save", "audit"}
  PROVE  IsCall(c, new)
  BY DEF IsCall, SameRequest

\* Calls that fade are still calls.
LEMMA FadingKeeps == ASSUME CallsInv, Fading PROVE CallsInv'
<1>1. \A c \in Callers : IsCall(c, call[c]) /\ Fades(call[c], call'[c])
  BY DEF CallsInv, Fading
<1>2. \A c \in Callers : IsCall(c, call'[c])
  <2>1. ASSUME NEW c \in Callers PROVE IsCall(c, call'[c])
    <3>1. IsCall(c, call[c]) /\ Fades(call[c], call'[c])
      BY <1>1
    <3>2. CASE call'[c] = call[c]
      BY <3>1, <3>2
    <3>3. CASE call'[c] = NoCall
      BY <3>3 DEF IsCall
    <3>4. CASE SameRequest(call[c], call'[c]) /\ call'[c].at \in {call[c].at, "answered"}
      BY <3>1, <3>4, SameIsCall
    <3>5. QED BY <3>1, <3>2, <3>3, <3>4 DEF Fades
  <2>2. QED BY <2>1
<1>3. QED BY <1>2 DEF CallsInv, Fading

\* So is one whose handler goes on.
LEMMA ProceedsKeeps ==
  ASSUME CallsInv, NEW c \in Callers, NEW at \in {"save", "audit"}, Proceeds(c, at)
  PROVE  CallsInv'
  BY SameIsCall DEF CallsInv, Proceeds

\* So is one that has just been sent.
LEMMA SendsKeeps == ASSUME CallsInv, NEW c \in Callers, Sends(c) PROVE CallsInv'
  BY DEF CallsInv, Sends

\* Nobody calls at first.
LEMMA InitCalls == Init => CallsInv
  BY DEF Init, CallsInv, IsCall

\* Every step keeps the calls well formed.
LEMMA CallsStep == CallsInv /\ [Next]_vars => CallsInv'
<1> SUFFICES ASSUME CallsInv, [Next]_vars PROVE CallsInv'
  OBVIOUS
<1>1. CASE UNCHANGED vars
  BY <1>1 DEF vars, CallsInv
<1>2. ASSUME NEW m \in Machines, LoopStep(m) \/ WorkerStep(m) PROVE CallsInv'
  BY <1>2, LoopCalls, CallersAre, FadingKeeps, ProceedsKeeps, SendsKeeps
<1>3. CASE OperatorAsks \/ \E m \in Machines : UserStep(m)
  BY <1>3, UserCalls, CallersAre, FadingKeeps, ProceedsKeeps, SendsKeeps
<1>4. ASSUME NEW c \in Callers, Handler(c) PROVE CallsInv'
  BY <1>4, HandlerCalls, FadingKeeps, ProceedsKeeps, SendsKeeps
<1>5. CASE Breaks
  BY <1>5, BreakCalls, FadingKeeps, ProceedsKeeps, SendsKeeps
<1>6. QED BY <1>1, <1>2, <1>3, <1>4, <1>5 DEF Next, Breaks

-----------------------------------------------------------------------------
(***************************************************************************)
(* Batches.                                                                *)
(***************************************************************************)

\* The machines that a request means, as the groups stand.
Named(request, gs) == Range(request.ids) \cup UNION {Range(gs[g]) : g \in Range(request.groups)}

\* A command goes to them, each once.
IsExact(command, gs) ==
  /\ command.request \in Requests /\ Range(command.request.groups) \subseteq DOMAIN gs
  /\ Range(command.targets) = Named(command.request, gs) \ {Nothing}
  /\ IsInjective(command.targets) /\ command.targets # <<>>

BatchInv ==
  /\ groups \in Seq(Seq(Machines))
  /\ commands \in Seq([request : Requests, targets : Seq(Machines)])
  /\ \A k \in DOMAIN commands : IsExact(commands[k], groups)

\* resolve_batch_targets finds the machines meant.
LEMMA ResolvedIsExact ==
  ASSUME groups \in Seq(Seq(Machines)), NEW request \in Requests,
         Range(request.groups) \subseteq DOMAIN groups
  PROVE  /\ ResolveBatchTargets(request) \in Seq(Machines)
         /\ Range(ResolveBatchTargets(request)) = Named(request, groups) \ {Nothing}
         /\ IsInjective(ResolveBatchTargets(request))
<1> DEFINE named == request.ids
           lists == [k \in DOMAIN request.groups |-> groups[request.groups[k]]]
           members == FlattenSeq(lists)
           all == Normalized(named) \o members
<1>1. request.ids \in Seq(Machines \cup {Nothing}) /\ request.groups \in Seq(Nat)
  BY DEF Requests
<1>2. lists \in Seq(Seq(Machines))
  <2>1. DOMAIN request.groups = 1..Len(request.groups) /\ Len(request.groups) \in Nat
    BY <1>1
  <2>2. \A k \in DOMAIN request.groups : request.groups[k] \in DOMAIN groups
    BY DEF Range
  <2>3. \A g \in DOMAIN groups : groups[g] \in Seq(Machines)
    OBVIOUS
  <2>4. lists = [k \in 1..Len(request.groups) |-> lists[k]]
    BY <2>1
  <2>5. \A k \in 1..Len(request.groups) : lists[k] \in Seq(Machines)
    BY <2>1, <2>2, <2>3
  <2> HIDE DEF lists
  <2>6. lists \in [1..Len(request.groups) -> Seq(Machines)]
    BY <2>4, <2>5
  <2>7. QED BY <2>1, <2>6, SeqDef
<1>3. DOMAIN lists = DOMAIN request.groups
  OBVIOUS
<1>4. \A x : (\E k \in DOMAIN lists : x \in Range(lists[k]))
               <=> \E g \in Range(request.groups) : x \in Range(groups[g])
  BY DEF Range
<1> HIDE DEF lists
<1>5. members \in Seq(Machines) /\ Range(members) = UNION {Range(lists[k]) : k \in DOMAIN lists}
  BY <1>2, FlattenSeqIsExact
<1>6. Range(members) = UNION {Range(groups[g]) : g \in Range(request.groups)}
  BY <1>4, <1>5
<1>7. /\ Normalized(named) \in Seq(Machines)
      /\ Range(Normalized(named)) = Range(named) \ {Nothing}
  BY <1>1, NormalizedIsExact
<1> HIDE DEF members
<1>8. all \in Seq(Machines) /\ Range(all) = Range(Normalized(named)) \cup Range(members)
  BY <1>5, <1>7, ConcatRange
<1>9. all \in Seq(Machines \cup {Nothing})
  BY <1>8
<1> HIDE DEF all
<1>10. /\ Normalized(all) \in Seq(Machines) /\ Range(Normalized(all)) = Range(all) \ {Nothing}
       /\ IsInjective(Normalized(all))
  BY <1>9, NormalizedIsExact
<1>11. ResolveBatchTargets(request) = Normalized(all)
  BY DEF ResolveBatchTargets, all, members, lists
<1>12. Range(all) \ {Nothing} = Named(request, groups) \ {Nothing}
  BY <1>6, <1>7, <1>8 DEF Named
<1>13. QED BY <1>10, <1>11, <1>12

\* A new group changes nothing for the commands there are.
LEMMA GroupStep ==
  ASSUME CallsInv, BatchInv, NEW c \in Callers, CreateMachineGroup(c),
         ~UNCHANGED <<groups, commands>>
  PROVE  BatchInv'
<1>1. /\ groups' = Append(groups, Normalized(call[c].value.ids)) /\ commands' = commands
      /\ call[c].value.ids \in Seq(Machines \cup {Nothing})
  <2>1. AtHandler(c, "sent", {"group"}) /\ ~Refuse(c)
    BY DEF CreateMachineGroup, Refuse, tables
  <2>2. call[c].value \in Requests
    BY <2>1 DEF CallsInv, IsCall, AtHandler, NoCall
  <2>3. QED BY <2>1, <2>2 DEF CreateMachineGroup, Requests
<1> DEFINE new == Normalized(call[c].value.ids)
<1>2. new \in Seq(Machines)
  BY <1>1, NormalizedIsExact
<1> HIDE DEF new
<1>3. /\ groups' \in Seq(Seq(Machines)) /\ DOMAIN groups \subseteq DOMAIN groups'
      /\ \A g \in DOMAIN groups : groups'[g] = groups[g]
  BY <1>1, <1>2 DEF BatchInv, new
<1>4. ASSUME NEW command, IsExact(command, groups) PROVE IsExact(command, groups')
  <2>1. UNION {Range(groups[g]) : g \in Range(command.request.groups)}
          = UNION {Range(groups'[g]) : g \in Range(command.request.groups)}
    <3>1. \A g \in Range(command.request.groups) : groups'[g] = groups[g]
      BY <1>3, <1>4 DEF IsExact
    <3>2. QED BY <3>1
  <2>2. QED BY <1>3, <1>4, <2>1 DEF IsExact, Named
<1>5. QED BY <1>1, <1>3, <1>4 DEF BatchInv

\* A new command goes where it should.
LEMMA EnqueueStep ==
  ASSUME CallsInv, BatchInv, NEW c \in Callers, EnqueueBatchCommand(c),
         ~UNCHANGED <<groups, commands>>
  PROVE  BatchInv'
<1> DEFINE request == call[c].value
           new == [request |-> request, targets |-> ResolveBatchTargets(request)]
<1>1. /\ Range(request.groups) \subseteq DOMAIN groups /\ ResolveBatchTargets(request) # <<>>
      /\ commands' = Append(commands, new) /\ groups' = groups
      /\ request \in Requests
  <2>1. AtHandler(c, "sent", {"batch"}) /\ ~Refuse(c)
    BY DEF EnqueueBatchCommand, Refuse, tables
  <2>2. call[c].value \in Requests
    BY <2>1 DEF CallsInv, IsCall, AtHandler, NoCall
  <2>3. QED BY <2>1, <2>2 DEF EnqueueBatchCommand
<1> HIDE DEF request
<1>2. IsExact(new, groups) /\ new \in [request : Requests, targets : Seq(Machines)]
  BY <1>1, ResolvedIsExact DEF BatchInv, IsExact
<1> HIDE DEF new
<1>3. QED BY <1>1, <1>2 DEF BatchInv

\* Only the two handlers that resolve targets touch groups and commands.
LEMMA BatchStep == CallsInv /\ BatchInv /\ [Next]_vars => BatchInv'
<1> SUFFICES ASSUME CallsInv, BatchInv, [Next]_vars PROVE BatchInv'
  OBVIOUS
<1>1. CASE UNCHANGED <<groups, commands>>
  BY <1>1 DEF BatchInv
<1>2. CASE ~UNCHANGED <<groups, commands>>
  <2>1. ~UNCHANGED vars /\ ~OperatorAsks /\ ~ServerRestarts
    BY <1>2 DEF vars, tables, OperatorAsks, ServerRestarts
  <2>2. \A m \in Machines : ~LoopStep(m) /\ ~WorkerStep(m) /\ ~UserStep(m) /\ ~DesktopRestarts(m)
    BY <1>2 DEF LoopStep, AgentEnrolls, AgentEnrolled, AgentBeats, AgentSleeps,
       WorkerStep, WorkerBeats, WorkerSleeps, UserStep, UserSetsSecret, UserFlagged, UserSwitches,
       MachineChanges, ToolRotates, DesktopRestarts, tables
  <2>3. \A c \in Callers :
          ~StatementFails(c) /\ ~Late(c) /\ ~ConnectionLost(c) /\ ~HandlerDropped(c)
    BY <1>2 DEF StatementFails, Refuse, Late, ConnectionLost, HandlerDropped, tables
  <2>4. PICK c \in Callers : Handler(c)
    BY <2>1, <2>2, <2>3 DEF Next
  <2>5. CreateMachineGroup(c) \/ EnqueueBatchCommand(c)
    BY <1>2, <2>4 DEF Handler, EnrollAgent, VerifyEnvelope, SaveInstance, RotateAgentSecret,
       AppendCentralAudit, Refuse, tables
  <2>6. QED BY <1>2, <2>4, <2>5, GroupStep, EnqueueStep
<1>3. QED BY <1>1, <1>2

\* A command goes to the machines its operator named and to the members of the
\* groups, each once, whatever lists, repetitions and blanks the operator writes.
THEOREM BatchesAreExact == Spec => []BatchTargetsExact
<1>1. Init => BatchInv
  BY DEF Init, BatchInv
<1>2. BatchInv => BatchTargetsExact
  BY DEF BatchInv, BatchTargetsExact, IsExact, Named
<1>3. QED BY <1>1, <1>2, InitCalls, CallsStep, BatchStep, PTL DEF Spec

-----------------------------------------------------------------------------
(***************************************************************************)
(* The central audit.  A handler that has done its work and is still to    *)
(* append its entry owes one.                                              *)
(***************************************************************************)

Owing(r, k) ==
  r # NoCall /\ r.kind = k /\ (r.at = "audit" \/ (k = "enroll" /\ r.at = "save"))

Owed(k) == {c \in Callers : Owing(call[c], k)}

\* Work, less the entries owed, is in the audit, and what callers were told is too.
Balanced(k) ==
  /\ IsFiniteSet(Owed(k))
  /\ told[k] <= audit[k] /\ audit[k] + Cardinality(Owed(k)) <= done[k]

AuditInv ==
  /\ {audit, done, told} \subseteq [Audited -> Nat]
  /\ \A k \in Audited : Balanced(k)

\* Fewer entries are owed, and more has been done.
LEMMA OwedLess ==
  ASSUME AuditInv, NEW k \in Audited, Owed(k)' \subseteq Owed(k),
         UNCHANGED <<audit, told>>, done'[k] \in Nat, done[k] <= done'[k]
  PROVE  Balanced(k)'
<1>1. /\ IsFiniteSet(Owed(k)) /\ IsFiniteSet(Owed(k)')
      /\ Cardinality(Owed(k)') <= Cardinality(Owed(k))
      /\ Cardinality(Owed(k)) \in Nat /\ Cardinality(Owed(k)') \in Nat
  BY FS_Subset, FS_CardinalityType DEF AuditInv, Balanced
<1>2. /\ audit[k] \in Nat /\ done[k] \in Nat
      /\ told[k] <= audit[k] /\ audit[k] + Cardinality(Owed(k)) <= done[k]
  BY DEF AuditInv, Balanced
<1> DEFINE n == Cardinality(Owed(k))
           m == Cardinality(Owed(k)')
<1> HIDE DEF n, m
<1>3. audit[k] + m <= done'[k]
  BY <1>1, <1>2 DEF n, m
<1>4. QED BY <1>1, <1>2, <1>3 DEF Balanced, m

\* One more entry is owed for work just done.
LEMMA OwedMore ==
  ASSUME AuditInv, NEW k \in Audited, NEW c, Owed(k)' \subseteq Owed(k) \cup {c},
         UNCHANGED <<audit, told>>, done'[k] = done[k] + 1
  PROVE  Balanced(k)'
<1>1. /\ IsFiniteSet(Owed(k)) /\ Cardinality(Owed(k)) \in Nat
      /\ audit[k] \in Nat /\ done[k] \in Nat
      /\ told[k] <= audit[k] /\ audit[k] + Cardinality(Owed(k)) <= done[k]
  BY FS_CardinalityType DEF AuditInv, Balanced
<1>2. /\ IsFiniteSet(Owed(k) \cup {c})
      /\ Cardinality(Owed(k) \cup {c}) \in Nat
      /\ Cardinality(Owed(k) \cup {c}) <= Cardinality(Owed(k)) + 1
  <2>1. c \notin Owed(k) => Cardinality(Owed(k) \cup {c}) = Cardinality(Owed(k)) + 1
    BY <1>1, FS_AddElement
  <2>2. c \in Owed(k) => Owed(k) \cup {c} = Owed(k)
    OBVIOUS
  <2>3. IsFiniteSet(Owed(k) \cup {c}) /\ Cardinality(Owed(k) \cup {c}) \in Nat
    BY <1>1, FS_AddElement, FS_CardinalityType
  <2> DEFINE n == Cardinality(Owed(k))
             l == Cardinality(Owed(k) \cup {c})
  <2>4. n \in Nat /\ l \in Nat /\ (l = n \/ l = n + 1)
    BY <1>1, <2>1, <2>2, <2>3
  <2> HIDE DEF n, l
  <2>5. l <= n + 1
    BY <2>4
  <2>6. QED BY <2>3, <2>5 DEF n, l
<1>3. /\ IsFiniteSet(Owed(k)') /\ Cardinality(Owed(k)') \in Nat
      /\ Cardinality(Owed(k)') <= Cardinality(Owed(k) \cup {c})
  BY <1>2, FS_Subset, FS_CardinalityType
<1> DEFINE n == Cardinality(Owed(k))
           m == Cardinality(Owed(k)')
           l == Cardinality(Owed(k) \cup {c})
<1> HIDE DEF n, m, l
<1>4. audit[k] + m <= done'[k]
  BY <1>1, <1>2, <1>3 DEF n, m, l
<1>5. QED BY <1>1, <1>3, <1>4 DEF Balanced, m

\* An entry that was owed is appended.
LEMMA OwedPaid ==
  ASSUME AuditInv, NEW k \in Audited, NEW c \in Owed(k), Owed(k)' \subseteq Owed(k) \ {c},
         audit'[k] = audit[k] + 1, told'[k] = told[k] + 1, UNCHANGED done
  PROVE  Balanced(k)'
<1>1. /\ IsFiniteSet(Owed(k)) /\ Cardinality(Owed(k)) \in Nat
      /\ audit[k] \in Nat /\ done[k] \in Nat /\ told[k] \in Nat
      /\ told[k] <= audit[k] /\ audit[k] + Cardinality(Owed(k)) <= done[k]
  BY FS_CardinalityType DEF AuditInv, Balanced
<1>2. /\ IsFiniteSet(Owed(k) \ {c}) /\ Cardinality(Owed(k) \ {c}) \in Nat
      /\ Cardinality(Owed(k) \ {c}) = Cardinality(Owed(k)) - 1
  BY <1>1, FS_RemoveElement, FS_CardinalityType
<1>3. /\ IsFiniteSet(Owed(k)') /\ Cardinality(Owed(k)') \in Nat
      /\ Cardinality(Owed(k)') <= Cardinality(Owed(k) \ {c})
  BY <1>2, FS_Subset, FS_CardinalityType
<1> DEFINE n == Cardinality(Owed(k))
           m == Cardinality(Owed(k)')
           l == Cardinality(Owed(k) \ {c})
<1> HIDE DEF n, m, l
<1>4. audit'[k] + m <= done[k] /\ told'[k] <= audit'[k]
  BY <1>1, <1>2, <1>3 DEF n, m, l
<1>5. QED BY <1>3, <1>4 DEF Balanced, m

\* Requests that fade or arrive owe nothing more; one that proceeds owes at most
\* an entry itself.
LEMMA OwedBy ==
  ASSUME NEW k
  PROVE  /\ Fading => Owed(k)' \subseteq Owed(k)
         /\ \A c \in Callers : Sends(c) => Owed(k)' \subseteq Owed(k)
         /\ \A c \in Callers, at \in {"save", "audit"} :
              Proceeds(c, at) => /\ Owed(k)' \subseteq Owed(k) \cup {c}
                                 /\ k # call[c].kind => Owed(k)' \subseteq Owed(k)
                                 /\ at = "save" /\ k # "enroll" => Owed(k)' \subseteq Owed(k)
<1>1. ASSUME NEW c \in Callers, Fades(call[c], call'[c])
      PROVE  Owing(call'[c], k) => Owing(call[c], k)
  BY <1>1 DEF Fades, Owing, SameRequest
<1>2. Fading => Owed(k)' \subseteq Owed(k)
  BY <1>1 DEF Fading, Owed
<1>3. \A c \in Callers : Sends(c) => Owed(k)' \subseteq Owed(k)
  BY DEF Sends, Owed, Owing
<1>4. \A c \in Callers, at \in {"save", "audit"} :
        Proceeds(c, at) => /\ Owed(k)' \subseteq Owed(k) \cup {c}
                           /\ k # call[c].kind => Owed(k)' \subseteq Owed(k)
                           /\ at = "save" /\ k # "enroll" => Owed(k)' \subseteq Owed(k)
  BY DEF Proceeds, Owed, Owing, SameRequest
<1>5. QED BY <1>2, <1>3, <1>4

\* Nothing done, nothing owed.
LEMMA NothingOwed ==
  ASSUME AuditInv, UNCHANGED <<audit, done, told>>, \A k \in Audited : Owed(k)' \subseteq Owed(k)
  PROVE  AuditInv'
<1>1. \A k \in Audited : done'[k] \in Nat /\ done[k] <= done'[k]
  BY DEF AuditInv
<1>2. QED BY <1>1, OwedLess DEF AuditInv

\* A handler that does audited work.
LEMMA WorkOwed ==
  ASSUME CallsInv, AuditInv, NEW c \in Callers, call[c].at # "none", call[c].kind \in Audited,
         NEW at \in {"save", "audit"}, HandlerTo(c, at), Done(call[c].kind),
         UNCHANGED <<audit, told>>
  PROVE  AuditInv'
<1> PICK kind \in Audited : call[c].kind = kind
  OBVIOUS
<1>1. Proceeds(c, at)
  BY HandlerProceeds
<1>2. /\ done' \in [Audited -> Nat] /\ done'[kind] = done[kind] + 1
      /\ \A k \in Audited \ {kind} : done'[k] \in Nat /\ done[k] <= done'[k]
  BY DEF Done, AuditInv
<1>3. Balanced(kind)'
  BY <1>1, <1>2, OwedBy, OwedMore
<1>4. ASSUME NEW k \in Audited \ {kind} PROVE Balanced(k)'
  <2>1. Owed(k)' \subseteq Owed(k)
    BY <1>1, OwedBy
  <2>2. QED BY <1>2, <2>1, OwedLess
<1>5. QED BY <1>2, <1>3, <1>4 DEF AuditInv

\* The entry is appended before the caller is told.
LEMMA EntryAppended ==
  ASSUME CallsInv, AuditInv, NEW c \in Callers, AppendCentralAudit(c)
  PROVE  AuditInv'
<1> PICK kind \in Audited : call[c].kind = kind
  BY DEF AppendCentralAudit, AtHandler
<1>1. /\ call[c].at = "audit" /\ Answer(c, TRUE)
      /\ audit' = [audit EXCEPT ![kind] = @ + 1] /\ told' = [told EXCEPT ![kind] = @ + 1]
      /\ done' = done
  BY DEF AppendCentralAudit, AtHandler, Answer
<1>2. Fading
  BY <1>1, AnswerFades
<1>3. c \in Owed(kind)
  BY <1>1 DEF Owed, Owing, NoCall
<1>4. call'[c] = NoCall \/ call'[c].at = "answered"
  BY <1>1, CallIsRecord DEF Answer, CallsInv, IsRecord, CallFields
<1>5. Owed(kind)' \subseteq Owed(kind) \ {c}
  <2>1. c \notin Owed(kind)'
    BY <1>4 DEF Owed, Owing
  <2>2. QED BY <1>2, <2>1, OwedBy
<1>6. /\ {audit', done', told'} \subseteq [Audited -> Nat]
      /\ audit'[kind] = audit[kind] + 1 /\ told'[kind] = told[kind] + 1
      /\ \A k \in Audited \ {kind} : audit'[k] = audit[k] /\ told'[k] = told[k]
  BY <1>1 DEF AuditInv
<1>7. Balanced(kind)'
  BY <1>1, <1>3, <1>5, <1>6, OwedPaid
<1>8. ASSUME NEW k \in Audited \ {kind} PROVE Balanced(k)'
  <2>1. Owed(k)' \subseteq Owed(k)
    BY <1>2, OwedBy
  <2>2. /\ IsFiniteSet(Owed(k)) /\ IsFiniteSet(Owed(k)')
        /\ Cardinality(Owed(k)') <= Cardinality(Owed(k))
        /\ Cardinality(Owed(k)) \in Nat /\ Cardinality(Owed(k)') \in Nat
    BY <2>1, FS_Subset, FS_CardinalityType DEF AuditInv, Balanced
  <2>3. /\ audit[k] \in Nat /\ done[k] \in Nat
        /\ told[k] <= audit[k] /\ audit[k] + Cardinality(Owed(k)) <= done[k]
    BY DEF AuditInv, Balanced
  <2> DEFINE m == Cardinality(Owed(k)')
  <2> HIDE DEF m
  <2>4. audit'[k] + m <= done'[k] /\ told'[k] <= audit'[k]
    BY <1>1, <1>6, <2>2, <2>3 DEF m
  <2>5. QED BY <2>2, <2>4 DEF Balanced, m
<1>9. QED BY <1>6, <1>7, <1>8 DEF AuditInv

\* A handler that works owes one entry, and pays it before it answers yes.
LEMMA HandlerAudits ==
  ASSUME CallsInv, AuditInv, NEW c \in Callers, Handler(c)
  PROVE  AuditInv'
<1>1. call[c].at # "none"
  BY DEF Handler, EnrollAgent, VerifyEnvelope, SaveInstance, RotateAgentSecret, CreateMachineGroup,
     EnqueueBatchCommand, AppendCentralAudit, AtHandler
<1>2. CASE Refuse(c)
  <2>1. Fading /\ UNCHANGED <<audit, done, told>>
    BY <1>1, <1>2, AnswerFades DEF Refuse, Answer, tables
  <2>2. QED BY <2>1, OwedBy, NothingOwed
<1>3. CASE AppendCentralAudit(c)
  BY <1>3, EntryAppended
<1>4. CASE SaveInstance(c)
  <2>1. UNCHANGED <<audit, done>>
    BY <1>4 DEF SaveInstance
  <2>2. CASE call[c].kind = "enroll"
    <3>1. Proceeds(c, "audit") /\ UNCHANGED told /\ call[c].at = "save"
      BY <1>1, <1>4, <2>2, HandlerProceeds DEF SaveInstance, AtHandler
    <3>2. \A k \in Audited : Owed(k)' \subseteq Owed(k)
      <4>1. c \in Owed("enroll")
        BY <2>2, <3>1 DEF Owed, Owing, NoCall
      <4>2. QED BY <2>2, <3>1, <4>1, OwedBy
    <3>3. QED BY <2>1, <3>1, <3>2, NothingOwed
  <2>3. CASE call[c].kind # "enroll"
    <3>1. call[c].kind = "heartbeat" /\ Answer(c, TRUE)
      BY <1>4, <2>3 DEF SaveInstance, AtHandler
    <3>2. Fading /\ UNCHANGED told
      BY <1>1, <3>1, AnswerFades DEF Answer, Audited
    <3>3. QED BY <2>1, <3>2, OwedBy, NothingOwed
  <2>4. QED BY <2>2, <2>3
<1>5. CASE ~Refuse(c) /\ VerifyEnvelope(c)
  <2>1. Proceeds(c, "save") /\ UNCHANGED <<audit, done, told>> /\ call[c].kind # "enroll"
    BY <1>1, <1>5, HandlerProceeds DEF VerifyEnvelope, AtHandler, tables
  <2>2. \A k \in Audited : Owed(k)' \subseteq Owed(k)
    BY <2>1, OwedBy
  <2>3. QED BY <2>1, <2>2, NothingOwed
<1>6. CASE ~Refuse(c) /\ EnrollAgent(c)
  <2>1. /\ call[c].kind = "enroll" /\ HandlerTo(c, "save") /\ Done("enroll")
        /\ UNCHANGED <<audit, told>>
    BY <1>6 DEF EnrollAgent, AtHandler
  <2>2. QED BY <1>1, <2>1, WorkOwed DEF Audited
<1>7. CASE ~Refuse(c) /\ (RotateAgentSecret(c) \/ CreateMachineGroup(c) \/ EnqueueBatchCommand(c))
  <2>1. /\ call[c].kind \in Audited /\ HandlerTo(c, "audit") /\ Done(call[c].kind)
        /\ UNCHANGED <<audit, told>>
    BY <1>7 DEF RotateAgentSecret, CreateMachineGroup, EnqueueBatchCommand, AtHandler, Audited
  <2>2. QED BY <1>1, <2>1, WorkOwed
<1>8. QED BY <1>2, <1>3, <1>4, <1>5, <1>6, <1>7 DEF Handler

\* Every step keeps the account of entries owed, written and told.
LEMMA AuditStep == CallsInv /\ AuditInv /\ [Next]_vars => AuditInv'
<1> SUFFICES ASSUME CallsInv, AuditInv, [Next]_vars PROVE AuditInv'
  OBVIOUS
<1>1. CASE UNCHANGED vars
  BY <1>1, NothingOwed DEF vars, tables, observed, Owed
<1>2. ASSUME NEW c \in Callers, Handler(c) PROVE AuditInv'
  BY <1>2, HandlerAudits
<1>3. CASE Breaks
  <2>1. Fading
    BY <1>3, BreakCalls
  <2>2. UNCHANGED <<audit, done, told>>
    BY <1>3 DEF Breaks, StatementFails, Refuse, Answer, Late, ConnectionLost, HandlerDropped,
       DesktopRestarts, ServerRestarts, tables, observed
  <2>3. QED BY <2>1, <2>2, OwedBy, NothingOwed
<1>4. ASSUME NEW m \in Machines, LoopStep(m) \/ WorkerStep(m) PROVE AuditInv'
  <2>1. Fading \/ Sends(LoopOf(m)) \/ Sends(WorkerOf(m))
    BY <1>4, LoopCalls
  <2>2. UNCHANGED <<audit, done, told>>
    BY <1>4 DEF LoopStep, AgentEnrolls, AgentEnrolled, AgentBeats, AgentSleeps,
       WorkerStep, WorkerBeats, WorkerSleeps, tables, observed
  <2>3. \A k \in Audited : Owed(k)' \subseteq Owed(k)
    BY <2>1, OwedBy, CallersAre
  <2>4. QED BY <2>2, <2>3, NothingOwed
<1>5. CASE OperatorAsks \/ \E m \in Machines : UserStep(m)
  <2>1. Fading \/ Sends(Operator) \/ \E m \in Machines : Sends(ToolOf(m))
    BY <1>5, UserCalls
  <2>2. UNCHANGED <<audit, done, told>>
    BY <1>5 DEF OperatorAsks, UserStep, UserSetsSecret, UserFlagged, UserSwitches, MachineChanges,
       ToolRotates, tables, observed
  <2>3. \A k \in Audited : Owed(k)' \subseteq Owed(k)
    BY <2>1, OwedBy, CallersAre
  <2>4. QED BY <2>2, <2>3, NothingOwed
<1>6. QED BY <1>1, <1>2, <1>3, <1>4, <1>5 DEF Next, Breaks

\* No caller is told of success that the central audit does not hold, and the
\* audit holds nothing that was not done, whatever fails, stops or comes between
\* the statements of a handler.
THEOREM AnswersAreAudited == Spec => []AuditTrail
<1>1. Init => AuditInv
  <2>1. SUFFICES ASSUME Init PROVE AuditInv
    OBVIOUS
  <2>2. \A k \in Audited : audit[k] = 0 /\ done[k] = 0 /\ told[k] = 0
    BY <2>1 DEF Init
  <2>3. ASSUME NEW k \in Audited PROVE IsFiniteSet(Owed(k)) /\ Cardinality(Owed(k)) = 0
    <3>1. Owed(k) = {}
      BY <2>1 DEF Init, Owed, Owing
    <3>2. QED BY <3>1, FS_EmptySet
  <2>4. {audit, done, told} \subseteq [Audited -> Nat]
    BY <2>1 DEF Init
  <2>5. QED BY <2>2, <2>3, <2>4 DEF AuditInv, Balanced
<1>2. AuditInv => AuditTrail
  <2>1. SUFFICES ASSUME AuditInv, NEW k \in Audited
                 PROVE  told[k] <= audit[k] /\ audit[k] <= done[k]
    BY DEF AuditTrail
  <2>2. /\ IsFiniteSet(Owed(k)) /\ audit[k] \in Nat /\ done[k] \in Nat
        /\ told[k] <= audit[k] /\ audit[k] + Cardinality(Owed(k)) <= done[k]
    BY <2>1 DEF AuditInv, Balanced
  <2> DEFINE n == Cardinality(Owed(k))
  <2>3. n \in Nat /\ audit[k] + n <= done[k]
    BY <2>2, FS_CardinalityType
  <2> HIDE DEF n
  <2>4. QED BY <2>2, <2>3
<1>3. QED BY <1>1, <1>2, InitCalls, CallsStep, AuditStep, PTL DEF Spec

-----------------------------------------------------------------------------
(***************************************************************************)
(* Secrets.                                                                *)
(***************************************************************************)

\* One record for each machine.
ShapesInv ==
  /\ keyring = [m \in Machines |-> keyring[m]]
  /\ loop = [m \in Machines |-> loop[m]]
  /\ \A m \in Machines : loop[m] = [f \in {"at", "enrolled"} |-> loop[m][f]]
  /\ agents = [m \in Machines |-> agents[m]]
  /\ \A m \in Machines : agents[m] = [f \in {"secret", "snapshot"} |-> agents[m][f]]

\* The loop of m has an enrolment under way, and the server has taken its secret.
Enrolling(m) == call[LoopOf(m)] # NoCall /\ call[LoopOf(m)].kind = "enroll"

Taken(r) == r.at \in {"save", "audit"} \/ (r.at = "answered" /\ r.ok)

\* As long as nobody has changed its secret, a machine enrols with the one in its
\* keyring, and has not enrolled without; the server keeps what it has taken.
MachineInv(m) ==
  /\ loop[m].at = "enrolling" /\ call[LoopOf(m)] # NoCall => Enrolling(m)
  /\ m \notin changed =>
       /\ Enrolling(m) => call[LoopOf(m)].secret = keyring[m] /\ keyring[m] # Nothing
       /\ loop[m].enrolled => keyring[m] # Nothing
  /\ Unchanged(m) /\ (loop[m].enrolled \/ (Enrolling(m) /\ Taken(call[LoopOf(m)])))
       => agents[m].secret = keyring[m]

SecretsInv == ShapesInv /\ \A m \in Machines : MachineInv(m)

\* A request that goes on without its secret being taken now.
Continues(old, new) ==
  \/ Fades(old, new)
  \/ SameRequest(old, new) /\ (old.kind # "enroll" \/ (old.at = "save" /\ new.at = "audit"))

\* A step that leaves the secrets of a machine alone.
LEMMA SecretsFrame ==
  ASSUME NEW m, MachineInv(m), keyring'[m] = keyring[m], bootstrap'[m] = bootstrap[m],
         m \notin changed' => m \notin changed, agents'[m].secret = agents[m].secret,
         loop'[m].enrolled => loop[m].enrolled,
         loop'[m].at = "enrolling" => loop[m].at = "enrolling",
         Continues(call[LoopOf(m)], call'[LoopOf(m)])
  PROVE  MachineInv(m)'
<1>1. /\ Enrolling(m)' => Enrolling(m) /\ call'[LoopOf(m)].secret = call[LoopOf(m)].secret
      /\ Enrolling(m) /\ call'[LoopOf(m)] # NoCall => Enrolling(m)'
      /\ Enrolling(m)' /\ Taken(call[LoopOf(m)])' => Taken(call[LoopOf(m)])
      /\ call'[LoopOf(m)] # NoCall => call[LoopOf(m)] # NoCall
  BY DEF Continues, Fades, SameRequest, Enrolling, Taken
<1>2. Unchanged(m)' => Unchanged(m)
  BY DEF Unchanged
<1>3. QED BY <1>1, <1>2 DEF MachineInv

\* Each machine has its own calls.
LEMMA OwnCalls ==
  ASSUME NEW m
  PROVE  /\ \A n : LoopOf(m) = LoopOf(n) => m = n
         /\ \A n : LoopOf(m) # WorkerOf(n) /\ LoopOf(m) # ToolOf(n)
         /\ LoopOf(m) # Operator
  BY DEF LoopOf, WorkerOf, ToolOf, Operator

\* What some steps have in common.
LEMMA SecretsAlone ==
  ASSUME SecretsInv, UNCHANGED <<keyring, bootstrap, agents, loop, changed>>,
         \A m \in Machines : Continues(call[LoopOf(m)], call'[LoopOf(m)])
  PROVE  SecretsInv'
<1>1. \A m \in Machines : MachineInv(m)'
  BY SecretsFrame DEF SecretsInv
<1>2. QED BY <1>1 DEF SecretsInv, ShapesInv

\* The remote agent and the heartbeat worker.
LEMMA LoopSecrets ==
  ASSUME CallsInv, SecretsInv, NEW m \in Machines, LoopStep(m) \/ WorkerStep(m)
  PROVE  SecretsInv'
<1>1. UNCHANGED <<keyring, bootstrap, agents, changed>>
  BY DEF LoopStep, AgentEnrolls, AgentEnrolled, AgentBeats, AgentSleeps, WorkerStep, WorkerBeats,
     WorkerSleeps, tables, observed
<1>2. \A n : Continues(call[n], call[n])
  BY DEF Continues, Fades
<1>3. CASE WorkerStep(m)
  <2>1. UNCHANGED loop /\ \A n \in Machines : call'[LoopOf(n)] = call[LoopOf(n)]
    BY <1>3, OwnCalls, CallersAre DEF WorkerStep, WorkerBeats, WorkerSleeps, Post, CallsInv
  <2>2. QED BY <1>1, <1>2, <2>1, SecretsAlone
<1>4. CASE LoopStep(m)
  <2>1. ShapesInv'
    BY <1>1, <1>4 DEF LoopStep, AgentEnrolls, AgentEnrolled, AgentBeats, AgentSleeps,
       SecretsInv, ShapesInv
  <2>2. ASSUME NEW n \in Machines \ {m} PROVE MachineInv(n)'
    <3>1. call'[LoopOf(n)] = call[LoopOf(n)] /\ loop'[n] = loop[n]
      BY <1>4, OwnCalls, CallersAre
         DEF LoopStep, AgentEnrolls, AgentEnrolled, AgentBeats, AgentSleeps, Post, CallsInv,
             SecretsInv, ShapesInv
    <3>2. QED BY <1>1, <1>2, <3>1, SecretsFrame DEF SecretsInv
  <2>3. MachineInv(m) /\ IsCall(LoopOf(m), call[LoopOf(m)])
    BY CallersAre DEF SecretsInv, CallsInv
  <2>4. /\ loop[m] = [f \in {"at", "enrolled"} |-> loop[m][f]] /\ LoopOf(m) \in Callers
        /\ loop = [n \in Machines |-> loop[n]] /\ call = [c \in Callers |-> call[c]]
    BY CallersAre DEF SecretsInv, ShapesInv, CallsInv
  <2>5. ASSUME AgentEnrolls(m) PROVE MachineInv(m)'
    <3>1. /\ call'[LoopOf(m)] = Call("enroll", m, keyring[m], content[m]) /\ keyring[m] # Nothing
          /\ ~loop'[m].enrolled
      BY <2>4, <2>5 DEF AgentEnrolls, Post, MayAct
    <3>2. /\ ~Taken(call'[LoopOf(m)]) /\ call'[LoopOf(m)].kind = "enroll"
          /\ call'[LoopOf(m)].secret = keyring[m]
          /\ call'[LoopOf(m)] # NoCall
      BY <3>1 DEF Call, Taken, NoCall
    <3>3. QED BY <1>1, <3>1, <3>2 DEF MachineInv, Enrolling, Taken
  <2>6. ASSUME AgentBeats(m) PROVE MachineInv(m)'
    <3>1. /\ call'[LoopOf(m)] = Call("heartbeat", m, keyring[m], content[m])
          /\ loop'[m].at = "beating" /\ (loop'[m].enrolled <=> loop[m].enrolled)
      BY <2>4, <2>6 DEF AgentBeats, Post
    <3>2. call'[LoopOf(m)].kind = "heartbeat"
      BY <3>1 DEF Call
    <3>3. QED BY <1>1, <2>3, <3>1, <3>2 DEF MachineInv, Enrolling, Unchanged
  <2>7. ASSUME AgentSleeps(m) PROVE MachineInv(m)'
    <3>1. /\ call'[LoopOf(m)] \in {NoCall, call[LoopOf(m)]}
          /\ loop'[m].at = "idle" /\ (loop'[m].enrolled <=> loop[m].enrolled)
      BY <2>4, <2>7 DEF AgentSleeps
    <3>2. QED BY <1>1, <2>3, <3>1, SecretsFrame DEF Continues, Fades
  <2>8. ASSUME AgentEnrolled(m) PROVE MachineInv(m)'
    <3>1. /\ call'[LoopOf(m)] = NoCall /\ loop'[m].at # "enrolling"
          /\ (loop'[m].enrolled <=> call[LoopOf(m)].ok)
          /\ loop[m].at = "enrolling" /\ call[LoopOf(m)].at = "answered"
      BY <2>4, <2>8 DEF AgentEnrolled
    <3>2. Enrolling(m) /\ (call[LoopOf(m)].ok => Taken(call[LoopOf(m)]))
      BY <2>3, <3>1 DEF MachineInv, NoCall, Taken
    <3>3. QED BY <1>1, <2>3, <3>1, <3>2 DEF MachineInv, Enrolling, Unchanged
  <2>9. MachineInv(m)'
    BY <1>4, <2>5, <2>6, <2>7, <2>8 DEF LoopStep
  <2>10. QED BY <2>1, <2>2, <2>9 DEF SecretsInv
<1>5. QED BY <1>3, <1>4

\* Users, tools and operators.
LEMMA UserSecrets ==
  ASSUME CallsInv, SecretsInv, OperatorAsks \/ \E m \in Machines : UserStep(m)
  PROVE  SecretsInv'
<1>1. \A n \in Machines : Continues(call[LoopOf(n)], call'[LoopOf(n)])
  <2>1. Fading \/ \E c \in Callers : /\ \A d \in Callers \ {c} : call'[d] = call[d]
                                     /\ \A n \in Machines : c # LoopOf(n)
    BY UserCalls, CallersAre, OwnCalls DEF Sends
  <2>2. QED BY <2>1, CallersAre DEF Fading, Continues, Fades
<1>2. UNCHANGED <<bootstrap, agents, loop>>
  BY DEF OperatorAsks, UserStep, UserSetsSecret, UserFlagged, UserSwitches, MachineChanges,
     ToolRotates, tables, desktop
<1>3. CASE UNCHANGED <<keyring, changed>>
  BY <1>1, <1>2, <1>3, SecretsAlone
<1>4. CASE \E m \in Machines : UserSetsSecret(m)
  <2>1. PICK m \in Machines : UserSetsSecret(m)
    BY <1>4
  <2>2. /\ call' = call /\ \A n \in Machines \ {m} : keyring'[n] = keyring[n]
        /\ keyring' = [n \in Machines |-> keyring'[n]]
        /\ changed' = IF keyring[m] = Nothing THEN changed ELSE changed \cup {m}
    BY <2>1 DEF UserSetsSecret, SecretsInv, ShapesInv
  <2>3. ASSUME NEW n \in Machines \ {m} PROVE MachineInv(n)'
    BY <1>1, <1>2, <2>2, SecretsFrame DEF SecretsInv
  <2>4. MachineInv(m)'
    <3>1. MachineInv(m)
      BY DEF SecretsInv
    <3>2. QED BY <1>2, <2>2, <3>1 DEF MachineInv, Enrolling, Unchanged
  <2>5. ShapesInv'
    BY <1>2, <2>2 DEF SecretsInv, ShapesInv
  <2>6. QED BY <2>3, <2>4, <2>5 DEF SecretsInv
<1>5. QED BY <1>3, <1>4 DEF OperatorAsks, UserStep, UserFlagged, UserSwitches, MachineChanges,
             ToolRotates, desktop, observed

\* A table with a record for each agent.
AreAgents(t) ==
  /\ t = [m \in Machines |-> t[m]]
  /\ \A m \in Machines : t[m] = [f \in {"secret", "snapshot"} |-> t[m][f]]

\* The table with an agent's snapshot, and with an agent's secret, written to.
WithSnapshot(t, m, v) == [t EXCEPT ![m].snapshot = v]
WithSecret(t, m, v) == [t EXCEPT ![m].secret = v]

\* To write a snapshot or a secret leaves the other fields and agents as they are.
LEMMA AgentWritten ==
  ASSUME NEW t, AreAgents(t), NEW m, NEW v
  PROVE  /\ AreAgents(WithSnapshot(t, m, v)) /\ AreAgents(WithSecret(t, m, v))
         /\ \A n \in Machines : WithSnapshot(t, m, v)[n].secret = t[n].secret
         /\ m \in Machines => WithSecret(t, m, v)[m].secret = v
         /\ \A n \in Machines \ {m} : WithSecret(t, m, v)[n] = t[n]
<1> DEFINE shots == [t EXCEPT ![m].snapshot = v]
           codes == [t EXCEPT ![m].secret = v]
<1>1. t = [n \in Machines |-> t[n]]
  BY DEF AreAgents
<1>2. ASSUME NEW n \in Machines
      PROVE  /\ shots[n] = [f \in {"secret", "snapshot"} |-> shots[n][f]]
             /\ codes[n] = [f \in {"secret", "snapshot"} |-> codes[n][f]]
             /\ shots[n].secret = t[n].secret
             /\ n = m => codes[n].secret = v
             /\ n # m => codes[n] = t[n]
  <2>1. t[n] = [f \in {"secret", "snapshot"} |-> t[n][f]]
    BY DEF AreAgents
  <2>2. CASE n # m
    BY <1>1, <2>1, <2>2
  <2>3. CASE n = m
    <3>1. /\ shots[n] = [t[n] EXCEPT !.snapshot = v]
          /\ codes[n] = [t[n] EXCEPT !.secret = v]
      BY <1>1, <2>3
    <3> HIDE DEF shots, codes
    <3>2. QED BY <2>1, <2>3, <3>1
  <2>4. QED BY <2>2, <2>3
<1>3. shots = [n \in Machines |-> shots[n]] /\ codes = [n \in Machines |-> codes[n]]
  BY <1>1
<1> HIDE DEF shots, codes
<1>4. AreAgents(shots) /\ AreAgents(codes)
  BY <1>2, <1>3 DEF AreAgents
<1>5. shots = WithSnapshot(t, m, v) /\ codes = WithSecret(t, m, v)
  BY DEF shots, codes, WithSnapshot, WithSecret
<1>6. QED BY <1>2, <1>4, <1>5

\* So it does in the server's table, whose other tables are not written to.
LEMMA AgentsWritten ==
  ASSUME SecretsInv, UNCHANGED <<keyring, loop>>, NEW m, NEW v,
         \/ agents' = [agents EXCEPT ![m].snapshot = v]
         \/ agents' = [agents EXCEPT ![m].secret = v]
  PROVE  /\ ShapesInv'
         /\ agents' = [agents EXCEPT ![m].snapshot = v] =>
              \A n \in Machines : agents'[n].secret = agents[n].secret
         /\ agents' = [agents EXCEPT ![m].secret = v] =>
              /\ m \in Machines => agents'[m].secret = v
              /\ \A n \in Machines \ {m} : agents'[n] = agents[n]
<1>1. AreAgents(agents)
  BY Zenon DEF SecretsInv, ShapesInv, AreAgents
<1> DEFINE shots == WithSnapshot(agents, m, v)
           codes == WithSecret(agents, m, v)
<1>2. /\ AreAgents(shots) /\ AreAgents(codes)
      /\ \A n \in Machines : shots[n].secret = agents[n].secret
      /\ m \in Machines => codes[m].secret = v
      /\ \A n \in Machines \ {m} : codes[n] = agents[n]
  BY <1>1, AgentWritten
<1>3. agents' = shots \/ agents' = codes
  BY DEF WithSnapshot, WithSecret
<1>4. SUFFICES /\ ShapesInv'
               /\ agents' = shots => \A n \in Machines : agents'[n].secret = agents[n].secret
               /\ agents' = codes => /\ m \in Machines => agents'[m].secret = v
                                     /\ \A n \in Machines \ {m} : agents'[n] = agents[n]
  BY DEF WithSnapshot, WithSecret
<1> HIDE DEF shots, codes
<1>5. AreAgents(agents')
  BY <1>2, <1>3
<1>6. ShapesInv'
  BY <1>5 DEF SecretsInv, ShapesInv, AreAgents
<1>7. QED BY <1>2, <1>6

\* Handlers.
LEMMA HandlerSecrets ==
  ASSUME CallsInv, SecretsInv, NEW c \in Callers, Handler(c)
  PROVE  SecretsInv'
<1>1. UNCHANGED <<keyring, bootstrap, loop>>
  BY DEF Handler, EnrollAgent, VerifyEnvelope, SaveInstance, RotateAgentSecret, CreateMachineGroup,
     EnqueueBatchCommand, AppendCentralAudit, desktop
<1>2. call[c].at # "none"
  BY DEF Handler, EnrollAgent, VerifyEnvelope, SaveInstance, RotateAgentSecret, CreateMachineGroup,
     EnqueueBatchCommand, AppendCentralAudit, AtHandler
<1>3. ASSUME Fading PROVE \A n \in Machines : Continues(call[LoopOf(n)], call'[LoopOf(n)])
  BY <1>3, CallersAre DEF Fading, Continues
<1>4. ASSUME NEW at, Proceeds(c, at),
             call[c].kind # "enroll" \/ (call[c].at = "save" /\ at = "audit")
      PROVE  \A n \in Machines : Continues(call[LoopOf(n)], call'[LoopOf(n)])
  BY <1>4, CallersAre DEF Proceeds, Continues, Fades
<1>5. CASE Refuse(c)
  <2>1. Fading /\ UNCHANGED <<agents, changed>>
    BY <1>2, <1>5, AnswerFades DEF Refuse, tables
  <2>2. QED BY <1>1, <1>3, <2>1, SecretsAlone
<1>6. CASE ~Refuse(c) /\ (VerifyEnvelope(c) \/ CreateMachineGroup(c) \/ EnqueueBatchCommand(c))
  <2>1. /\ HandlerTo(c, "save") \/ HandlerTo(c, "audit")
        /\ call[c].kind # "enroll" /\ UNCHANGED <<agents, changed>>
    BY <1>6 DEF VerifyEnvelope, CreateMachineGroup, EnqueueBatchCommand, AtHandler, tables
  <2>2. QED BY <1>1, <1>2, <1>4, <2>1, HandlerProceeds, SecretsAlone
<1>7. CASE AppendCentralAudit(c)
  <2>1. Fading /\ UNCHANGED <<agents, changed>>
    BY <1>2, <1>7, AnswerFades DEF AppendCentralAudit, AtHandler
  <2>2. QED BY <1>1, <1>3, <2>1, SecretsAlone
<1>8. CASE SaveInstance(c)
  <2>1. \A n \in Machines : Continues(call[LoopOf(n)], call'[LoopOf(n)])
    <3>1. CASE call[c].kind = "enroll"
      BY <1>2, <1>4, <1>8, <3>1, HandlerProceeds DEF SaveInstance, AtHandler
    <3>2. CASE call[c].kind # "enroll"
      BY <1>2, <1>3, <1>8, <3>2, AnswerFades DEF SaveInstance, AtHandler
    <3>3. QED BY <3>1, <3>2
  <2>2. UNCHANGED changed /\ ShapesInv' /\ \A n \in Machines : agents'[n].secret = agents[n].secret
    <3>1. /\ agents' = [agents EXCEPT ![call[c].machine].snapshot = call[c].value]
          /\ UNCHANGED changed
      BY <1>8 DEF SaveInstance
    <3>2. QED BY <1>1, <3>1, AgentsWritten
  <2>3. \A n \in Machines : MachineInv(n)'
    BY <1>1, <2>1, <2>2, SecretsFrame DEF SecretsInv
  <2>4. QED BY <2>2, <2>3 DEF SecretsInv
<1>9. CASE RotateAgentSecret(c)
  <2>1. /\ Proceeds(c, "audit") /\ call[c].kind # "enroll"
        /\ changed' = changed \cup {call[c].machine}
        /\ agents' = [agents EXCEPT ![call[c].machine].secret = call[c].value]
    BY <1>2, <1>9, HandlerProceeds DEF RotateAgentSecret, AtHandler
  <2>2. \A n \in Machines : Continues(call[LoopOf(n)], call'[LoopOf(n)])
    BY <1>4, <2>1
  <2>3. ShapesInv' /\ \A n \in Machines \ {call[c].machine} : agents'[n].secret = agents[n].secret
    BY <1>1, <2>1, AgentsWritten
  <2>4. ASSUME NEW n \in Machines PROVE MachineInv(n)'
    <3>1. CASE n = call[c].machine
      <4>1. n \in changed'
        BY <2>1, <3>1
      <4>2. loop'[n].at = "enrolling" /\ call'[LoopOf(n)] # NoCall => Enrolling(n)'
        BY <1>1, <2>2 DEF SecretsInv, MachineInv, Enrolling, Continues, Fades, SameRequest
      <4>3. QED BY <4>1, <4>2 DEF MachineInv, Unchanged
    <3>2. CASE n # call[c].machine
      BY <1>1, <2>1, <2>2, <2>3, <3>2, SecretsFrame DEF SecretsInv
    <3>3. QED BY <3>1, <3>2
  <2>5. QED BY <2>3, <2>4 DEF SecretsInv
<1>10. CASE ~Refuse(c) /\ EnrollAgent(c)
  <2>1. /\ Proceeds(c, "save") /\ call[c].kind = "enroll" /\ UNCHANGED changed
        /\ agents' = [agents EXCEPT ![call[c].machine].secret = call[c].secret]
        /\ call[c] # NoCall /\ call'[c] # NoCall /\ call'[c].kind = "enroll"
        /\ call'[c].secret = call[c].secret
    BY <1>2, <1>10, HandlerProceeds DEF EnrollAgent, AtHandler, Proceeds, SameRequest, NoCall
  <2>2. PICK m \in Machines : call[c].machine = m /\ c = LoopOf(m)
    BY <2>1 DEF CallsInv, IsCall
  <2>3. /\ ShapesInv' /\ agents'[m].secret = call[c].secret
        /\ \A n \in Machines \ {m} : agents'[n] = agents[n]
    <3> DEFINE v == call[c].secret
    <3>1. agents' = [agents EXCEPT ![m].secret = v]
      BY <2>1, <2>2
    <3> HIDE DEF v
    <3>2. /\ ShapesInv' /\ agents'[m].secret = v
          /\ \A n \in Machines \ {m} : agents'[n] = agents[n]
      BY <1>1, <3>1, AgentsWritten
    <3>3. QED BY <3>2 DEF v
  <2>4. ASSUME NEW n \in Machines \ {m} PROVE MachineInv(n)'
    <3>1. call'[LoopOf(n)] = call[LoopOf(n)]
      BY <2>1, <2>2, OwnCalls, CallersAre DEF Proceeds
    <3>2. QED BY <1>1, <2>1, <2>3, <3>1, SecretsFrame DEF SecretsInv, Continues, Fades
  <2>5. MachineInv(m)'
    BY <1>1, <2>1, <2>2, <2>3 DEF SecretsInv, MachineInv, Enrolling, Unchanged
  <2>6. QED BY <2>3, <2>4, <2>5 DEF SecretsInv
<1>11. QED BY <1>5, <1>6, <1>7, <1>8, <1>9, <1>10 DEF Handler

\* Faults.
LEMMA BreakSecrets ==
  ASSUME CallsInv, SecretsInv, Breaks
  PROVE  SecretsInv'
<1>1. Fading /\ \A n \in Machines : Continues(call[LoopOf(n)], call'[LoopOf(n)])
  BY BreakCalls, CallersAre DEF Fading, Continues
<1>2. UNCHANGED <<keyring, bootstrap, changed>>
  BY DEF Breaks, StatementFails, Late, ConnectionLost, HandlerDropped, DesktopRestarts,
     ServerRestarts, Refuse, desktop, observed
<1>3. loop' = [n \in Machines |-> loop'[n]]
      /\ \A n \in Machines : /\ loop'[n] = [f \in {"at", "enrolled"} |-> loop'[n][f]]
                             /\ loop'[n].enrolled => loop[n].enrolled
                             /\ loop'[n].at = "enrolling" => loop[n].at = "enrolling"
  <2>1. CASE UNCHANGED loop
    BY <2>1 DEF SecretsInv, ShapesInv
  <2>2. ASSUME NEW m \in Machines, loop' = [loop EXCEPT ![m] = [at |-> "idle", enrolled |-> FALSE]]
        PROVE  <1>3!:
    BY <2>2 DEF SecretsInv, ShapesInv
  <2>3. ASSUME \A n \in Machines : loop'[n] \in {loop[n], [loop[n] EXCEPT !.at = "idle"]},
               loop' = [n \in Machines |-> loop'[n]]
        PROVE  <1>3!:
    BY <2>3 DEF SecretsInv, ShapesInv
  <2>4. \/ UNCHANGED loop
        \/ \E m \in Machines : loop' = [loop EXCEPT ![m] = [at |-> "idle", enrolled |-> FALSE]]
        \/ /\ \A n \in Machines : loop'[n] \in {loop[n], [loop[n] EXCEPT !.at = "idle"]}
           /\ loop' = [n \in Machines |-> loop'[n]]
    BY DEF Breaks, StatementFails, Late, ConnectionLost, HandlerDropped, DesktopRestarts,
       ServerRestarts, Refuse, Released, desktop
  <2>5. QED BY <2>1, <2>2, <2>3, <2>4
<1>4. CASE UNCHANGED agents
  <2>1. \A n \in Machines : MachineInv(n)'
    BY <1>1, <1>2, <1>3, <1>4, SecretsFrame DEF SecretsInv
  <2>2. QED BY <1>2, <1>3, <1>4, <2>1 DEF SecretsInv, ShapesInv
<1>5. CASE ServerRestarts
  <2>1. /\ call' = [c \in Callers |-> NoCall]
        /\ agents' = [m \in Machines |->
             IF bootstrap[m] = Nothing THEN agents[m]
             ELSE [agents[m] EXCEPT !.secret = bootstrap[m]]]
    BY <1>5 DEF ServerRestarts
  <2>2. ShapesInv'
    BY <1>2, <1>3, <2>1 DEF SecretsInv, ShapesInv
  <2>3. ASSUME NEW n \in Machines PROVE MachineInv(n)'
    <3>1. agents'[n].secret = IF bootstrap[n] = Nothing THEN agents[n].secret ELSE bootstrap[n]
      BY <2>1 DEF SecretsInv, ShapesInv
    <3>2. call'[LoopOf(n)] = NoCall
      BY <2>1, CallersAre
    <3>3. QED BY <1>2, <1>3, <3>1, <3>2 DEF SecretsInv, MachineInv, Enrolling, Unchanged
  <2>4. QED BY <2>2, <2>3 DEF SecretsInv
<1>6. QED BY <1>4, <1>5 DEF Breaks, StatementFails, Refuse, Late, ConnectionLost, HandlerDropped,
             DesktopRestarts, tables

\* Every step keeps the account of the secrets.
LEMMA SecretsStep == CallsInv /\ SecretsInv /\ [Next]_vars => SecretsInv'
<1> SUFFICES ASSUME CallsInv, SecretsInv, [Next]_vars PROVE SecretsInv'
  OBVIOUS
<1>1. CASE UNCHANGED vars
  BY <1>1, SecretsAlone DEF vars, desktop, tables, observed, Continues, Fades
<1>2. QED BY <1>1, LoopSecrets, UserSecrets, HandlerSecrets, BreakSecrets DEF Next, Breaks

\* A loop that believes it is enrolled is known to the server by the secret in its
\* keyring, unless somebody replaced one of the two or the server had another one
\* to start with: nothing else locks a machine out.
THEOREM OnlyChangesLockOut == Spec => []LockedOutOnlyByChange
<1>1. Init => SecretsInv
  BY CallersAre DEF Init, SecretsInv, ShapesInv, MachineInv, Enrolling, NewAgent
<1>2. SecretsInv => LockedOutOnlyByChange
  BY DEF SecretsInv, MachineInv, LockedOutOnlyByChange
<1>3. QED BY <1>1, <1>2, InitCalls, CallsStep, SecretsStep, PTL DEF Spec

-----------------------------------------------------------------------------
(***************************************************************************)
(* MemoryStore implements CommandLedger, for all threads, agents and       *)
(* numbers of requests.  A batch, an assignment and a completion take two  *)
(* steps each, and are seen with the second one: until then one of the two *)
(* locks hides the first (LocksInv), and no other thread has the same      *)
(* command or delivery in hand (IssuedInv).                                *)
(***************************************************************************)

-----------------------------------------------------------------------------
(***************************************************************************)
(* Deliveries.                                                             *)
(***************************************************************************)

Deliveries ==
  [cmd : Cmds, target : Targets, status : {"pending", "running", "completed", "failed"}]

\* No target has two deliveries of a command.
OfOne(ds, j, k) == ds[j].cmd = ds[k].cmd /\ ds[j].target = ds[k].target

Distinct(ds) == \A j, k \in DOMAIN ds : OfOne(ds, j, k) => j = k

\* What a batch pushes.
Fresh(c, targets) == {[cmd |-> c, target |-> t, status |-> "pending"] : t \in targets}

\* A finite set in some order holds each member once.
LEMMA SetInOrder ==
  ASSUME NEW S, IsFiniteSet(S)
  PROVE  /\ SetToSeq(S) \in Seq(S)
         /\ IsInjective(SetToSeq(S))
         /\ \A s \in S : \E k \in DOMAIN SetToSeq(S) : SetToSeq(S)[k] = s
<1> DEFINE n == Cardinality(S)
           f == SetToSeq(S)
<1>1. n \in Nat
  BY FS_CardinalityType
<1>2. \E g \in [1..n -> S] : IsInjective(g)
  <2>1. PICK g : g \in Bijection(1..n, S)
    BY FS_CardinalityType DEF ExistsBijection
  <2>2. QED BY <2>1 DEF Bijection, Injection
<1>3. f \in [1..n -> S] /\ IsInjective(f)
  BY <1>2 DEF SetToSeq
<1> HIDE DEF f
<1>4. f \in Injection(1..n, S)
  BY <1>3 DEF Injection, IsInjective
<1>5. IsFiniteSet(1..n) /\ Cardinality(1..n) = n
  BY <1>1, FS_Interval
<1>6. f \in Surjection(1..n, S)
  BY <1>4, <1>5, FS_Injection
<1>7. \A s \in S : \E k \in 1..n : f[k] = s
  BY <1>6 DEF Surjection
<1>8. f \in Seq(S) /\ DOMAIN f = 1..n
  BY <1>1, <1>3, SeqDef
<1>9. QED BY <1>3, <1>7, <1>8 DEF f

Pushed(ds, c, targets) == ds \o SetToSeq(Fresh(c, targets))

\* A batch adds a delivery for each of its targets and changes none.
IsPushed(more, ds, c, targets) ==
  /\ more \in Seq(Deliveries) /\ Distinct(more)
  /\ DOMAIN ds \subseteq DOMAIN more /\ \A k \in DOMAIN ds : more[k] = ds[k]
  /\ \A k \in DOMAIN more \ DOMAIN ds : more[k] \in Fresh(c, targets)
  /\ \A t \in targets : \E k \in DOMAIN more \ DOMAIN ds : more[k].target = t

\* Nothing but that is in the list afterwards, and still once for each target.
LEMMA PushedDeliveries ==
  ASSUME NEW ds \in Seq(Deliveries), NEW c \in Cmds, NEW targets \in SUBSET Targets,
         Distinct(ds), \A k \in DOMAIN ds : ds[k].cmd # c
  PROVE  IsPushed(Pushed(ds, c, targets), ds, c, targets)
<1> DEFINE more == Pushed(ds, c, targets)
<1> DEFINE new == SetToSeq(Fresh(c, targets))
<1>1. IsFiniteSet(Fresh(c, targets)) /\ Fresh(c, targets) \subseteq Deliveries
  <2>1. IsFiniteSet(targets)
    BY TargetsAssumption, FS_Subset
  <2> DEFINE image == [t \in targets |-> [cmd |-> c, target |-> t, status |-> "pending"]]
  <2>2. image \in Surjection(targets, Fresh(c, targets))
    BY DEF Surjection, Fresh
  <2>3. IsFiniteSet(Fresh(c, targets))
    BY <2>1, <2>2, FS_Surjection
  <2>4. Fresh(c, targets) \subseteq Deliveries
    BY DEF Fresh, Deliveries
  <2>5. QED BY <2>3, <2>4
<1>2. /\ new \in Seq(Fresh(c, targets)) /\ IsInjective(new)
      /\ \A s \in Fresh(c, targets) : \E k \in DOMAIN new : new[k] = s
  BY <1>1, SetInOrder
<1>3. new \in Seq(Deliveries)
  BY <1>1, <1>2, SeqMonotonic
<1>4. more = ds \o new
  BY DEF Pushed
<1> HIDE DEF new, more
<1>5. /\ more \in Seq(Deliveries) /\ Len(more) = Len(ds) + Len(new)
      /\ Len(ds) \in Nat /\ Len(new) \in Nat
      /\ DOMAIN ds = 1..Len(ds) /\ DOMAIN new = 1..Len(new) /\ DOMAIN more = 1..Len(more)
      /\ \A k \in 1..Len(ds) : more[k] = ds[k]
      /\ \A k \in 1..Len(new) : more[Len(ds) + k] = new[k]
  BY <1>3, <1>4
<1>6. \A k \in DOMAIN more \ DOMAIN ds :
        k - Len(ds) \in DOMAIN new /\ more[k] = new[k - Len(ds)]
  <2>1. TAKE k \in DOMAIN more \ DOMAIN ds
  <2>2. k - Len(ds) \in 1..Len(new) /\ k = Len(ds) + (k - Len(ds))
    BY <1>5
  <2>3. QED BY <1>5, <2>2
<1>7. \A k \in DOMAIN more \ DOMAIN ds : more[k] \in Fresh(c, targets)
  BY <1>2, <1>6
<1> DEFINE made(d) == d.cmd = c /\ d = [cmd |-> c, target |-> d.target, status |-> "pending"]
<1>8. \A k \in DOMAIN more \ DOMAIN ds : made(more[k])
  <2>1. \A d \in Fresh(c, targets) : made(d)
    BY DEF Fresh
  <2>2. QED BY <1>7, <2>1
<1>9. \A t \in targets : \E k \in DOMAIN more \ DOMAIN ds : more[k].target = t
  <2>1. TAKE t \in targets
  <2>2. PICK k \in DOMAIN new : new[k] = [cmd |-> c, target |-> t, status |-> "pending"]
    BY <1>2 DEF Fresh
  <2>3. Len(ds) + k \in DOMAIN more \ DOMAIN ds /\ more[Len(ds) + k] = new[k]
    BY <1>5
  <2>4. QED BY <2>2, <2>3
<1>10. Distinct(more)
  <2>1. SUFFICES ASSUME NEW j \in DOMAIN more, NEW k \in DOMAIN more, OfOne(more, j, k)
                 PROVE  j = k
    BY DEF Distinct
  <2>2. CASE j \in DOMAIN ds /\ k \in DOMAIN ds
    BY <1>5, <2>1, <2>2 DEF Distinct, OfOne
  <2>3. CASE j \notin DOMAIN ds /\ k \notin DOMAIN ds
    <3>1. more[j] = more[k]
      BY <1>8, <2>1, <2>3 DEF OfOne
    <3>2. j - Len(ds) = k - Len(ds)
      BY <1>2, <1>6, <2>3, <3>1 DEF IsInjective
    <3>3. QED BY <1>5, <3>2
  <2>4. CASE j \in DOMAIN ds /\ k \notin DOMAIN ds
    BY <1>8, <1>5, <2>1, <2>4 DEF OfOne
  <2>5. CASE j \notin DOMAIN ds /\ k \in DOMAIN ds
    BY <1>8, <1>5, <2>1, <2>5 DEF OfOne
  <2>6. QED BY <2>2, <2>3, <2>4, <2>5
<1>11. DOMAIN ds \subseteq DOMAIN more /\ \A k \in DOMAIN ds : more[k] = ds[k]
  BY <1>5
<1>12. QED BY <1>5, <1>7, <1>9, <1>10, <1>11 DEF IsPushed, more

-----------------------------------------------------------------------------
(***************************************************************************)
(* Threads.                                                                *)
(***************************************************************************)

BatchRequests ==
  [op : {"batch"}, at : {"commands", "deliveries"}, cmd : Cmds, targets : SUBSET Targets]
PollRequests == [op : {"poll"}, at : {"deliveries", "commands", "count"}, target : Targets]
CompleteRequests ==
  [op : {"complete"}, at : {"deliveries", "commands"}, index : Nat, outcome : {"completed", "failed"}]
ListRequests == [op : {"list"}, at : {"commands"}]

AnyRequests == {Idle} \cup BatchRequests \cup PollRequests \cup CompleteRequests \cup ListRequests

TypesInv ==
  /\ status \in [Cmds -> Seen!Statuses]
  /\ deliveries \in Seq(Deliveries) /\ Distinct(deliveries)
  /\ thread \in [Threads -> AnyRequests]
  /\ issued \in Nat

\* The command of a batch is nobody else's and has no deliveries yet; who reports
\* a delivery was given it.
Serving(th) ==
  /\ thread[th].op = "batch" =>
       /\ thread[th].cmd <= issued /\ \A k \in DOMAIN deliveries : deliveries[k].cmd # thread[th].cmd
       /\ status[thread[th].cmd] = IF thread[th].at = "commands" THEN "absent" ELSE "pending"
       /\ thread[th].targets # {}
  /\ thread[th].op = "complete" =>
       thread[th].index \in DOMAIN deliveries /\ deliveries[thread[th].index].status # "pending"

IssuedInv ==
  /\ \A k \in DOMAIN deliveries : deliveries[k].cmd <= issued
  /\ \A c \in Cmds : c > issued => status[c] = "absent"
  /\ \A th \in Threads : Serving(th)
  /\ \A b, d \in Threads :
       thread[b].op = "batch" /\ thread[d].op = "batch" /\ thread[b].cmd = thread[d].cmd => b = d

\* Who has the lock of the deliveries has changed one and is still to change its command.
Holds(h, k) ==
  /\ thread[h].at = "commands"
  /\ \/ thread[h].op = "poll" /\ deliveries[k].status = "running"
     \/ /\ thread[h].op = "complete" /\ thread[h].index = k
        /\ deliveries[k].status = thread[h].outcome

LocksInv ==
  /\ \A th \in Threads : At(th, "batch", "deliveries") <=> commandsLock = <<th>>
  /\ commandsLock = Free \/ \E th \in Threads : commandsLock = <<th>>
  /\ \/ deliveriesLock = Free
     \/ \E h \in Threads, k \in DOMAIN deliveries : deliveriesLock = <<h, k>> /\ Holds(h, k)
  /\ \A th \in Threads : thread[th].op \in {"poll", "complete"} /\ thread[th].at = "commands"
                           => \E k \in DOMAIN deliveries : deliveriesLock = <<th, k>>

StoreInv == TypesInv /\ IssuedInv /\ LocksInv

\* What a thread does leaves the others where they are.
LEMMA ThreadTo ==
  ASSUME TypesInv, NEW th \in Threads, NEW request \in AnyRequests, thread' = [thread EXCEPT ![th] = request]
  PROVE  /\ thread' \in [Threads -> AnyRequests] /\ thread'[th] = request
         /\ \A h \in Threads \ {th} : thread'[h] = thread[h]
  BY DEF TypesInv

\* The request of a thread that is at a place.
LEMMA RequestAt ==
  ASSUME TypesInv, NEW th \in Threads
  PROVE  /\ thread[th].op = "batch" => thread[th] \in BatchRequests
         /\ thread[th].op = "poll" => thread[th] \in PollRequests
         /\ thread[th].op = "complete" => thread[th] \in CompleteRequests
         /\ Idle \in AnyRequests
  BY DEF TypesInv, AnyRequests, Idle, BatchRequests, PollRequests, CompleteRequests, ListRequests

\* The same with only the place changed.
LEMMA PlaceTo ==
  ASSUME TypesInv, NEW th \in Threads, NEW at, To(th, at),
         \/ thread[th].op = "batch" /\ at = "deliveries"
         \/ thread[th].op = "poll" /\ at \in {"commands", "count"}
         \/ thread[th].op = "complete" /\ at = "commands"
  PROVE  /\ thread' \in [Threads -> AnyRequests]
         /\ \A h \in Threads \ {th} : thread'[h] = thread[h]
         /\ thread'[th].at = at /\ thread'[th].op = thread[th].op
         /\ thread[th].op = "batch" =>
              thread'[th].cmd = thread[th].cmd /\ thread'[th].targets = thread[th].targets
         /\ thread[th].op = "complete" =>
              thread'[th].index = thread[th].index /\ thread'[th].outcome = thread[th].outcome
<1> DEFINE request == [thread[th] EXCEPT !.at = at]
<1>1. thread' = [thread EXCEPT ![th] = request]
  BY DEF To
<1>2. request \in AnyRequests /\ request.at = at /\ request.op = thread[th].op
  BY RequestAt DEF AnyRequests, BatchRequests, PollRequests, CompleteRequests
<1>3. /\ thread[th].op = "batch" => request.cmd = thread[th].cmd /\ request.targets = thread[th].targets
      /\ thread[th].op = "complete" =>
           request.index = thread[th].index /\ request.outcome = thread[th].outcome
  BY RequestAt DEF BatchRequests, CompleteRequests
<1> HIDE DEF request
<1>4. QED BY <1>1, <1>2, <1>3, ThreadTo

\* A delivery in another state.
LEMMA DeliveryTo ==
  ASSUME TypesInv, NEW k \in DOMAIN deliveries, NEW state \in {"running", "completed", "failed"},
         deliveries' = [deliveries EXCEPT ![k].status = state]
  PROVE  /\ deliveries' \in Seq(Deliveries) /\ Distinct(deliveries')
         /\ DOMAIN deliveries' = DOMAIN deliveries
         /\ deliveries'[k].status = state
         /\ \A j \in DOMAIN deliveries \ {k} : deliveries'[j] = deliveries[j]
         /\ \A j \in DOMAIN deliveries : OfOne(deliveries', j, j)
         /\ \A j \in DOMAIN deliveries :
              deliveries'[j].cmd = deliveries[j].cmd /\ deliveries'[j].target = deliveries[j].target
<1> DEFINE new == [deliveries[k] EXCEPT !.status = state]
<1>1. deliveries \in Seq(Deliveries) /\ deliveries[k] \in Deliveries
  BY DEF TypesInv
<1>2. new \in Deliveries /\ new.cmd = deliveries[k].cmd /\ new.target = deliveries[k].target
      /\ new.status = state
  BY <1>1 DEF Deliveries
<1>3. deliveries' = [deliveries EXCEPT ![k] = new]
  OBVIOUS
<1> HIDE DEF new
<1>4. deliveries' \in Seq(Deliveries) /\ DOMAIN deliveries' = DOMAIN deliveries
      /\ deliveries'[k] = new /\ \A j \in DOMAIN deliveries \ {k} : deliveries'[j] = deliveries[j]
  BY <1>1, <1>2, <1>3
<1>5. \A j \in DOMAIN deliveries :
        deliveries'[j].cmd = deliveries[j].cmd /\ deliveries'[j].target = deliveries[j].target
  BY <1>2, <1>4
<1>6. Distinct(deliveries')
  BY <1>4, <1>5 DEF Distinct, OfOne, TypesInv
<1>7. QED BY <1>2, <1>4, <1>5, <1>6 DEF OfOne

-----------------------------------------------------------------------------
(***************************************************************************)
(* Steps keep the invariant.                                               *)
(***************************************************************************)

\* A batch gets a command that is nobody else's (enqueue_batch_command).
LEMMA BatchArrivesKeeps ==
  ASSUME StoreInv, NEW th \in Threads, BatchArrives(th)
  PROVE  StoreInv'
<1> USE DEF StoreInv
<1>1. PICK targets \in (SUBSET Targets) \ {{}} :
        Serve(th, [op |-> "batch", at |-> "commands", cmd |-> issued + 1, targets |-> targets])
  BY DEF BatchArrives
<1>2. issued \in Nat /\ issued < MaxCmds /\ issued' = issued + 1 /\ issued + 1 \in Cmds
  BY StoreBoundsAssumption DEF BatchArrives, TypesInv, Cmds
<1> PICK c \in Cmds : c = issued + 1
  BY <1>2
<1> DEFINE request == [op |-> "batch", at |-> "commands", cmd |-> c, targets |-> targets]
<1>3. request \in AnyRequests /\ thread' = [thread EXCEPT ![th] = request] /\ thread[th] = Idle
  BY <1>1 DEF Serve, AnyRequests, BatchRequests
<1>4. /\ thread' \in [Threads -> AnyRequests] /\ thread'[th] = request
      /\ \A h \in Threads \ {th} : thread'[h] = thread[h]
  BY <1>3, ThreadTo
<1>5. UNCHANGED <<status, deliveries, commandsLock, deliveriesLock>>
  BY DEF BatchArrives
<1>6. TypesInv'
  BY <1>2, <1>4, <1>5 DEF TypesInv
<1>7. \A k \in DOMAIN deliveries : deliveries[k].cmd \in Nat /\ deliveries[k].cmd <= issued
  <2>1. deliveries \in Seq(Deliveries)
    BY DEF TypesInv
  <2>2. \A k \in DOMAIN deliveries : deliveries[k] \in Deliveries
    BY <2>1
  <2>3. QED BY <2>2 DEF IssuedInv, Deliveries, Cmds
<1>8. \A h \in Threads : thread[h].op = "batch" => thread[h].cmd \in Nat /\ thread[h].cmd <= issued
  BY RequestAt DEF IssuedInv, Serving, BatchRequests, Cmds
<1>9. IssuedInv'
  <2>1. \A k \in DOMAIN deliveries' : deliveries'[k].cmd <= issued'
    BY <1>2, <1>5, <1>7
  <2>2. \A d \in Cmds : d > issued' => status'[d] = "absent"
    BY <1>2, <1>5 DEF IssuedInv, Cmds
  <2>3. ASSUME NEW h \in Threads PROVE Serving(h)'
    <3>1. CASE h = th
      <4>1. status[c] = "absent" /\ \A k \in DOMAIN deliveries : deliveries[k].cmd # c
        BY <1>2, <1>7 DEF IssuedInv, Cmds
      <4>2. QED BY <1>2, <1>4, <1>5, <3>1, <4>1 DEF Serving
    <3>2. CASE h # th
      <4>1. thread[h].op = "batch" => thread[h].cmd <= issued'
        BY <1>2, <1>8
      <4>2. QED BY <1>4, <1>5, <3>2, <4>1 DEF Serving, IssuedInv
    <3>3. QED BY <3>1, <3>2
  <2>4. \A h \in Threads : thread[h].op = "batch" => thread[h].cmd # c
    BY <1>2, <1>8
  <2>5. \A b, d \in Threads :
          thread'[b].op = "batch" /\ thread'[d].op = "batch" /\ thread'[b].cmd = thread'[d].cmd => b = d
    BY <1>4, <2>4 DEF IssuedInv
  <2>6. QED BY <2>1, <2>2, <2>3, <2>5 DEF IssuedInv
<1>10. LocksInv'
  BY <1>3, <1>4, <1>5 DEF LocksInv, At, Holds, Idle
<1>11. QED BY <1>6, <1>9, <1>10

\* A poll, a completion or a list takes no lock by arriving.
LEMMA RequestArrivesKeeps ==
  ASSUME StoreInv, NEW th \in Threads, RequestArrives(th)
  PROVE  StoreInv'
<1> USE DEF StoreInv
<1> DEFINE fits(request) ==
             /\ thread[th] = Idle /\ thread' = [thread EXCEPT ![th] = request]
             /\ request.op # "batch" /\ (request.at = "commands" => request.op \notin {"poll", "complete"})
             /\ request.op = "complete" =>
                  request.index \in DOMAIN deliveries /\ deliveries[request.index].status # "pending"
<1>1. \E request \in AnyRequests : fits(request)
  <2>1. CASE \E t \in Targets : Serve(th, [op |-> "poll", at |-> "deliveries", target |-> t])
    <3>1. PICK t \in Targets : Serve(th, [op |-> "poll", at |-> "deliveries", target |-> t])
      BY <2>1
    <3> DEFINE request == [op |-> "poll", at |-> "deliveries", target |-> t]
    <3>2. request \in AnyRequests /\ request.op = "poll" /\ request.at = "deliveries"
      BY DEF AnyRequests, PollRequests
    <3>3. thread[th] = Idle /\ thread' = [thread EXCEPT ![th] = request]
      BY <3>1 DEF Serve
    <3> HIDE DEF request
    <3>4. QED BY <3>2, <3>3
  <2>2. CASE \E k \in DOMAIN deliveries, outcome \in {"completed", "failed"} :
               /\ deliveries[k].status # "pending"
               /\ Serve(th, [op |-> "complete", at |-> "deliveries", index |-> k, outcome |-> outcome])
    <3>1. PICK k \in DOMAIN deliveries, outcome \in {"completed", "failed"} :
            /\ deliveries[k].status # "pending"
            /\ Serve(th, [op |-> "complete", at |-> "deliveries", index |-> k, outcome |-> outcome])
      BY <2>2
    <3> DEFINE request == [op |-> "complete", at |-> "deliveries", index |-> k, outcome |-> outcome]
    <3>2. k \in Nat
      BY DEF TypesInv
    <3>3. request \in AnyRequests /\ request.op = "complete" /\ request.at = "deliveries" /\ request.index = k
      BY <3>2 DEF AnyRequests, CompleteRequests
    <3>4. thread[th] = Idle /\ thread' = [thread EXCEPT ![th] = request]
      BY <3>1 DEF Serve
    <3> HIDE DEF request
    <3>5. QED BY <3>1, <3>3, <3>4
  <2>3. CASE Serve(th, [op |-> "list", at |-> "commands"])
    <3> DEFINE request == [op |-> "list", at |-> "commands"]
    <3>1. request \in AnyRequests /\ request.op = "list"
      BY DEF AnyRequests, ListRequests
    <3>2. thread[th] = Idle /\ thread' = [thread EXCEPT ![th] = request]
      BY <2>3 DEF Serve
    <3> HIDE DEF request
    <3>3. QED BY <3>1, <3>2
  <2>4. QED BY <2>1, <2>2, <2>3 DEF RequestArrives
<1>2. PICK request \in AnyRequests : fits(request)
  BY <1>1
<1>3. /\ thread' \in [Threads -> AnyRequests] /\ thread'[th] = request
      /\ \A h \in Threads \ {th} : thread'[h] = thread[h]
  BY <1>2, ThreadTo
<1>4. UNCHANGED <<status, deliveries, commandsLock, deliveriesLock, issued>>
  BY DEF RequestArrives
<1>5. TypesInv'
  BY <1>3, <1>4 DEF TypesInv
<1>6. IssuedInv'
  <2>1. \A h \in Threads : Serving(h)'
    BY <1>2, <1>3, <1>4 DEF Serving, IssuedInv
  <2>2. QED BY <1>2, <1>3, <1>4, <2>1 DEF IssuedInv
<1>7. LocksInv'
  BY <1>2, <1>3, <1>4 DEF LocksInv, At, Holds, Idle
<1>8. QED BY <1>5, <1>6, <1>7

\* save_batch_command with the lock of the commands: the command is in, without deliveries.
LEMMA BatchInsertsKeeps ==
  ASSUME StoreInv, NEW th \in Threads, BatchInserts(th)
  PROVE  StoreInv'
<1> USE DEF StoreInv
<1>1. thread[th].op = "batch" /\ thread[th].at = "commands" /\ thread[th] \in BatchRequests
  BY RequestAt DEF BatchInserts, At
<1> PICK c \in Cmds : c = thread[th].cmd
  BY <1>1 DEF BatchRequests
<1>2. /\ thread' \in [Threads -> AnyRequests] /\ \A h \in Threads \ {th} : thread'[h] = thread[h]
      /\ thread'[th].at = "deliveries" /\ thread'[th].op = "batch"
      /\ thread'[th].cmd = c /\ thread'[th].targets = thread[th].targets
  BY <1>1, PlaceTo DEF BatchInserts
<1>3. commandsLock = Free /\ commandsLock' = <<th>> /\ UNCHANGED <<deliveries, deliveriesLock, issued>>
  BY DEF BatchInserts
<1>4. status' = [status EXCEPT ![c] = "pending"] /\ status' \in [Cmds -> Seen!Statuses]
  BY DEF BatchInserts, TypesInv, Seen!Statuses
<1>5. TypesInv'
  BY <1>2, <1>3, <1>4 DEF TypesInv
<1>6. IssuedInv'
  <2>1. c <= issued /\ c \in Nat /\ issued \in Nat
    BY <1>1 DEF IssuedInv, Serving, TypesInv, Cmds
  <2>2. \A d \in Cmds : d > issued' => status'[d] = "absent"
    <3>1. TAKE d \in Cmds
    <3>2. d > issued => d # c
      BY <2>1 DEF Cmds
    <3>3. QED BY <1>3, <1>4, <3>2 DEF IssuedInv, TypesInv
  <2>3. ASSUME NEW h \in Threads PROVE Serving(h)'
    <3>1. CASE h = th
      BY <1>1, <1>2, <1>3, <1>4, <3>1 DEF Serving, IssuedInv, TypesInv
    <3>2. CASE h # th
      <4>1. thread[h].op = "batch" => thread[h].cmd # c /\ thread[h].cmd \in Cmds
        BY <1>1, <3>2, RequestAt DEF IssuedInv, BatchRequests
      <4>2. thread[h].op = "batch" => status'[thread[h].cmd] = status[thread[h].cmd]
        BY <1>4, <4>1 DEF TypesInv
      <4>3. QED BY <1>2, <1>3, <3>2, <4>2 DEF Serving, IssuedInv
    <3>3. QED BY <3>1, <3>2
  <2>4. \A b, d \in Threads :
          thread'[b].op = "batch" /\ thread'[d].op = "batch" /\ thread'[b].cmd = thread'[d].cmd => b = d
    BY <1>1, <1>2 DEF IssuedInv
  <2>5. QED BY <1>3, <2>2, <2>3, <2>4 DEF IssuedInv
<1>7. LocksInv'
  <2>1. \A h \in Threads : At(h, "batch", "deliveries")' <=> commandsLock' = <<h>>
    BY <1>2, <1>3 DEF LocksInv, At, Free
  <2>2. \/ deliveriesLock' = Free
        \/ \E h \in Threads, k \in DOMAIN deliveries' : deliveriesLock' = <<h, k>> /\ Holds(h, k)'
    <3>1. \A h \in Threads, k \in DOMAIN deliveries : Holds(h, k) => Holds(h, k)'
      BY <1>1, <1>2, <1>3 DEF Holds
    <3>2. QED BY <1>3, <3>1 DEF LocksInv
  <2>3. \A h \in Threads : thread'[h].op \in {"poll", "complete"} /\ thread'[h].at = "commands"
                             => \E k \in DOMAIN deliveries' : deliveriesLock' = <<h, k>>
    BY <1>2, <1>3 DEF LocksInv
  <2>4. QED BY <1>3, <2>1, <2>2, <2>3 DEF LocksInv
<1>8. QED BY <1>5, <1>6, <1>7

\* What the last step of a batch finds, and the deliveries it makes.
LEMMA BatchPushed ==
  ASSUME StoreInv, NEW th \in Threads, BatchPushes(th), NEW c, c = thread[th].cmd
  PROVE  /\ c \in Cmds /\ c <= issued /\ status[c] = "pending" /\ thread[th].op = "batch"
         /\ thread[th].targets \in (SUBSET Targets) \ {{}}
         /\ commandsLock = <<th>> /\ deliveriesLock = Free
         /\ \A k \in DOMAIN deliveries : deliveries[k].cmd # c
         /\ IsPushed(deliveries', deliveries, c, thread[th].targets)
<1> USE DEF StoreInv
<1>1. thread[th].op = "batch" /\ thread[th].at = "deliveries" /\ thread[th] \in BatchRequests
  BY RequestAt DEF BatchPushes, At
<1>2. /\ c \in Cmds /\ thread[th].targets \in SUBSET Targets
      /\ c <= issued /\ status[c] = "pending" /\ thread[th].targets # {}
      /\ \A k \in DOMAIN deliveries : deliveries[k].cmd # c
  BY <1>1 DEF IssuedInv, Serving, BatchRequests
<1>3. commandsLock = <<th>> /\ deliveriesLock = Free
  BY DEF BatchPushes, LocksInv
<1> PICK d \in Cmds, targets \in SUBSET Targets : d = c /\ targets = thread[th].targets
  BY <1>2
<1>4. deliveries' = Pushed(deliveries, d, targets)
  BY DEF BatchPushes, Fresh, Pushed
<1>5. deliveries \in Seq(Deliveries) /\ Distinct(deliveries) /\ \A k \in DOMAIN deliveries : deliveries[k].cmd # d
  BY <1>2 DEF TypesInv
<1>6. IsPushed(deliveries', deliveries, d, targets)
  BY <1>4, <1>5, PushedDeliveries
<1>7. QED BY <1>1, <1>2, <1>3, <1>6

\* save_batch_command with the second lock: the deliveries are in, both locks are free.
LEMMA BatchPushesKeeps ==
  ASSUME StoreInv, NEW th \in Threads, BatchPushes(th)
  PROVE  StoreInv'
<1> USE DEF StoreInv
<1> DEFINE c == thread[th].cmd
<1>1. /\ c \in Cmds /\ c <= issued /\ thread[th].op = "batch"
      /\ commandsLock = <<th>> /\ deliveriesLock = Free
      /\ deliveries' \in Seq(Deliveries) /\ Distinct(deliveries')
      /\ DOMAIN deliveries \subseteq DOMAIN deliveries'
      /\ \A k \in DOMAIN deliveries : deliveries'[k] = deliveries[k]
      /\ \A k \in DOMAIN deliveries' \ DOMAIN deliveries : deliveries'[k] \in Fresh(c, thread[th].targets)
  BY BatchPushed DEF IsPushed
<1>2. Idle \in AnyRequests /\ thread' = [thread EXCEPT ![th] = Idle]
  BY RequestAt DEF BatchPushes, End
<1>3. /\ thread' \in [Threads -> AnyRequests] /\ thread'[th] = Idle
      /\ \A h \in Threads \ {th} : thread'[h] = thread[h]
  BY <1>2, ThreadTo
<1>4. commandsLock' = Free /\ UNCHANGED <<status, deliveriesLock, issued>>
  BY DEF BatchPushes
<1>5. TypesInv'
  BY <1>1, <1>3, <1>4 DEF TypesInv
<1>6. \A k \in DOMAIN deliveries' \ DOMAIN deliveries : deliveries'[k].cmd = c
  <2>1. \A d \in Fresh(c, thread[th].targets) : d.cmd = c
    BY DEF Fresh
  <2>2. QED BY <1>1, <2>1
<1>7. IssuedInv'
  <2>1. \A k \in DOMAIN deliveries' : deliveries'[k].cmd <= issued'
    BY <1>1, <1>4, <1>6 DEF IssuedInv
  <2>2. ASSUME NEW h \in Threads PROVE Serving(h)'
    <3>1. CASE h = th
      BY <1>3, <3>1 DEF Serving, Idle
    <3>2. CASE h # th
      <4>1. thread[h].op = "batch" => thread[h].cmd # c
        BY <1>1, <3>2 DEF IssuedInv
      <4>2. thread[h].op = "batch" => \A k \in DOMAIN deliveries' : deliveries'[k].cmd # thread[h].cmd
        BY <1>1, <1>6, <4>1 DEF IssuedInv, Serving
      <4>3. thread[h].op = "complete" =>
              thread[h].index \in DOMAIN deliveries' /\ deliveries'[thread[h].index].status # "pending"
        BY <1>1 DEF IssuedInv, Serving
      <4>4. QED BY <1>3, <1>4, <3>2, <4>2, <4>3 DEF Serving, IssuedInv
    <3>3. QED BY <3>1, <3>2
  <2>3. QED BY <1>3, <1>4, <2>1, <2>2 DEF IssuedInv, Idle
<1>8. LocksInv'
  <2>1. \A h \in Threads : At(h, "batch", "deliveries")' <=> commandsLock' = <<h>>
    BY <1>1, <1>3, <1>4 DEF LocksInv, At, Free, Idle
  <2>2. \A h \in Threads : thread'[h].op \in {"poll", "complete"} /\ thread'[h].at = "commands"
                             => \E k \in DOMAIN deliveries' : deliveriesLock' = <<h, k>>
    BY <1>1, <1>3, <1>4 DEF LocksInv, Free, Idle
  <2>3. QED BY <1>1, <1>4, <2>1, <2>2 DEF LocksInv
<1>9. QED BY <1>5, <1>7, <1>8

\* A delivery that a thread gives out or finishes, and then keeps locked.
LEMMA ChangedDelivery ==
  ASSUME StoreInv, NEW th \in Threads, thread[th].op \in {"poll", "complete"}, To(th, "commands"),
         NEW k \in DOMAIN deliveries, NEW state \in {"running", "completed", "failed"},
         deliveries' = [deliveries EXCEPT ![k].status = state],
         deliveriesLock = Free, deliveriesLock' = <<th, k>>,
         thread[th].op = "poll" => state = "running",
         thread[th].op = "complete" => thread[th].index = k /\ thread[th].outcome = state,
         UNCHANGED <<status, commandsLock, issued>>
  PROVE  StoreInv'
<1> USE DEF StoreInv
<1>1. /\ deliveries' \in Seq(Deliveries) /\ Distinct(deliveries')
      /\ DOMAIN deliveries' = DOMAIN deliveries
      /\ deliveries'[k].status = state
      /\ \A j \in DOMAIN deliveries \ {k} : deliveries'[j] = deliveries[j]
      /\ \A j \in DOMAIN deliveries :
           deliveries'[j].cmd = deliveries[j].cmd /\ deliveries'[j].target = deliveries[j].target
  BY DeliveryTo
<1>2. /\ thread' \in [Threads -> AnyRequests] /\ \A h \in Threads \ {th} : thread'[h] = thread[h]
      /\ thread'[th].at = "commands" /\ thread'[th].op = thread[th].op
      /\ thread[th].op = "complete" =>
           thread'[th].index = thread[th].index /\ thread'[th].outcome = thread[th].outcome
  BY PlaceTo
<1>3. TypesInv'
  BY <1>1, <1>2 DEF TypesInv
<1>4. IssuedInv'
  <2>1. \A j \in DOMAIN deliveries : deliveries[j].status # "pending" => deliveries'[j].status # "pending"
    BY <1>1
  <2>2. ASSUME NEW h \in Threads PROVE Serving(h)'
    <3>1. CASE h = th
      BY <1>1, <1>2, <2>1, <3>1 DEF Serving, IssuedInv
    <3>2. CASE h # th
      BY <1>1, <1>2, <2>1, <3>2 DEF Serving, IssuedInv
    <3>3. QED BY <3>1, <3>2
  <2>3. \A b, d \in Threads :
          thread'[b].op = "batch" /\ thread'[d].op = "batch" /\ thread'[b].cmd = thread'[d].cmd => b = d
    BY <1>2 DEF IssuedInv
  <2>4. QED BY <1>1, <2>2, <2>3 DEF IssuedInv
<1>5. LocksInv'
  <2>1. \A h \in Threads : At(h, "batch", "deliveries")' <=> At(h, "batch", "deliveries")
    BY <1>2 DEF At
  <2>2. Holds(th, k)'
    BY <1>1, <1>2 DEF Holds
  <2>3. \A h \in Threads : thread'[h].op \in {"poll", "complete"} /\ thread'[h].at = "commands" => h = th
    BY <1>2 DEF LocksInv, Free
  <2>4. QED BY <1>1, <2>1, <2>2, <2>3 DEF LocksInv
<1>6. QED BY <1>3, <1>4, <1>5

\* A thread that has no lock goes on or ends without touching the store.
LEMMA OnlyThreadMoves ==
  ASSUME StoreInv, NEW th \in Threads, End(th) \/ (thread[th].op = "poll" /\ To(th, "count")),
         ~ At(th, "batch", "deliveries"),
         thread[th].op \in {"poll", "complete"} => thread[th].at # "commands",
         UNCHANGED <<status, deliveries, commandsLock, deliveriesLock, issued>>
  PROVE  StoreInv'
<1> USE DEF StoreInv
<1>1. /\ thread' \in [Threads -> AnyRequests] /\ \A h \in Threads \ {th} : thread'[h] = thread[h]
      /\ thread'[th].op \in {"none", "poll"} /\ thread'[th].at # "commands"
  <2>1. CASE End(th)
    <3>1. Idle \in AnyRequests
      BY RequestAt
    <3>2. /\ thread' \in [Threads -> AnyRequests] /\ thread'[th] = Idle
          /\ \A h \in Threads \ {th} : thread'[h] = thread[h]
      BY <2>1, <3>1, ThreadTo DEF End
    <3>3. QED BY <3>2 DEF Idle
  <2>2. CASE thread[th].op = "poll" /\ To(th, "count")
    BY <2>2, PlaceTo
  <2>3. QED BY <2>1, <2>2
<1>2. TypesInv'
  BY <1>1 DEF TypesInv
<1>3. IssuedInv'
  <2>1. \A h \in Threads : Serving(h)'
    BY <1>1 DEF Serving, IssuedInv
  <2>2. QED BY <1>1, <2>1 DEF IssuedInv
<1>4. LocksInv'
  <2>1. \A h \in Threads : At(h, "batch", "deliveries")' <=> At(h, "batch", "deliveries")
    BY <1>1 DEF At
  <2>2. \A h \in Threads, k \in DOMAIN deliveries : Holds(h, k) => Holds(h, k)'
    BY <1>1 DEF Holds
  <2>3. \A h \in Threads : thread'[h].op \in {"poll", "complete"} /\ thread'[h].at = "commands"
                             => thread[h].op \in {"poll", "complete"} /\ thread[h].at = "commands"
    BY <1>1
  <2>4. QED BY <2>1, <2>2, <2>3 DEF LocksInv
<1>5. QED BY <1>2, <1>3, <1>4

\* Who has the lock of the deliveries gives it up, and its command has a status.
LEMMA CommandMarked ==
  ASSUME StoreInv, NEW th \in Threads, NEW k \in DOMAIN deliveries, deliveriesLock = <<th, k>>,
         thread[th].op \in {"poll", "complete"}, thread[th].at = "commands",
         End(th) \/ (thread[th].op = "poll" /\ To(th, "count")),
         NEW state \in Seen!Statuses, status' = [status EXCEPT ![deliveries[k].cmd] = state],
         deliveriesLock' = Free, UNCHANGED <<deliveries, commandsLock, issued>>
  PROVE  StoreInv'
<1> USE DEF StoreInv
<1>1. /\ thread' \in [Threads -> AnyRequests] /\ \A h \in Threads \ {th} : thread'[h] = thread[h]
      /\ thread'[th].op \in {"none", "poll"} /\ thread'[th].at # "commands"
  <2>1. CASE End(th)
    <3>1. Idle \in AnyRequests
      BY RequestAt
    <3>2. /\ thread' \in [Threads -> AnyRequests] /\ thread'[th] = Idle
          /\ \A h \in Threads \ {th} : thread'[h] = thread[h]
      BY <2>1, <3>1, ThreadTo DEF End
    <3>3. QED BY <3>2 DEF Idle
  <2>2. CASE thread[th].op = "poll" /\ To(th, "count")
    BY <2>2, PlaceTo
  <2>3. QED BY <2>1, <2>2
<1>2. deliveries \in Seq(Deliveries) /\ deliveries[k] \in Deliveries
  BY DEF TypesInv
<1> PICK c \in Cmds : c = deliveries[k].cmd
  BY <1>2 DEF Deliveries
<1>3. status' \in [Cmds -> Seen!Statuses] /\ \A d \in Cmds \ {c} : status'[d] = status[d]
  BY DEF TypesInv
<1>4. TypesInv'
  BY <1>1, <1>3 DEF TypesInv
<1>5. IssuedInv'
  <2>1. c <= issued /\ c \in Nat /\ issued \in Nat
    BY DEF IssuedInv, TypesInv, Cmds
  <2>2. \A d \in Cmds : d > issued' => status'[d] = "absent"
    <3>1. TAKE d \in Cmds
    <3>2. d > issued => d # c
      BY <2>1 DEF Cmds
    <3>3. QED BY <1>3, <3>2 DEF IssuedInv
  <2>3. ASSUME NEW h \in Threads PROVE Serving(h)'
    <3>1. CASE h = th
      BY <1>1, <3>1 DEF Serving
    <3>2. CASE h # th
      <4>1. thread[h].op = "batch" => thread[h].cmd \in Cmds \ {c}
        BY RequestAt DEF IssuedInv, Serving, BatchRequests
      <4>2. thread[h].op = "batch" => status'[thread[h].cmd] = status[thread[h].cmd]
        BY <1>3, <4>1
      <4>3. QED BY <1>1, <3>2, <4>2 DEF Serving, IssuedInv
    <3>3. QED BY <3>1, <3>2
  <2>4. QED BY <1>1, <2>2, <2>3 DEF IssuedInv
<1>6. LocksInv'
  <2>1. \A h \in Threads : At(h, "batch", "deliveries")' <=> At(h, "batch", "deliveries")
    BY <1>1 DEF At
  <2>2. \A h \in Threads : thread'[h].op \in {"poll", "complete"} => thread'[h].at # "commands"
    BY <1>1 DEF LocksInv
  <2>3. QED BY <2>1, <2>2 DEF LocksInv
<1>7. QED BY <1>4, <1>5, <1>6

\* assign_next_command with the lock of the deliveries.
LEMMA PollAssignsKeeps ==
  ASSUME StoreInv, NEW th \in Threads, PollAssigns(th)
  PROVE  StoreInv'
<1>1. thread[th].op = "poll" /\ thread[th].at = "deliveries" /\ deliveriesLock = Free
  BY DEF PollAssigns, At
<1>2. UNCHANGED <<status, commandsLock, issued>>
  BY DEF PollAssigns
<1>3. CASE To(th, "count") /\ UNCHANGED <<deliveries, deliveriesLock>>
  BY <1>1, <1>2, <1>3, OnlyThreadMoves DEF At
<1>4. CASE \E k \in DOMAIN deliveries :
             /\ deliveries' = [deliveries EXCEPT ![k].status = "running"]
             /\ deliveriesLock' = <<th, k>> /\ To(th, "commands")
  BY <1>1, <1>2, <1>4, ChangedDelivery
<1>5. QED BY <1>3, <1>4 DEF PollAssigns, Wanted

\* Who has changed a delivery has the lock on that one.
LEMMA LockHeld ==
  ASSUME StoreInv, NEW th \in Threads, thread[th].op \in {"poll", "complete"}, thread[th].at = "commands"
  PROVE  \E k \in DOMAIN deliveries : deliveriesLock = <<th, k>> /\ Holds(th, k)
  BY DEF StoreInv, LocksInv, Free

\* assign_next_command with both locks.
LEMMA PollMarksCommandKeeps ==
  ASSUME StoreInv, NEW th \in Threads, PollMarksCommand(th)
  PROVE  StoreInv'
<1>1. thread[th].op = "poll" /\ thread[th].at = "commands"
  BY DEF PollMarksCommand, At
<1>2. PICK k \in DOMAIN deliveries : deliveriesLock = <<th, k>> /\ Holds(th, k)
  BY <1>1, LockHeld
<1>3. /\ status' = [status EXCEPT ![deliveries[k].cmd] = "running"] /\ To(th, "count")
      /\ deliveriesLock' = Free /\ UNCHANGED <<deliveries, commandsLock, issued>>
  BY <1>2 DEF PollMarksCommand
<1>4. "running" \in Seen!Statuses
  BY DEF Seen!Statuses
<1>5. QED BY <1>1, <1>2, <1>3, <1>4, CommandMarked

\* pending_command_count only reads.
LEMMA PollCountsKeeps ==
  ASSUME StoreInv, NEW th \in Threads, PollCounts(th)
  PROVE  StoreInv'
  BY OnlyThreadMoves DEF PollCounts, At

\* record_command_completion with the lock of the deliveries.
LEMMA CompleteRecordsKeeps ==
  ASSUME StoreInv, NEW th \in Threads, CompleteRecords(th)
  PROVE  StoreInv'
<1> DEFINE k == thread[th].index
<1>1. thread[th].op = "complete" /\ thread[th].at = "deliveries" /\ deliveriesLock = Free
  BY DEF CompleteRecords, At
<1>2. UNCHANGED <<status, commandsLock, issued>>
  BY DEF CompleteRecords
<1>3. CASE End(th) /\ UNCHANGED <<deliveries, deliveriesLock>>
  BY <1>1, <1>2, <1>3, OnlyThreadMoves DEF At
<1>4. CASE /\ deliveries' = [deliveries EXCEPT ![k].status = thread[th].outcome]
           /\ deliveriesLock' = <<th, k>> /\ To(th, "commands")
  <2>1. k \in DOMAIN deliveries /\ thread[th].outcome \in {"running", "completed", "failed"}
    BY <1>1, RequestAt DEF StoreInv, IssuedInv, Serving, CompleteRequests
  <2>2. QED BY <1>1, <1>2, <1>4, <2>1, ChangedDelivery
<1>5. QED BY <1>3, <1>4 DEF CompleteRecords

\* record_command_completion with both locks.
LEMMA CompleteAggregatesKeeps ==
  ASSUME StoreInv, NEW th \in Threads, CompleteAggregates(th)
  PROVE  StoreInv'
<1>1. thread[th].op = "complete" /\ thread[th].at = "commands"
  BY DEF CompleteAggregates, At
<1>2. PICK k \in DOMAIN deliveries : deliveriesLock = <<th, k>> /\ Holds(th, k)
  BY <1>1, LockHeld
<1>3. thread[th].index = k
  BY <1>1, <1>2 DEF Holds
<1>4. /\ status' = [status EXCEPT ![deliveries[k].cmd] = Seen!Aggregate(States(deliveries[k].cmd))]
      /\ deliveriesLock' = Free /\ End(th) /\ UNCHANGED <<deliveries, commandsLock, issued>>
  BY <1>3 DEF CompleteAggregates
<1>5. Seen!Aggregate(States(deliveries[k].cmd)) \in Seen!Statuses
  BY DEF Seen!Aggregate, Seen!Statuses, Seen!Terminal
<1>6. QED BY <1>1, <1>2, <1>4, <1>5, CommandMarked

\* list_queued_commands only reads.
LEMMA ListReadsKeeps ==
  ASSUME StoreInv, NEW th \in Threads, ListReads(th)
  PROVE  StoreInv'
  BY OnlyThreadMoves DEF ListReads, At

\* The empty store.
LEMMA StoreBegins == StoreInit => StoreInv
<1> SUFFICES ASSUME StoreInit PROVE StoreInv
  OBVIOUS
<1>1. deliveries = <<>> /\ DOMAIN deliveries = {}
  BY DEF StoreInit
<1>2. TypesInv
  BY <1>1 DEF StoreInit, TypesInv, Distinct, AnyRequests, Seen!Statuses
<1>3. IssuedInv
  BY <1>1 DEF StoreInit, IssuedInv, Serving, Idle
<1>4. LocksInv
  BY <1>1 DEF StoreInit, LocksInv, At, Free, Idle
<1>5. QED BY <1>2, <1>3, <1>4 DEF StoreInv

\* Every step keeps the invariant.
LEMMA StoreStep == StoreInv /\ [StoreNext]_storeVars => StoreInv'
<1> SUFFICES ASSUME StoreInv, [StoreNext]_storeVars PROVE StoreInv'
  OBVIOUS
<1>1. ASSUME NEW th \in Threads, BatchArrives(th) \/ RequestArrives(th) \/ Step(th) PROVE StoreInv'
  BY <1>1, BatchArrivesKeeps, RequestArrivesKeeps, BatchInsertsKeeps, BatchPushesKeeps, PollAssignsKeeps,
     PollMarksCommandKeeps, PollCountsKeeps, CompleteRecordsKeeps, CompleteAggregatesKeeps, ListReadsKeeps
     DEF Step
<1>2. CASE UNCHANGED storeVars
  BY <1>2 DEF storeVars, StoreInv, TypesInv, IssuedInv, Serving, LocksInv, Holds, At
<1>3. QED BY <1>1, <1>2 DEF StoreNext

\* In every execution of the in-memory store, for all threads, agents and numbers of
\* requests: no agent has two deliveries of a command, a batch between its two steps has
\* the lock of the commands and a command nobody else knows, and who has the lock of the
\* deliveries has changed exactly one whose command it is still to update.
THEOREM StoreIsKept == StoreSpec => []StoreInv
  BY StoreBegins, StoreStep, PTL DEF StoreSpec

-----------------------------------------------------------------------------
(***************************************************************************)
(* The store as it is seen.                                                *)
(***************************************************************************)

\* What is seen of a delivery is what is seen of its place in the list.
SeenInv ==
  /\ \A c \in Cmds, t \in Targets, k \in DOMAIN deliveries :
       deliveries[k].cmd = c /\ deliveries[k].target = t => SeenDelivery[c][t] = SeenState(k)
  /\ \A c \in Cmds, t \in Targets :
       (\A k \in DOMAIN deliveries : ~ (deliveries[k].cmd = c /\ deliveries[k].target = t))
         => SeenDelivery[c][t] = "absent"

\* No target has two deliveries of a command, so the table shows each place of the list.
LEMMA SeenPlaces == TypesInv => SeenInv
<1> SUFFICES ASSUME TypesInv PROVE SeenInv
  OBVIOUS
<1> DEFINE mine(c, t) == {k \in DOMAIN deliveries : deliveries[k].cmd = c /\ deliveries[k].target = t}
<1>1. ASSUME NEW c \in Cmds, NEW t \in Targets
      PROVE  SeenDelivery[c][t] =
               IF mine(c, t) = {} THEN "absent" ELSE SeenState(CHOOSE k \in mine(c, t) : TRUE)
  BY DEF SeenDelivery
<1>2. ASSUME NEW c \in Cmds, NEW t \in Targets, NEW k \in mine(c, t)
      PROVE  SeenDelivery[c][t] = SeenState(k)
  <2>1. \A j \in mine(c, t) : j = k
    BY DEF TypesInv, Distinct, OfOne
  <2>2. (CHOOSE j \in mine(c, t) : TRUE) = k
    BY <2>1
  <2>3. mine(c, t) # {}
    OBVIOUS
  <2> HIDE DEF mine
  <2>4. QED BY <1>1, <2>2, <2>3
<1>3. QED BY <1>1, <1>2 DEF SeenInv

\* The statuses a delivery is seen in.
Seens == {"absent", "pending", "running", "completed", "failed"}

SeenTyped == SeenDelivery \in [Cmds -> [Targets -> Seens]]

\* The table holds statuses.
LEMMA SeenTypes == TypesInv => SeenTyped
<1> SUFFICES ASSUME TypesInv PROVE SeenTyped
  OBVIOUS
<1>1. \A k \in DOMAIN deliveries : SeenState(k) \in Seens
  <2>1. deliveries \in Seq(Deliveries)
    BY DEF TypesInv
  <2>2. \A k \in DOMAIN deliveries : deliveries[k] \in Deliveries
    BY <2>1
  <2>3. QED BY <2>2 DEF SeenState, Deliveries, Seens
<1>2. \A c \in Cmds, t \in Targets : SeenDelivery[c][t] \in Seens
  <2>1. TAKE c \in Cmds, t \in Targets
  <2>2. CASE \E k \in DOMAIN deliveries : deliveries[k].cmd = c /\ deliveries[k].target = t
    BY <1>1, <2>2, SeenPlaces DEF SeenInv
  <2>3. CASE ~ \E k \in DOMAIN deliveries : deliveries[k].cmd = c /\ deliveries[k].target = t
    BY <2>3, SeenPlaces DEF SeenInv, Seens
  <2>4. QED BY <2>2, <2>3
<1>3. QED BY <1>2 DEF SeenDelivery, SeenTyped

\* The two facts after a step.
LEMMA SeenAfter == TypesInv' => SeenInv' /\ SeenTyped'
  BY SeenPlaces, SeenTypes, PTL

\* Tables of deliveries that agree everywhere are the same.
LEMMA SameTable ==
  ASSUME NEW f \in [Cmds -> [Targets -> Seens]], NEW g \in [Cmds -> [Targets -> Seens]],
         \A c \in Cmds, t \in Targets : f[c][t] = g[c][t]
  PROVE  f = g
<1>1. \A c \in Cmds : f[c] = g[c]
  <2>1. TAKE c \in Cmds
  <2>2. f[c] \in [Targets -> Seens] /\ g[c] \in [Targets -> Seens] /\ \A t \in Targets : f[c][t] = g[c][t]
    OBVIOUS
  <2>3. QED BY <2>2
<1>2. QED BY <1>1

\* A batch between its two steps is the only one, and has the lock of the commands.
UnpushedInv ==
  /\ commandsLock = Free => Unpushed = {}
  /\ \A th \in Threads : commandsLock = <<th>> => Unpushed = {thread[th].cmd}

\* Only the batch that has the lock of the commands hides its command.
LEMMA UnpushedIs == LocksInv => UnpushedInv
  BY DEF LocksInv, UnpushedInv, Unpushed, Free

\* The same after a step.
LEMMA UnpushedAfter == LocksInv' => UnpushedInv'
  BY UnpushedIs, PTL

\* A step that leaves the lock of the commands alone hides the same command.
LEMMA UnpushedStays ==
  ASSUME LocksInv, LocksInv', UNCHANGED commandsLock,
         \A h \in Threads : commandsLock = <<h>> => thread'[h] = thread[h]
  PROVE  Unpushed' = Unpushed
  BY UnpushedIs, UnpushedAfter DEF UnpushedInv, LocksInv

\* Who has changed a delivery goes on holding it.
LEMMA SameStates ==
  ASSUME LocksInv, UNCHANGED <<deliveries, deliveriesLock>>,
         \A h \in Threads : thread[h].op \in {"poll", "complete"} /\ thread[h].at = "commands"
                              => thread'[h].op = thread[h].op
  PROVE  \A k \in DOMAIN deliveries : SeenState(k)' = SeenState(k)
<1>1. CASE deliveriesLock = Free
  BY <1>1 DEF SeenState
<1>2. CASE \E h \in Threads, j \in DOMAIN deliveries : deliveriesLock = <<h, j>> /\ Holds(h, j)
  <2>1. PICK h \in Threads, j \in DOMAIN deliveries : deliveriesLock = <<h, j>> /\ Holds(h, j)
    BY <1>2
  <2>2. thread'[h].op = thread[h].op
    BY <2>1 DEF Holds
  <2>3. deliveriesLock[1] = h
    BY <2>1
  <2>4. QED BY <2>2, <2>3 DEF SeenState
<1>3. QED BY <1>1, <1>2 DEF LocksInv

\* Deliveries that are seen in the same states are the same table.
LEMMA SameDeliveries ==
  ASSUME TypesInv, TypesInv', DOMAIN deliveries' = DOMAIN deliveries,
         \A k \in DOMAIN deliveries :
           deliveries'[k].cmd = deliveries[k].cmd /\ deliveries'[k].target = deliveries[k].target,
         \A k \in DOMAIN deliveries : SeenState(k)' = SeenState(k)
  PROVE  SeenDelivery' = SeenDelivery
<1>1. SeenInv /\ SeenTyped /\ SeenInv' /\ SeenTyped'
  BY SeenPlaces, SeenTypes, SeenAfter
<1>2. \A c \in Cmds, t \in Targets : SeenDelivery'[c][t] = SeenDelivery[c][t]
  BY <1>1 DEF SeenInv
<1>3. QED BY <1>1, <1>2, SameTable DEF SeenTyped

\* A step between a request's arrival and its last is not seen.
LEMMA Unseen ==
  ASSUME StoreInv, StoreInv', UNCHANGED <<status, commandsLock>>,
         \A h \in Threads : commandsLock = <<h>> => thread'[h] = thread[h],
         DOMAIN deliveries' = DOMAIN deliveries,
         \A k \in DOMAIN deliveries :
           deliveries'[k].cmd = deliveries[k].cmd /\ deliveries'[k].target = deliveries[k].target,
         \A k \in DOMAIN deliveries : SeenState(k)' = SeenState(k)
  PROVE  UNCHANGED <<SeenStatus, SeenDelivery>>
<1>1. SeenDelivery' = SeenDelivery
  BY SameDeliveries DEF StoreInv
<1>2. Unpushed' = Unpushed
  BY UnpushedStays DEF StoreInv
<1>3. SeenStatus' = SeenStatus
  BY <1>2 DEF SeenStatus
<1>4. QED BY <1>1, <1>3

\* AnyRequests that arrive, and steps that only read, are not seen.
LEMMA ReadsUnseen ==
  ASSUME StoreInv, StoreInv', NEW th \in Threads,
         BatchArrives(th) \/ RequestArrives(th) \/ PollCounts(th) \/ ListReads(th)
  PROVE  UNCHANGED <<SeenStatus, SeenDelivery>>
<1>1. UNCHANGED <<status, deliveries, commandsLock, deliveriesLock>>
  BY DEF BatchArrives, RequestArrives, PollCounts, ListReads
<1>2. /\ \A h \in Threads \ {th} : thread'[h] = thread[h]
      /\ thread[th].op \in {"none", "list"} \/ thread[th].at = "count"
  <2>1. thread \in [Threads -> AnyRequests]
    BY DEF StoreInv, TypesInv
  <2>2. \E request : thread' = [thread EXCEPT ![th] = request]
    BY DEF BatchArrives, RequestArrives, PollCounts, ListReads, Serve, End
  <2>3. thread[th].op \in {"none", "list"} \/ thread[th].at = "count"
    BY DEF BatchArrives, RequestArrives, PollCounts, ListReads, Serve, At, Idle
  <2>4. QED BY <2>1, <2>2, <2>3
<1>3. \A h \in Threads : commandsLock = <<h>> => thread'[h] = thread[h]
  BY <1>2 DEF StoreInv, LocksInv, At
<1>4. \A k \in DOMAIN deliveries : SeenState(k)' = SeenState(k)
  BY <1>1, <1>2, SameStates DEF StoreInv
<1>5. QED BY <1>1, <1>3, <1>4, Unseen

\* A command without its deliveries is hidden by the lock of the commands.
LEMMA BatchInsertsUnseen ==
  ASSUME StoreInv, StoreInv', NEW th \in Threads, BatchInserts(th)
  PROVE  UNCHANGED <<SeenStatus, SeenDelivery>>
<1> DEFINE c == thread[th].cmd
<1>1. thread[th].op = "batch" /\ thread[th].at = "commands" /\ thread[th] \in BatchRequests
  BY RequestAt DEF BatchInserts, At, StoreInv
<1>2. /\ \A h \in Threads \ {th} : thread'[h] = thread[h]
      /\ thread'[th].op = "batch" /\ thread'[th].cmd = c
  BY <1>1, PlaceTo DEF BatchInserts, StoreInv
<1>3. /\ UNCHANGED <<deliveries, deliveriesLock>> /\ commandsLock = Free /\ commandsLock' = <<th>>
      /\ status' = [status EXCEPT ![c] = "pending"]
  BY DEF BatchInserts
<1>4. SeenDelivery' = SeenDelivery
  <2>1. \A k \in DOMAIN deliveries : SeenState(k)' = SeenState(k)
    BY <1>1, <1>2, <1>3, SameStates DEF StoreInv
  <2>2. QED BY <1>3, <2>1, SameDeliveries DEF StoreInv
<1>5. Unpushed = {} /\ Unpushed' = {c}
  BY <1>2, <1>3, UnpushedIs, UnpushedAfter DEF StoreInv, UnpushedInv
<1>6. c \in Cmds /\ status[c] = "absent"
  BY <1>1 DEF StoreInv, IssuedInv, Serving, BatchRequests
<1>7. SeenStatus' = SeenStatus
  <2>1. \A d \in Cmds : d # c => status'[d] = status[d]
    BY <1>3 DEF StoreInv, TypesInv
  <2>2. QED BY <1>5, <1>6, <2>1 DEF SeenStatus
<1>8. QED BY <1>4, <1>7

\* A delivery that a thread has changed is seen as it was while the thread holds it.
LEMMA ChangeUnseen ==
  ASSUME StoreInv, StoreInv', NEW th \in Threads, thread[th].op \in {"poll", "complete"},
         To(th, "commands"), NEW k \in DOMAIN deliveries, NEW state \in {"running", "completed", "failed"},
         deliveries' = [deliveries EXCEPT ![k].status = state],
         deliveriesLock = Free, deliveriesLock' = <<th, k>>,
         deliveries[k].status = IF thread[th].op = "poll" THEN "pending" ELSE "running",
         UNCHANGED <<status, commandsLock>>
  PROVE  UNCHANGED <<SeenStatus, SeenDelivery>>
<1>1. /\ DOMAIN deliveries' = DOMAIN deliveries
      /\ \A j \in DOMAIN deliveries \ {k} : deliveries'[j] = deliveries[j]
      /\ \A j \in DOMAIN deliveries :
           deliveries'[j].cmd = deliveries[j].cmd /\ deliveries'[j].target = deliveries[j].target
  BY DeliveryTo DEF StoreInv
<1>2. (\A h \in Threads \ {th} : thread'[h] = thread[h]) /\ thread'[th].op = thread[th].op
  BY PlaceTo DEF StoreInv
<1>3. \A h \in Threads : commandsLock = <<h>> => thread'[h] = thread[h]
  BY <1>2 DEF StoreInv, LocksInv, At
<1>4. \A j \in DOMAIN deliveries : SeenState(j)' = SeenState(j)
  <2>1. deliveriesLock'[1] = th /\ deliveriesLock'[2] = k /\ deliveriesLock' # Free
    BY DEF Free
  <2>2. QED BY <1>1, <1>2, <2>1 DEF SeenState
<1>5. QED BY <1>1, <1>3, <1>4, Unseen

\* An assignment is hidden by the lock of the deliveries until its command is marked.
LEMMA PollAssignsUnseen ==
  ASSUME StoreInv, StoreInv', NEW th \in Threads, PollAssigns(th)
  PROVE  UNCHANGED <<SeenStatus, SeenDelivery>>
<1>1. thread[th].op = "poll" /\ thread[th].at = "deliveries" /\ deliveriesLock = Free
  BY DEF PollAssigns, At
<1>2. UNCHANGED <<status, commandsLock>>
  BY DEF PollAssigns
<1>3. CASE To(th, "count") /\ UNCHANGED <<deliveries, deliveriesLock>>
  <2>1. \A h \in Threads \ {th} : thread'[h] = thread[h]
    BY <1>1, <1>3, PlaceTo DEF StoreInv
  <2>2. \A h \in Threads : commandsLock = <<h>> => thread'[h] = thread[h]
    BY <1>1, <2>1 DEF StoreInv, LocksInv, At
  <2>3. \A k \in DOMAIN deliveries : SeenState(k)' = SeenState(k)
    BY <1>1, <1>3 DEF SeenState
  <2>4. QED BY <1>2, <1>3, <2>2, <2>3, Unseen
<1>4. CASE \E k \in DOMAIN deliveries :
             /\ deliveries[k].status = "pending"
             /\ deliveries' = [deliveries EXCEPT ![k].status = "running"]
             /\ deliveriesLock' = <<th, k>> /\ To(th, "commands")
  BY <1>1, <1>2, <1>4, ChangeUnseen
<1>5. QED BY <1>3, <1>4 DEF PollAssigns, Wanted

\* So is a completion until its command has a new status; a refused one changes nothing.
LEMMA CompleteRecordsUnseen ==
  ASSUME StoreInv, StoreInv', NEW th \in Threads, CompleteRecords(th)
  PROVE  UNCHANGED <<SeenStatus, SeenDelivery>>
<1> DEFINE k == thread[th].index
<1>1. thread[th].op = "complete" /\ thread[th].at = "deliveries" /\ deliveriesLock = Free
  BY DEF CompleteRecords, At
<1>2. UNCHANGED <<status, commandsLock>>
  BY DEF CompleteRecords
<1>3. CASE End(th) /\ UNCHANGED <<deliveries, deliveriesLock>>
  <2>1. \A h \in Threads \ {th} : thread'[h] = thread[h]
    BY <1>3 DEF End, StoreInv, TypesInv
  <2>2. \A h \in Threads : commandsLock = <<h>> => thread'[h] = thread[h]
    BY <1>1, <2>1 DEF StoreInv, LocksInv, At
  <2>3. \A j \in DOMAIN deliveries : SeenState(j)' = SeenState(j)
    BY <1>1, <1>3 DEF SeenState
  <2>4. QED BY <1>2, <1>3, <2>2, <2>3, Unseen
<1>4. CASE /\ deliveries[k].status = "running"
           /\ deliveries' = [deliveries EXCEPT ![k].status = thread[th].outcome]
           /\ deliveriesLock' = <<th, k>> /\ To(th, "commands")
  <2>1. k \in DOMAIN deliveries /\ thread[th].outcome \in {"running", "completed", "failed"}
    BY <1>1, RequestAt DEF StoreInv, IssuedInv, Serving, CompleteRequests
  <2>2. QED BY <1>1, <1>2, <1>4, <2>1, ChangeUnseen
<1>5. QED BY <1>3, <1>4 DEF CompleteRecords

-----------------------------------------------------------------------------
(***************************************************************************)
(* The steps that are seen.                                                *)
(***************************************************************************)

\* The second step of a batch is seen as all of it.
LEMMA BatchPushesSeen ==
  ASSUME StoreInv, StoreInv', NEW th \in Threads, BatchPushes(th)
  PROVE  Seen!Next
<1>1. PICK c \in Cmds, targets \in (SUBSET Targets) \ {{}} : c = thread[th].cmd /\ targets = thread[th].targets
  BY BatchPushed
<1>2. /\ status[c] = "pending" /\ commandsLock = <<th>> /\ deliveriesLock = Free
      /\ \A k \in DOMAIN deliveries : deliveries[k].cmd # c
      /\ IsPushed(deliveries', deliveries, c, targets)
  BY <1>1, BatchPushed
<1>3. commandsLock' = Free /\ UNCHANGED <<status, deliveriesLock>>
  BY DEF BatchPushes
<1>4. Unpushed = {c} /\ Unpushed' = {}
  BY <1>1, <1>2, <1>3, UnpushedIs, UnpushedAfter DEF StoreInv, UnpushedInv
<1>5. SeenStatus[c] = "absent"
  BY <1>4 DEF SeenStatus
<1>6. SeenStatus' = [SeenStatus EXCEPT ![c] = "pending"]
  BY <1>2, <1>3, <1>4 DEF SeenStatus
<1>7. SeenInv /\ SeenTyped /\ SeenInv' /\ SeenTyped'
  BY SeenPlaces, SeenTypes, SeenAfter DEF StoreInv
<1> DEFINE row == [t \in Targets |-> IF t \in targets THEN "pending" ELSE "absent"]
<1>8. SeenDelivery' = [SeenDelivery EXCEPT ![c] = row]
  <2>1. [SeenDelivery EXCEPT ![c] = row] \in [Cmds -> [Targets -> Seens]]
    BY <1>7 DEF SeenTyped, Seens
  <2>2. ASSUME NEW d \in Cmds, NEW t \in Targets
        PROVE  SeenDelivery'[d][t] = [SeenDelivery EXCEPT ![c] = row][d][t]
    <3>1. \A k \in DOMAIN deliveries : deliveries'[k] = deliveries[k] /\ k \in DOMAIN deliveries'
      BY <1>2 DEF IsPushed
    <3>2. \A k \in DOMAIN deliveries' \ DOMAIN deliveries :
            /\ deliveries'[k].cmd = c /\ deliveries'[k].target \in targets
            /\ deliveries'[k].status = "pending"
      <4>1. \A new \in Fresh(c, targets) : new.cmd = c /\ new.target \in targets /\ new.status = "pending"
        BY DEF Fresh
      <4>2. QED BY <1>2, <4>1 DEF IsPushed
    <3>3. \A k \in DOMAIN deliveries' : SeenState(k)' = deliveries'[k].status
      BY <1>2, <1>3 DEF SeenState
    <3>4. \A k \in DOMAIN deliveries : SeenState(k) = deliveries[k].status
      BY <1>2 DEF SeenState
    <3>5. CASE d = c /\ t \in targets
      <4>1. PICK k \in DOMAIN deliveries' \ DOMAIN deliveries : deliveries'[k].target = t
        BY <1>2, <3>5 DEF IsPushed
      <4>2. SeenDelivery'[d][t] = "pending"
        BY <1>7, <3>2, <3>3, <3>5, <4>1 DEF SeenInv
      <4>3. QED BY <1>7, <3>5, <4>2 DEF SeenTyped
    <3>6. CASE d = c /\ t \notin targets
      <4>1. SeenDelivery'[d][t] = "absent"
        BY <1>2, <1>7, <3>1, <3>2, <3>6 DEF SeenInv
      <4>2. QED BY <1>7, <3>6, <4>1 DEF SeenTyped
    <3>7. CASE d # c
      <4>1. SeenDelivery'[d][t] = SeenDelivery[d][t]
        <5>1. CASE \E k \in DOMAIN deliveries : deliveries[k].cmd = d /\ deliveries[k].target = t
          BY <1>7, <3>1, <3>3, <3>4, <5>1 DEF SeenInv
        <5>2. CASE \A k \in DOMAIN deliveries : ~ (deliveries[k].cmd = d /\ deliveries[k].target = t)
          <6>1. \A k \in DOMAIN deliveries' : ~ (deliveries'[k].cmd = d /\ deliveries'[k].target = t)
            BY <3>1, <3>2, <3>7, <5>2
          <6>2. SeenDelivery'[d][t] = "absent" /\ SeenDelivery[d][t] = "absent"
            BY <1>7, <5>2, <6>1 DEF SeenInv
          <6>3. QED BY <6>2
        <5>3. QED BY <5>1, <5>2
      <4>2. QED BY <1>7, <3>7, <4>1 DEF SeenTyped
    <3>8. QED BY <3>5, <3>6, <3>7
  <2>3. QED BY <1>7, <2>1, <2>2, SameTable DEF SeenTyped
<1>9. Seen!Enqueue(c, targets)
  BY <1>5, <1>6, <1>8 DEF Seen!Enqueue
<1>10. QED BY <1>9 DEF Seen!Next

\* A delivery is seen to change when the thread that has changed it gives it up.
LEMMA MarkedDelivery ==
  ASSUME StoreInv, StoreInv', NEW th \in Threads, NEW k \in DOMAIN deliveries, deliveriesLock = <<th, k>>,
         deliveriesLock' = Free, UNCHANGED deliveries,
         NEW c \in Cmds, NEW t \in Targets, c = deliveries[k].cmd, t = deliveries[k].target
  PROVE  /\ SeenDelivery' = [SeenDelivery EXCEPT ![c][t] = deliveries[k].status]
         /\ SeenDelivery[c][t] = IF thread[th].op = "poll" THEN "pending" ELSE "running"
<1>1. SeenInv /\ SeenTyped /\ SeenInv' /\ SeenTyped'
  BY SeenPlaces, SeenTypes, SeenAfter DEF StoreInv
<1>2. deliveriesLock # Free /\ deliveriesLock[1] = th /\ deliveriesLock[2] = k
  BY DEF Free
<1>3. \A j \in DOMAIN deliveries : SeenState(j)' = deliveries[j].status
  BY DEF SeenState
<1>4. /\ SeenState(k) = IF thread[th].op = "poll" THEN "pending" ELSE "running"
      /\ \A j \in DOMAIN deliveries \ {k} : SeenState(j) = deliveries[j].status
  BY <1>2 DEF SeenState
<1>5. \A j \in DOMAIN deliveries : deliveries[j].cmd = c /\ deliveries[j].target = t => j = k
  BY DEF StoreInv, TypesInv, Distinct, OfOne
<1>6. SeenDelivery'[c][t] = deliveries[k].status
  BY <1>1, <1>3 DEF SeenInv
<1>7. \A d \in Cmds, u \in Targets : d # c \/ u # t => SeenDelivery'[d][u] = SeenDelivery[d][u]
  <2>1. SUFFICES ASSUME NEW d \in Cmds, NEW u \in Targets, d # c \/ u # t
                 PROVE  SeenDelivery'[d][u] = SeenDelivery[d][u]
    OBVIOUS
  <2>2. CASE \E j \in DOMAIN deliveries : deliveries[j].cmd = d /\ deliveries[j].target = u
    <3>1. PICK j \in DOMAIN deliveries : deliveries[j].cmd = d /\ deliveries[j].target = u
      BY <2>2
    <3>2. j # k
      BY <2>1, <3>1
    <3>3. SeenDelivery'[d][u] = SeenState(j)' /\ SeenDelivery[d][u] = SeenState(j)
      BY <1>1, <3>1 DEF SeenInv
    <3>4. QED BY <1>3, <1>4, <3>2, <3>3
  <2>3. CASE \A j \in DOMAIN deliveries : ~ (deliveries[j].cmd = d /\ deliveries[j].target = u)
    <3>1. SeenDelivery'[d][u] = "absent" /\ SeenDelivery[d][u] = "absent"
      BY <1>1, <2>3 DEF SeenInv
    <3>2. QED BY <3>1
  <2>4. QED BY <2>2, <2>3
<1> DEFINE marked == [SeenDelivery EXCEPT ![c][t] = deliveries[k].status]
<1>8. marked \in [Cmds -> [Targets -> Seens]]
  <2>1. deliveries[k].status \in Seens
    BY <1>1, <1>6 DEF SeenTyped
  <2>2. QED BY <1>1, <2>1 DEF SeenTyped
<1>9. \A d \in Cmds, u \in Targets : SeenDelivery'[d][u] = marked[d][u]
  BY <1>1, <1>6, <1>7 DEF SeenTyped
<1> HIDE DEF marked
<1>10. SeenDelivery' = marked
  BY <1>1, <1>8, <1>9, SameTable DEF SeenTyped
<1>11. SeenDelivery[c][t] = SeenState(k)
  BY <1>1 DEF SeenInv
<1>12. QED BY <1>4, <1>10, <1>11 DEF marked

\* A command is seen to change with it: no batch is between its two steps.
LEMMA MarkedCommand ==
  ASSUME StoreInv, StoreInv', commandsLock = Free, UNCHANGED commandsLock,
         NEW c \in Cmds, NEW state, status' = [status EXCEPT ![c] = state]
  PROVE  SeenStatus' = [SeenStatus EXCEPT ![c] = state]
<1>1. Unpushed = {} /\ Unpushed' = {}
  BY UnpushedIs, UnpushedAfter DEF StoreInv, UnpushedInv
<1>2. QED BY <1>1 DEF SeenStatus, StoreInv, TypesInv

\* The second step of an assignment is seen as all of it.
LEMMA PollMarksCommandSeen ==
  ASSUME StoreInv, StoreInv', NEW th \in Threads, PollMarksCommand(th)
  PROVE  Seen!Next
<1>1. thread[th].op = "poll" /\ thread[th].at = "commands" /\ commandsLock = Free
  BY DEF PollMarksCommand, At
<1>2. PICK k \in DOMAIN deliveries : deliveriesLock = <<th, k>> /\ Holds(th, k)
  BY <1>1, LockHeld
<1>3. deliveries \in Seq(Deliveries) /\ deliveries[k] \in Deliveries
  BY DEF StoreInv, TypesInv
<1> PICK c \in Cmds, t \in Targets : c = deliveries[k].cmd /\ t = deliveries[k].target
  BY <1>3 DEF Deliveries
<1>4. /\ status' = [status EXCEPT ![c] = "running"]
      /\ deliveriesLock' = Free /\ UNCHANGED <<deliveries, commandsLock>>
  BY <1>2 DEF PollMarksCommand
<1>5. deliveries[k].status = "running"
  BY <1>1, <1>2 DEF Holds
<1>6. SeenDelivery[c][t] = "pending" /\ SeenDelivery' = [SeenDelivery EXCEPT ![c][t] = "running"]
  BY <1>1, <1>2, <1>4, <1>5, MarkedDelivery
<1>7. SeenStatus' = [SeenStatus EXCEPT ![c] = "running"]
  BY <1>1, <1>4, MarkedCommand
<1>8. Seen!Assign(c, t)
  BY <1>6, <1>7 DEF Seen!Assign
<1>9. QED BY <1>8 DEF Seen!Next

\* What is seen of a command's deliveries, once nobody holds one.
LEMMA StatesSeen ==
  ASSUME StoreInv, StoreInv', deliveriesLock' = Free, UNCHANGED deliveries, NEW c \in Cmds
  PROVE  States(c) = {SeenDelivery'[c][t] : t \in Targets} \ {"absent"}
<1>1. SeenInv' /\ deliveries \in Seq(Deliveries)
  BY SeenAfter DEF StoreInv, TypesInv
<1>2. \A k \in DOMAIN deliveries : SeenState(k)' = deliveries[k].status
  BY DEF SeenState
<1>3. \A k \in DOMAIN deliveries : deliveries[k].target \in Targets /\ deliveries[k].status # "absent"
  <2>1. \A k \in DOMAIN deliveries : deliveries[k] \in Deliveries
    BY <1>1
  <2>2. QED BY <2>1 DEF Deliveries
<1>4. ASSUME NEW state \in States(c) PROVE state \in {SeenDelivery'[c][t] : t \in Targets} \ {"absent"}
  <2>1. PICK k \in DOMAIN deliveries : deliveries[k].cmd = c /\ state = deliveries[k].status
    BY DEF States
  <2>2. SeenDelivery'[c][deliveries[k].target] = state /\ deliveries[k].target \in Targets /\ state # "absent"
    BY <1>1, <1>2, <1>3, <2>1 DEF SeenInv
  <2>3. QED BY <2>2
<1>5. ASSUME NEW t \in Targets, SeenDelivery'[c][t] # "absent" PROVE SeenDelivery'[c][t] \in States(c)
  <2>1. PICK k \in DOMAIN deliveries : deliveries[k].cmd = c /\ deliveries[k].target = t
    BY <1>1, <1>5 DEF SeenInv
  <2>2. SeenDelivery'[c][t] = deliveries[k].status
    BY <1>1, <1>2, <2>1 DEF SeenInv
  <2>3. QED BY <2>1, <2>2 DEF States
<1>6. QED BY <1>4, <1>5

\* The second step of a completion is seen as all of it, with the status that the
\* deliveries then have together.
LEMMA CompleteAggregatesSeen ==
  ASSUME StoreInv, StoreInv', NEW th \in Threads, CompleteAggregates(th)
  PROVE  Seen!Next
<1>1. thread[th].op = "complete" /\ thread[th].at = "commands" /\ commandsLock = Free
  BY DEF CompleteAggregates, At
<1>2. PICK k \in DOMAIN deliveries : deliveriesLock = <<th, k>> /\ Holds(th, k)
  BY <1>1, LockHeld
<1>3. deliveries \in Seq(Deliveries) /\ deliveries[k] \in Deliveries
  BY DEF StoreInv, TypesInv
<1> PICK c \in Cmds, t \in Targets : c = deliveries[k].cmd /\ t = deliveries[k].target
  BY <1>3 DEF Deliveries
<1>4. thread[th].index = k /\ deliveries[k].status = thread[th].outcome
  BY <1>1, <1>2 DEF Holds
<1> PICK outcome \in Seen!Terminal : outcome = deliveries[k].status
  BY <1>1, <1>4, RequestAt DEF StoreInv, CompleteRequests, Seen!Terminal
<1>5. /\ status' = [status EXCEPT ![c] = Seen!Aggregate(States(c))]
      /\ deliveriesLock' = Free /\ UNCHANGED <<deliveries, commandsLock>>
  BY <1>4 DEF CompleteAggregates
<1>6. SeenDelivery[c][t] = "running" /\ SeenDelivery' = [SeenDelivery EXCEPT ![c][t] = outcome]
  BY <1>1, <1>2, <1>5, MarkedDelivery
<1>7. SeenStatus' = [SeenStatus EXCEPT ![c] = Seen!Aggregate(States(c))]
  BY <1>1, <1>5, MarkedCommand
<1>8. States(c) = {SeenDelivery'[c][s] : s \in Targets} \ {"absent"}
  BY <1>5, StatesSeen
<1>9. Seen!Record(c, t, outcome)
  BY <1>6, <1>7, <1>8 DEF Seen!Record
<1>10. QED BY <1>9 DEF Seen!Next

\* An empty store is an empty ledger.
LEMMA SeenInit == StoreInit => Seen!Init
<1> SUFFICES ASSUME StoreInit PROVE Seen!Init
  OBVIOUS
<1>1. Unpushed = {}
  BY DEF StoreInit, Unpushed, At, Idle
<1>2. SeenStatus = [c \in Cmds |-> "absent"]
  BY <1>1 DEF StoreInit, SeenStatus
<1>3. SeenDelivery = [c \in Cmds |-> [t \in Targets |-> "absent"]]
  BY DEF StoreInit, SeenDelivery
<1>4. QED BY <1>2, <1>3 DEF Seen!Init

\* Every step is seen as one of the ledger or not at all.
LEMMA SeenStep == StoreInv /\ StoreInv' /\ [StoreNext]_storeVars => [Seen!Next]_<<SeenStatus, SeenDelivery>>
<1> SUFFICES ASSUME StoreInv, StoreInv', [StoreNext]_storeVars
             PROVE  Seen!Next \/ UNCHANGED <<SeenStatus, SeenDelivery>>
  OBVIOUS
<1>1. ASSUME NEW th \in Threads, BatchArrives(th) \/ RequestArrives(th) \/ Step(th)
      PROVE  Seen!Next \/ UNCHANGED <<SeenStatus, SeenDelivery>>
  BY <1>1, ReadsUnseen, BatchInsertsUnseen, BatchPushesSeen, PollAssignsUnseen, PollMarksCommandSeen,
     CompleteRecordsUnseen, CompleteAggregatesSeen DEF Step
<1>2. CASE UNCHANGED storeVars
  BY <1>2 DEF storeVars, SeenStatus, SeenDelivery, SeenState, Unpushed, At
<1>3. QED BY <1>1, <1>2 DEF StoreNext

\* Through the two locks the in-memory store of the admin server
\* (MemoryAdminServerStore) does batches, assignments and completions at once.
THEOREM StoreImplementsLedger == StoreSpec => ImplementsLedger
<1>1. StoreSpec => []StoreInv
  BY StoreIsKept
<1>2. QED BY <1>1, SeenInit, SeenStep, PTL DEF StoreSpec, ImplementsLedger, Seen!Spec

=============================================================================
