---------------------------- MODULE Pipeline_proofs ----------------------------
(***************************************************************************)
(* Proofs about Pipeline for any peers, packets, policies and windows, and *)
(* any interleaving of the capture thread and the main thread.             *)
(***************************************************************************)
EXTENDS Pipeline, SequenceTheorems, TLAPS

USE DEF threads, coverage, pipeVars

-----------------------------------------------------------------------------
\* Sequences.

LEMMA TailFacts ==
  ASSUME NEW S, NEW s \in Seq(S), s # <<>>
  PROVE  /\ Len(s) \in Nat /\ Len(s) >= 1
         /\ Head(s) = s[1] /\ Head(s) \in S
         /\ Tail(s) \in Seq(S) /\ Len(Tail(s)) = Len(s) - 1
         /\ \A i \in 1 .. Len(s) - 1 : Tail(s)[i] = s[i + 1]
         /\ \A i \in 2 .. Len(s) : s[i] = Tail(s)[i - 1]
BY HeadTailProperties

LEMMA LongerTail ==
  ASSUME NEW S, NEW s \in Seq(S), Len(s) > 1
  PROVE  Tail(s) # <<>>
<1>1. s # <<>>
  BY EmptySeq
<1>2. Tail(s) \in Seq(S) /\ Len(Tail(s)) = Len(s) - 1 /\ Len(s) \in Nat
  BY <1>1, TailFacts
<1> DEFINE rest == Tail(s)
<1>3. rest \in Seq(S) /\ Len(rest) # 0
  BY <1>2
<1> HIDE DEF rest
<1>4. rest # <<>>
  BY <1>3, EmptySeq
<1>5. QED
  BY <1>4 DEF rest

LEMMA AppendFacts ==
  ASSUME NEW S, NEW s \in Seq(S), NEW e \in S
  PROVE  /\ Len(s) \in Nat
         /\ Append(s, e) \in Seq(S) /\ Len(Append(s, e)) = Len(s) + 1
         /\ \A i \in 1 .. Len(s) : Append(s, e)[i] = s[i]
         /\ Append(s, e)[Len(s) + 1] = e
         /\ Append(s, e) # <<>>
BY AppendProperties, LenProperties

-----------------------------------------------------------------------------
\* The rules an evaluation finds: none twice, and of those that alert once only
\* such as it marks and nobody has marked before; who is marked has an event
\* unless allowed.
FiresWell(fires, marks, p) ==
  /\ fires \in Seq(Rules) /\ marks \subseteq OnceRules
  /\ \A i, j \in 1 .. Len(fires) : fires[i] = fires[j] => i = j
  /\ \A i \in 1 .. Len(fires) : fires[i] \in OnceRules => fires[i] \in marks /\ Unmarked(fires[i], p)
  /\ \A r \in marks : Unmarked(r, p) /\ ~Allowed(p) => \E i \in 1 .. Len(fires) : fires[i] = r

LEMMA RuleTypes ==
  /\ {"OT-004", "OT-010", "OT-007", "OT-011", "OT-012", "OT-014", "OT-016", "OT-018",
      "OT-008", "OT-009"} \subseteq Rules
  /\ OnceRules \subseteq Rules
BY DEF Rules, MvpRules, IecRules, OnceRules

\* The list holds these rules, each once.
Lists(f, R) ==
  /\ f \in Seq(Rules)
  /\ \A i, j \in 1 .. Len(f) : f[i] = f[j] => i = j
  /\ \A i \in 1 .. Len(f) : f[i] \in R
  /\ \A r \in R : \E i \in 1 .. Len(f) : f[i] = r

If(rule, fires) == {r \in {rule} : fires}

LEMMA OneRule ==
  ASSUME NEW b \in Rules, NEW B
  PROVE  Lists(When(b, B), If(b, B))
<1>1. CASE B
  <2>1. When(b, B) = <<b>> /\ If(b, B) = {b}
    BY <1>1 DEF When, If
  <2>2. Len(<<b>>) = 1 /\ <<b>>[1] = b /\ <<b>> \in Seq(Rules)
    OBVIOUS
  <2>3. Lists(<<b>>, {b})
    BY <2>2 DEF Lists
  <2>4. QED
    BY <2>1, <2>3
<1>2. CASE ~B
  <2>1. When(b, B) = <<>> /\ If(b, B) = {}
    BY <1>2 DEF When, If
  <2>2. Lists(<<>>, {})
    BY EmptySeq DEF Lists
  <2>3. QED
    BY <2>1, <2>2
<1>3. QED
  BY <1>1, <1>2

LEMMA AnotherRule ==
  ASSUME NEW s, NEW R, Lists(s, R), NEW b \in Rules \ R, NEW B
  PROVE  Lists(s \o When(b, B), R \union If(b, B))
<1>0. s \in Seq(Rules)
  BY DEF Lists
<1>1. CASE B
  <2> DEFINE w == Append(s, b)
  <2>1. s \o When(b, B) = w /\ R \union If(b, B) = R \union {b}
    BY <1>0, <1>1 DEF When, If
  <2>2. /\ Len(s) \in Nat /\ w \in Seq(Rules) /\ Len(w) = Len(s) + 1
        /\ \A i \in 1 .. Len(s) : w[i] = s[i]
        /\ w[Len(s) + 1] = b
    BY <1>0, AppendFacts
  <2> HIDE DEF w
  <2>3. \A i \in 1 .. Len(w) : i = Len(s) + 1 \/ i \in 1 .. Len(s)
    BY <2>2
  <2>4. \A i, j \in 1 .. Len(w) : w[i] = w[j] => i = j
    BY <2>2, <2>3 DEF Lists
  <2>5. \A i \in 1 .. Len(w) : w[i] \in R \union {b}
    BY <2>2, <2>3 DEF Lists
  <2>6. \A i \in 1 .. Len(s) : i \in 1 .. Len(w) /\ w[i] = s[i]
    BY <2>2
  <2>7. Len(s) + 1 \in 1 .. Len(w)
    BY <2>2
  <2>8. \A r \in R \union {b} : \E i \in 1 .. Len(w) : w[i] = r
    BY <2>2, <2>6, <2>7 DEF Lists
  <2>9. Lists(w, R \union {b})
    BY <2>2, <2>4, <2>5, <2>8 DEF Lists
  <2>10. QED
    BY <2>1, <2>9
<1>2. CASE ~B
  <2>1. s \o When(b, B) = s /\ R \union If(b, B) = R
    BY <1>0, <1>2, ConcatEmptySeq DEF When, If
  <2>2. QED
    BY <2>1
<1>3. QED
  BY <1>1, <1>2

\* The evaluations raise such lists.
LEMMA ObserveWell == ASSUME NEW p PROVE FiresWell(ObserveFires(p), ObserveMarks(p), p)
<1> DEFINE A == Enabled("OT-004") /\ Newcomer("OT-004", p)
           B == Enabled("OT-010") /\ Newcomer("OT-010", p)
<1>1. Lists(When("OT-004", A), If("OT-004", A))
  BY OneRule, RuleTypes
<1>2. "OT-010" \in Rules \ If("OT-004", A)
  BY RuleTypes DEF If
<1>3. Lists(When("OT-004", A) \o When("OT-010", B), If("OT-004", A) \union If("OT-010", B))
  BY <1>1, <1>2, AnotherRule
<1>4. Lists(ObserveFires(p), If("OT-004", A) \union If("OT-010", B))
  BY <1>3 DEF ObserveFires
<1>5. QED
  BY <1>4 DEF Lists, If, FiresWell, ObserveMarks, OnceRules, Newcomer

LEMMA ModbusWell == ASSUME NEW p, NEW w PROVE FiresWell(ModbusFires(p, w), {}, p)
<1> DEFINE A == Enabled("OT-007") /\ w /\ ~Allowed(p)
<1>1. Lists(ModbusFires(p, w), If("OT-007", A))
  BY OneRule, RuleTypes DEF ModbusFires
<1>2. QED
  BY <1>1 DEF Lists, If, FiresWell, OnceRules

LEMMA GooseWell == ASSUME NEW p, NEW test PROVE FiresWell(GooseFires(p, test), {"OT-011"}, p)
<1> DEFINE A == Newcomer("OT-011", p)
<1>1. Lists(When("OT-011", A), If("OT-011", A))
  BY OneRule, RuleTypes
<1>2. "OT-012" \in Rules \ If("OT-011", A)
  BY RuleTypes DEF If
<1>3. Lists(GooseFires(p, test), If("OT-011", A) \union If("OT-012", test))
  BY <1>1, <1>2, AnotherRule DEF GooseFires
<1>4. QED
  BY <1>3 DEF Lists, If, FiresWell, OnceRules, Newcomer

LEMMA MmsWell == ASSUME NEW p, NEW w PROVE FiresWell(MmsFires(p, w), MmsMarks(p), p)
<1> DEFINE A == Newcomer("OT-014", p)
           B == w /\ ~Allowed(p)
           C == Newcomer("OT-018", p)
<1>1. Lists(When("OT-014", A), If("OT-014", A))
  BY OneRule, RuleTypes
<1>2. "OT-016" \in Rules \ If("OT-014", A)
  BY RuleTypes DEF If
<1>3. Lists(When("OT-014", A) \o When("OT-016", B), If("OT-014", A) \union If("OT-016", B))
  BY <1>1, <1>2, AnotherRule
<1>4. "OT-018" \in Rules \ (If("OT-014", A) \union If("OT-016", B))
  BY RuleTypes DEF If
<1>5. Lists(MmsFires(p, w), (If("OT-014", A) \union If("OT-016", B)) \union If("OT-018", C))
  BY <1>3, <1>4, AnotherRule DEF MmsFires
<1>6. QED
  BY <1>5 DEF Lists, If, FiresWell, MmsMarks, OnceRules, Newcomer

\* The rules the main thread marks for a window.
WindowMarks(silent) == {rule \in {"OT-009"} : Enabled(rule) /\ silent}

LEMMA WindowWell ==
  ASSUME NEW high, NEW silent
  PROVE  FiresWell(WindowFires(high, silent), WindowMarks(silent), Asset)
<1> DEFINE A == Enabled("OT-008") /\ high
           B == Enabled("OT-009") /\ silent /\ Unmarked("OT-009", Asset)
<1>1. Lists(When("OT-008", A), If("OT-008", A))
  BY OneRule, RuleTypes
<1>2. "OT-009" \in Rules \ If("OT-008", A)
  BY RuleTypes DEF If
<1>3. Lists(When("OT-008", A) \o When("OT-009", B), If("OT-008", A) \union If("OT-009", B))
  BY <1>1, <1>2, AnotherRule
<1>4. Lists(WindowFires(high, silent), If("OT-008", A) \union If("OT-009", B))
  BY <1>3 DEF WindowFires
<1>5. QED
  BY <1>4 DEF Lists, If, FiresWell, WindowMarks, OnceRules

-----------------------------------------------------------------------------
\* Types.  A counter is incremented for an event that has no ID, and events are
\* emitted by a thread that has some.
TypeInv ==
  /\ PipeTypeOK
  /\ \A t \in Threads : bumped[t] => todo[t] # <<>>
  /\ \A t \in Threads : emitting[t] => out[t] # <<>>

LEMMA TypeInit == PipeInit => TypeInv
<1> SUFFICES ASSUME PipeInit PROVE TypeInv
  OBVIOUS
<1> USE DEF PipeInit
<1>1. packet \in Packets
  BY PipelineAssumption
<1>2. packets \in 0 .. MaxPackets /\ windows \in 0 .. MaxWindows
  BY PipelineAssumption
<1>3. todo \in [Threads -> Seq(Alerts)] /\ out \in [Threads -> Seq(EventRows)] /\ events \in Seq(EventRows)
  BY EmptySeq
<1>4. eventSeq \in [Seqs -> Nat]
  OBVIOUS
<1>5. at \in [Threads -> {"idle", "observe", "frame", "window", "coverage", "clean"}]
  OBVIOUS
<1>6. bumped \in [Threads -> BOOLEAN]
  <2>1. [t \in Threads |-> FALSE] \in [Threads -> BOOLEAN]
    OBVIOUS
  <2>2. QED
    BY <2>1
<1>61. emitting \in [Threads -> BOOLEAN]
  <2>1. [t \in Threads |-> FALSE] \in [Threads -> BOOLEAN]
    OBVIOUS
  <2>2. QED
    BY <2>1
<1>7. /\ {recorded, snapped, filed, late} \subseteq Nat /\ dirty \in BOOLEAN
      /\ detecting \in BOOLEAN /\ policy \in Policies
      /\ marked \subseteq OnceRules \X (Peers \union {Asset}) /\ silenced \subseteq Alerts
  <2>1. {recorded, snapped, filed, late} \subseteq Nat
    OBVIOUS
  <2>2. dirty \in BOOLEAN /\ detecting \in BOOLEAN /\ policy \in Policies
    OBVIOUS
  <2>3. marked \subseteq OnceRules \X (Peers \union {Asset}) /\ silenced \subseteq Alerts
    OBVIOUS
  <2>4. QED
    BY <2>1, <2>2, <2>3
<1>71. PipeTypeOK
  BY ONLY <1>1, <1>2, <1>3, <1>4, <1>5, <1>6, <1>61, <1>7 DEF PipeTypeOK
<1>8. \A t \in Threads : ~bumped[t] /\ ~emitting[t]
  OBVIOUS
<1>9. QED
  BY <1>71, <1>8 DEF TypeInv

\* The alerts an evaluation leaves to be numbered.
LEMMA Evaluated ==
  ASSUME PipeTypeOK, NEW t \in Threads, NEW s, NEW fires, NEW marks, NEW p \in Peers \union {Asset},
         FiresWell(fires, marks, p), Evaluate(t, s, fires, marks, p)
  PROVE  /\ todo' \in [Threads -> Seq(Alerts)]
         /\ Len(todo'[t]) = Len(fires) /\ Len(fires) \in Nat
         /\ \A i \in 1 .. Len(fires) : todo'[t][i] = <<fires[i], p>> /\ fires[i] \in Rules
         /\ \A u \in Threads \ {t} : todo'[u] = todo[u]
         /\ marked' = marked \union (marks \X {p})
         /\ silenced' = silenced \union {<<r, p>> : r \in {q \in marks : Unmarked(q, p) /\ Allowed(p)}}
<1>1. fires \in Seq(Rules) /\ Len(fires) \in Nat
  BY LenProperties DEF FiresWell
<1>2. \A i \in 1 .. Len(fires) : fires[i] \in Rules
  BY <1>1, ElementOfSeq
<1> DEFINE alerts == [i \in 1 .. Len(fires) |-> <<fires[i], p>>]
<1>3. \A i \in 1 .. Len(fires) : <<fires[i], p>> \in Alerts
  BY <1>2 DEF Alerts
<1>4. alerts \in Seq(Alerts) /\ Len(alerts) = Len(fires)
  BY <1>1, <1>3
<1>5. \A i \in 1 .. Len(fires) : alerts[i] = <<fires[i], p>>
  OBVIOUS
<1> HIDE DEF alerts
<1>6. todo' = [todo EXCEPT ![t] = alerts]
  BY DEF Evaluate, alerts
<1>7. todo \in [Threads -> Seq(Alerts)]
  BY DEF PipeTypeOK
<1>8. todo' \in [Threads -> Seq(Alerts)] /\ todo'[t] = alerts /\ \A u \in Threads \ {t} : todo'[u] = todo[u]
  BY <1>4, <1>6, <1>7
<1>9. QED
  BY <1>1, <1>2, <1>4, <1>5, <1>8 DEF Evaluate

\* An evaluation keeps the types.
LEMMA EvaluateType ==
  ASSUME TypeInv, NEW t \in Threads, NEW s \in {"idle", "frame", "window"}, NEW fires, NEW marks,
         NEW p \in Peers \union {Asset},
         FiresWell(fires, marks, p), NothingInHand(t), Evaluate(t, s, fires, marks, p),
         UNCHANGED <<detecting, policy, eventSeq, packet, bumped, out, emitting, events, coverage>>,
         packets' \in 0 .. MaxPackets, windows' \in 0 .. MaxWindows
  PROVE  TypeInv'
<1>1. todo' \in [Threads -> Seq(Alerts)] /\ \A u \in Threads \ {t} : todo'[u] = todo[u]
  BY Evaluated DEF TypeInv
<1>2. at' \in [Threads -> {"idle", "observe", "frame", "window", "coverage", "clean"}]
  BY DEF Evaluate, TypeInv, PipeTypeOK
<1>3. marks \subseteq OnceRules
  BY DEF FiresWell
<1>4. marked' \subseteq OnceRules \X (Peers \union {Asset})
  BY <1>3 DEF Evaluate, TypeInv, PipeTypeOK
<1>5. silenced' \subseteq Alerts
  BY <1>3, RuleTypes DEF Evaluate, TypeInv, PipeTypeOK, Alerts
<1>6. PipeTypeOK'
  BY <1>1, <1>2, <1>4, <1>5 DEF TypeInv, PipeTypeOK
<1>7. ~bumped[t]
  BY DEF TypeInv, NothingInHand
<1>8. QED
  BY <1>1, <1>6, <1>7 DEF TypeInv

\* The first alert that has no ID, and the event it becomes.
LEMMA NumberedType ==
  ASSUME PipeTypeOK, NEW t \in Threads, todo[t] # <<>>
  PROVE  /\ Numbered(t) \in EventRows /\ CounterOf(Head(todo[t])[1]) \in Seqs
         /\ Head(todo[t]) \in Alerts /\ Head(todo[t]) = todo[t][1]
         /\ Numbered(t).rule = todo[t][1][1] /\ Numbered(t).peer = todo[t][1][2]
         /\ Numbered(t).id = eventSeq[CounterOf(todo[t][1][1])] /\ Numbered(t).by = t
         /\ <<Numbered(t).rule, Numbered(t).peer>> = todo[t][1]
<1>1. todo[t] \in Seq(Alerts)
  BY DEF PipeTypeOK
<1>2. Head(todo[t]) \in Alerts /\ Head(todo[t]) = todo[t][1]
  BY <1>1, TailFacts
<1>3. /\ Head(todo[t])[1] \in Rules /\ Head(todo[t])[2] \in Peers \union {Asset}
      /\ Head(todo[t]) = <<Head(todo[t])[1], Head(todo[t])[2]>>
  BY <1>2 DEF Alerts
<1>4. \A r : CounterOf(r) \in Seqs
  BY DEF CounterOf, Seqs
<1>5. eventSeq[CounterOf(Head(todo[t])[1])] \in Nat
  BY <1>4 DEF PipeTypeOK
<1>6. Numbered(t) \in EventRows
  BY <1>3, <1>5 DEF Numbered, EventRows
<1>7. QED
  BY <1>2, <1>3, <1>4, <1>6 DEF Numbered

\* The steps of both threads.
LEMMA EventType ==
  ASSUME TypeInv, NEW t \in Threads, EventStep(t)
  PROVE  TypeInv'
<1> USE DEF TypeInv, PipeTypeOK
<1>1. CASE Bump(t)
  <2>1. CounterOf(Head(todo[t])[1]) \in Seqs
    BY <1>1, NumberedType DEF Bump
  <2>2. eventSeq' \in [Seqs -> Nat] /\ bumped' \in [Threads -> BOOLEAN]
    BY <1>1, <2>1 DEF Bump
  <2>3. QED
    BY <1>1, <2>2 DEF Bump
<1>2. CASE Number(t)
  <2>1. todo[t] # <<>> /\ todo[t] \in Seq(Alerts) /\ out[t] \in Seq(EventRows)
    BY <1>2 DEF Number
  <2>2. Numbered(t) \in EventRows /\ Head(todo[t]) \in Alerts
    BY <2>1, NumberedType
  <2>3. Tail(todo[t]) \in Seq(Alerts)
    BY <2>1, TailFacts
  <2>4. Append(out[t], Numbered(t)) \in Seq(EventRows) /\ Append(out[t], Numbered(t)) # <<>>
    BY <2>1, <2>2, AppendFacts
  <2>5. todo' \in [Threads -> Seq(Alerts)] /\ \A u \in Threads \ {t} : todo'[u] = todo[u]
    BY <1>2, <2>3 DEF Number
  <2>6. /\ out' \in [Threads -> Seq(EventRows)] /\ \A u \in Threads \ {t} : out'[u] = out[u]
        /\ out'[t] = out[t] \/ out'[t] # <<>>
    BY <1>2, <2>4 DEF Number
  <2>7. silenced' \subseteq Alerts
    BY <1>2, <2>2 DEF Number
  <2>8. bumped' \in [Threads -> BOOLEAN] /\ ~bumped'[t] /\ \A u \in Threads \ {t} : bumped'[u] = bumped[u]
    BY <1>2 DEF Number
  <2>9. PipeTypeOK'
    BY <1>2, <2>5, <2>6, <2>7, <2>8 DEF Number
  <2>10. emitting' = emitting
    BY <1>2 DEF Number
  <2>11. QED
    BY <2>5, <2>6, <2>8, <2>9, <2>10
<1>3. CASE Drop(t)
  <2>1. out' \in [Threads -> Seq(EventRows)] /\ (\A u \in Threads \ {t} : out'[u] = out[u]) /\ ~emitting[t]
    BY <1>3, EmptySeq DEF Drop, Ready
  <2>2. \A i \in 1 .. Len(out[t]) : <<out[t][i].rule, out[t][i].peer>> \in Alerts
    <3>1. out[t] \in Seq(EventRows)
      OBVIOUS
    <3>2. \A i \in 1 .. Len(out[t]) : out[t][i] \in EventRows
      BY <3>1, ElementOfSeq
    <3>3. \A e \in EventRows : <<e.rule, e.peer>> \in Alerts
      BY DEF EventRows, Alerts
    <3>4. QED
      BY <3>2, <3>3
  <2>3. silenced' \subseteq Alerts
    BY <1>3, <2>2 DEF Drop
  <2>4. QED
    BY <1>3, <2>1, <2>3 DEF Drop
<1>4. CASE BeginEmit(t)
  BY <1>4 DEF BeginEmit, Ready
<1>5. CASE Emit(t)
  <2>1. out[t] # <<>> /\ out[t] \in Seq(EventRows)
    BY <1>5 DEF Emit
  <2>2. /\ Head(out[t]) \in EventRows /\ Tail(out[t]) \in Seq(EventRows)
        /\ Len(out[t]) \in Nat /\ Len(Tail(out[t])) = Len(out[t]) - 1
    BY <2>1, TailFacts
  <2>3. events' \in Seq(EventRows)
    BY <1>5, <2>2, AppendFacts DEF Emit
  <2>4. recorded' \in Nat /\ late' \in Nat
    BY <1>5 DEF Emit
  <2>5. /\ out' \in [Threads -> Seq(EventRows)] /\ out'[t] = Tail(out[t])
        /\ \A u \in Threads \ {t} : out'[u] = out[u]
    BY <1>5, <2>2 DEF Emit
  <2>6. /\ emitting' \in [Threads -> BOOLEAN] /\ emitting'[t] = (Len(out[t]) > 1)
        /\ \A u \in Threads \ {t} : emitting'[u] = emitting[u]
    BY <1>5, <2>2 DEF Emit
  <2>7. emitting'[t] => out'[t] # <<>>
    <3>1. Len(out[t]) > 1 => Tail(out[t]) # <<>>
      BY <2>1, LongerTail
    <3>2. QED
      BY <2>5, <2>6, <3>1
  <2>8. PipeTypeOK'
    BY <1>5, <2>3, <2>4, <2>5, <2>6 DEF Emit
  <2>9. UNCHANGED <<todo, bumped>>
    BY <1>5 DEF Emit
  <2>10. QED
    BY <2>5, <2>6, <2>7, <2>8, <2>9
<1>6. QED
  BY <1>1, <1>2, <1>3, <1>4, <1>5 DEF EventStep

LEMMA MainType ==
  ASSUME TypeInv, SkipCoverage \/ Snapshot \/ FileFails \/ File \/ Clean
  PROVE  TypeInv'
<1> USE DEF TypeInv, PipeTypeOK
<1>1. CASE SkipCoverage
  <2>1. at' \in [Threads -> {"idle", "observe", "frame", "window", "coverage", "clean"}]
    BY <1>1 DEF SkipCoverage
  <2>2. QED
    BY <1>1, <2>1 DEF SkipCoverage
<1>2. CASE Snapshot
  <2>1. at' \in [Threads -> {"idle", "observe", "frame", "window", "coverage", "clean"}]
    BY <1>2 DEF Snapshot
  <2>2. QED
    BY <1>2, <2>1 DEF Snapshot
<1>3. CASE FileFails
  <2>1. at' \in [Threads -> {"idle", "observe", "frame", "window", "coverage", "clean"}]
    BY <1>3 DEF FileFails
  <2>2. QED
    BY <1>3, <2>1 DEF FileFails
<1>4. CASE File
  <2>1. at' \in [Threads -> {"idle", "observe", "frame", "window", "coverage", "clean"}]
    BY <1>4 DEF File
  <2>2. QED
    BY <1>4, <2>1 DEF File
<1>5. CASE Clean
  <2>1. at' \in [Threads -> {"idle", "observe", "frame", "window", "coverage", "clean"}]
    BY <1>5 DEF Clean
  <2>2. QED
    BY <1>5, <2>1 DEF Clean
<1>6. QED
  BY <1>1, <1>2, <1>3, <1>4, <1>5

\* The evaluations are those of lists as FiresWell describes them.
LEMMA Evaluations ==
  ASSUME TypeInv, Observe \/ Frame \/ (\E high, silent \in BOOLEAN : Window(high, silent))
  PROVE  \E t \in Threads : \E s \in {"idle", "frame", "window"} :
           \E fires : \E marks : \E p \in Peers \union {Asset} :
             /\ FiresWell(fires, marks, p) /\ NothingInHand(t) /\ Evaluate(t, s, fires, marks, p)
             /\ IF t = "main" THEN p = Asset ELSE p \in Peers
             /\ at[t] \notin {"coverage", "clean"}
             /\ UNCHANGED <<detecting, policy, eventSeq, packet, bumped, out, emitting, events, coverage>>
             /\ packets' \in 0 .. MaxPackets /\ windows' \in 0 .. MaxWindows
<1>0. packet.peer \in Peers /\ packet.peer \in Peers \union {Asset} /\ Asset \in Peers \union {Asset}
  BY PipelineAssumption DEF TypeInv, PipeTypeOK
<1>00. /\ "capture" \in Threads /\ "main" \in Threads /\ "capture" # "main"
       /\ packets \in 0 .. MaxPackets /\ windows \in 0 .. MaxWindows
  BY DEF Threads, TypeInv, PipeTypeOK
<1>1. CASE Observe
  <2>1. FiresWell(ObserveFires(packet.peer), ObserveMarks(packet.peer), packet.peer)
    BY ObserveWell
  <2>2. QED
    BY <1>0, <1>00, <1>1, <2>1 DEF Observe
<1>2. CASE Frame
  <2>1. PICK fires, marks : FiresWell(fires, marks, packet.peer)
                            /\ Evaluate("capture", "idle", fires, marks, packet.peer)
    BY <1>2, ModbusWell, GooseWell, MmsWell DEF Frame
  <2>2. QED
    BY <1>0, <1>00, <1>2, <2>1 DEF Frame
<1>3. CASE \E high, silent \in BOOLEAN : Window(high, silent)
  <2>1. PICK high, silent \in BOOLEAN : Window(high, silent)
    BY <1>3
  <2>2. FiresWell(WindowFires(high, silent), WindowMarks(silent), Asset)
    BY WindowWell
  <2>3. /\ Evaluate("main", "window", WindowFires(high, silent), WindowMarks(silent), Asset)
        /\ NothingInHand("main") /\ at["main"] = "idle"
        /\ UNCHANGED <<detecting, policy, eventSeq, packet, bumped, out, emitting, events, coverage, packets>>
        /\ windows' \in 0 .. MaxWindows
    BY <1>00, <2>1, PipelineAssumption DEF Window, WindowMarks
  <2>4. QED
    BY <1>0, <1>00, <2>2, <2>3
<1>4. QED
  BY <1>1, <1>2, <1>3

LEMMA TypeNext == TypeInv /\ [PipeNext]_pipeVars => TypeInv'
<1> SUFFICES ASSUME TypeInv, [PipeNext]_pipeVars PROVE TypeInv'
  OBVIOUS
<1>1. CASE UNCHANGED pipeVars
  BY <1>1 DEF TypeInv, PipeTypeOK
<1>2. CASE ChangeMode
  BY <1>2 DEF TypeInv, PipeTypeOK, ChangeMode
<1>3. ASSUME NEW p \in Packets, Process(p) PROVE TypeInv'
  <2>1. at' \in [Threads -> {"idle", "observe", "frame", "window", "coverage", "clean"}]
    BY <1>3 DEF TypeInv, PipeTypeOK, Process
  <2>2. packets' \in 0 .. MaxPackets
    BY <1>3, PipelineAssumption DEF TypeInv, PipeTypeOK, Process
  <2>3. QED
    BY <1>3, <2>1, <2>2 DEF TypeInv, PipeTypeOK, Process
<1>4. CASE Observe \/ Frame \/ (\E high, silent \in BOOLEAN : Window(high, silent))
  BY <1>4, Evaluations, EvaluateType
<1>5. CASE SkipCoverage \/ Snapshot \/ FileFails \/ File \/ Clean
  BY <1>5, MainType
<1>6. ASSUME NEW t \in Threads, EventStep(t) PROVE TypeInv'
  BY <1>6, EventType
<1>7. QED
  BY <1>1, <1>2, <1>3, <1>4, <1>5, <1>6 DEF PipeNext, CaptureStep, MainStep

\* The pipeline's events, sets and counters are well typed in every reachable
\* state, however the two threads interleave.
THEOREM PipeTypeCorrect == PipeSpec => []PipeTypeOK
<1>1. TypeInv => PipeTypeOK
  BY DEF TypeInv
<1>2. QED
  BY <1>1, TypeInit, TypeNext, PTL DEF PipeSpec

-----------------------------------------------------------------------------
\* The coverage counter: the snapshot being written lacks only what was recorded
\* since it was taken.
Flushing == at["main"] \in {"coverage", "clean"}

CoverInv ==
  /\ TypeInv
  /\ Flushing => dirty /\ recorded = snapped + late
  /\ at["main"] = "clean" => filed = snapped
  /\ CoverageComplete

LEMMA CoverInit == PipeInit => CoverInv
<1> SUFFICES ASSUME PipeInit PROVE CoverInv
  OBVIOUS
<1>1. at["main"] = "idle"
  BY DEF PipeInit, Threads
<1>2. recorded = filed + late
  BY DEF PipeInit
<1>3. QED
  BY <1>1, <1>2, TypeInit DEF CoverInv, Flushing, CoverageComplete

LEMMA CoverNext == CoverInv /\ [PipeNext]_pipeVars => CoverInv'
<1> SUFFICES ASSUME CoverInv, [PipeNext]_pipeVars PROVE CoverInv'
  OBVIOUS
<1>0. TypeInv /\ TypeInv'
  BY TypeNext DEF CoverInv
<1>00. /\ {recorded, snapped, filed, late} \subseteq Nat /\ dirty \in BOOLEAN
       /\ at \in [Threads -> {"idle", "observe", "frame", "window", "coverage", "clean"}]
       /\ "main" \in Threads /\ "capture" \in Threads
  BY <1>0 DEF TypeInv, PipeTypeOK, Threads
<1> USE DEF CoverInv, Flushing, CoverageComplete
\* A step that leaves the counter and the main thread's flush alone.
<1>1. ASSUME UNCHANGED coverage,
             at'["main"] = at["main"] \/ (~Flushing /\ at'["main"] \notin {"coverage", "clean"})
      PROVE  CoverInv'
  BY <1>0, <1>1
<1>2. CASE UNCHANGED pipeVars
  BY <1>1, <1>2
<1>3. CASE ChangeMode
  BY <1>1, <1>3 DEF ChangeMode
<1>4. ASSUME NEW p \in Packets, Process(p) PROVE CoverInv'
  <2>1. at'["main"] = at["main"]
    BY <1>00, <1>4 DEF Process
  <2>2. QED
    BY <1>1, <1>4, <2>1 DEF Process
<1>5. CASE Observe \/ Frame \/ (\E high, silent \in BOOLEAN : Window(high, silent))
  <2>1. PICK t \in Threads, s \in {"idle", "frame", "window"} :
          /\ at' = [at EXCEPT ![t] = s] /\ at[t] \notin {"coverage", "clean"}
          /\ UNCHANGED coverage
    BY <1>0, <1>5, Evaluations DEF Evaluate
  <2>2. at'["main"] = at["main"] \/ (~Flushing /\ at'["main"] \notin {"coverage", "clean"})
    BY <1>00, <2>1
  <2>3. QED
    BY <1>1, <2>1, <2>2
<1>6. CASE SkipCoverage
  BY <1>00, <1>1, <1>6 DEF SkipCoverage
<1>7. CASE Snapshot
  <2>1. recorded' = snapped' + late' /\ dirty' /\ at'["main"] = "coverage"
    BY <1>00, <1>7 DEF Snapshot
  <2>2. QED
    BY <1>0, <2>1
<1>8. CASE FileFails
  <2>1. dirty' /\ at'["main"] = "idle"
    BY <1>00, <1>8 DEF FileFails
  <2>2. QED
    BY <1>0, <2>1
<1>9. CASE File
  <2>1. dirty' /\ recorded' = snapped' + late' /\ filed' = snapped'
    BY <1>00, <1>9 DEF File
  <2>2. QED
    BY <1>0, <2>1
<1>10. CASE Clean
  <2>1. at'["main"] = "idle" /\ recorded' = filed' + late'
    BY <1>00, <1>10 DEF Clean
  <2>2. QED
    BY <1>0, <2>1
<1>11. ASSUME NEW t \in Threads, EventStep(t) PROVE CoverInv'
  <2>1. CASE Emit(t)
    <3>1. dirty' /\ recorded' = recorded + 1 /\ at' = at /\ snapped' = snapped /\ filed' = filed
      BY <2>1 DEF Emit
    <3>2. Flushing => late' = late + 1
      BY <2>1 DEF Emit
    <3>3. Flushing => recorded' = snapped' + late'
      BY <1>00, <3>1, <3>2
    <3>4. QED
      BY <1>0, <3>1, <3>3
  <2>2. CASE Bump(t) \/ Number(t) \/ Drop(t) \/ BeginEmit(t)
    <3>1. UNCHANGED coverage /\ at' = at
      BY <2>2 DEF Bump, Number, Drop, BeginEmit
    <3>2. QED
      BY <1>1, <3>1
  <2>3. QED
    BY <1>11, <2>1, <2>2 DEF EventStep
<1>12. QED
  BY <1>2, <1>3, <1>4, <1>5, <1>6, <1>7, <1>8, <1>9, <1>10, <1>11 DEF PipeNext, CaptureStep, MainStep

\* Whatever is recorded while the counters are written, and however the flushes
\* fail, a clean counter lacks in its file only what the last flush overlooked.
THEOREM CoverageCorrect == PipeSpec => []CoverageComplete
<1>1. CoverInv => CoverageComplete
  BY DEF CoverInv
<1>2. QED
  BY <1>1, CoverInit, CoverNext, PTL DEF PipeSpec

-----------------------------------------------------------------------------
\* Event IDs.  Below: the events of thread t that counter c has numbered are
\* below n; Rising: each is above those before it.
Below(s, t, n, c) ==
  \A i \in 1 .. Len(s) : s[i].by = t /\ CounterOf(s[i].rule) = c => s[i].id < n

Rising(s, t) ==
  \A i, j \in 1 .. Len(s) :
    i < j /\ s[i].by = t /\ s[j].by = t /\ CounterOf(s[i].rule) = CounterOf(s[j].rule)
      => s[i].id < s[j].id

LEMMA IdOf == ASSUME NEW s \in Seq(EventRows), NEW i \in 1 .. Len(s)
              PROVE  s[i].id \in Nat /\ s[i].by \in Threads /\ s[i] \in EventRows
<1>1. s[i] \in EventRows
  BY ElementOfSeq
<1>2. QED
  BY <1>1 DEF EventRows

LEMMA BelowMore ==
  ASSUME NEW s \in Seq(EventRows), NEW t, NEW c, NEW n \in Nat, NEW m \in Nat, n <= m, Below(s, t, n, c)
  PROVE  Below(s, t, m, c)
BY IdOf DEF Below

LEMMA BelowEmpty == ASSUME NEW t, NEW c, NEW n PROVE Below(<<>>, t, n, c) /\ Rising(<<>>, t)
BY DEF Below, Rising

LEMMA BelowAppend ==
  ASSUME NEW s \in Seq(EventRows), NEW e \in EventRows, NEW t, NEW c, NEW n \in Nat, Below(s, t, n, c),
         e.by = t /\ CounterOf(e.rule) = c => e.id < n
  PROVE  Below(Append(s, e), t, n, c)
<1> DEFINE w == Append(s, e)
<1>1. /\ Len(s) \in Nat /\ Len(w) = Len(s) + 1
      /\ \A i \in 1 .. Len(s) : w[i] = s[i]
      /\ w[Len(s) + 1] = e
  BY AppendFacts
<1> HIDE DEF w
<1>2. \A i \in 1 .. Len(w) : i = Len(s) + 1 \/ i \in 1 .. Len(s)
  BY <1>1
<1>3. Below(w, t, n, c)
  BY <1>1, <1>2 DEF Below
<1>4. QED
  BY <1>3 DEF w

LEMMA BelowTail ==
  ASSUME NEW s \in Seq(EventRows), s # <<>>, NEW t, NEW c, NEW n, Below(s, t, n, c)
  PROVE  Below(Tail(s), t, n, c)
<1> DEFINE w == Tail(s)
<1>1. Len(s) \in Nat /\ Len(w) = Len(s) - 1 /\ \A i \in 1 .. Len(s) - 1 : w[i] = s[i + 1]
  BY TailFacts
<1> HIDE DEF w
<1>2. \A i \in 1 .. Len(w) : i + 1 \in 1 .. Len(s) /\ w[i] = s[i + 1]
  BY <1>1
<1>3. Below(w, t, n, c)
  BY <1>2 DEF Below
<1>4. QED
  BY <1>3 DEF w

LEMMA RisingAppend ==
  ASSUME NEW s \in Seq(EventRows), NEW e \in EventRows, NEW t, Rising(s, t),
         e.by = t => Below(s, t, e.id, CounterOf(e.rule))
  PROVE  Rising(Append(s, e), t)
<1> DEFINE w == Append(s, e)
<1>1. /\ Len(s) \in Nat /\ Len(w) = Len(s) + 1
      /\ \A i \in 1 .. Len(s) : w[i] = s[i]
      /\ w[Len(s) + 1] = e
  BY AppendFacts
<1> HIDE DEF w
<1>2. \A i, j \in 1 .. Len(w) : i < j => i \in 1 .. Len(s) /\ (j = Len(s) + 1 \/ j \in 1 .. Len(s))
  BY <1>1
<1>3. Rising(w, t)
  BY <1>1, <1>2 DEF Below, Rising
<1>4. QED
  BY <1>3 DEF w

LEMMA RisingTail ==
  ASSUME NEW s \in Seq(EventRows), s # <<>>, NEW t, Rising(s, t)
  PROVE  Rising(Tail(s), t)
<1> DEFINE w == Tail(s)
<1>1. Len(s) \in Nat /\ Len(w) = Len(s) - 1 /\ \A i \in 1 .. Len(s) - 1 : w[i] = s[i + 1]
  BY TailFacts
<1> HIDE DEF w
<1>2. \A i \in 1 .. Len(w) : i + 1 \in 1 .. Len(s) /\ w[i] = s[i + 1]
  BY <1>1
<1>3. \A i, j \in 1 .. Len(w) : i < j => i + 1 < j + 1
  BY <1>1
<1>4. Rising(w, t)
  BY <1>2, <1>3 DEF Rising
<1>5. QED
  BY <1>4 DEF w

\* What a thread has in hand is its own and above what it has in the log; all of
\* it is at or below the counter, and below it once the thread has incremented it.
FirstCounter(t) == CounterOf(todo[t][1][1])

IdInv ==
  /\ TypeInv
  /\ \A t \in Threads : \A i \in 1 .. Len(out[t]) : out[t][i].by = t
  /\ \A t \in Threads : Rising(out[t], t) /\ Rising(events, t)
  /\ \A t \in Threads, c \in Seqs :
       Below(out[t], t, eventSeq[c] + 1, c) /\ Below(events, t, eventSeq[c] + 1, c)
  /\ \A t \in Threads : bumped[t] =>
       /\ Below(out[t], t, eventSeq[FirstCounter(t)], FirstCounter(t))
       /\ Below(events, t, eventSeq[FirstCounter(t)], FirstCounter(t))
  /\ \A t \in Threads : \A i \in 1 .. Len(out[t]) :
       Below(events, t, out[t][i].id, CounterOf(out[t][i].rule))

LEMMA IdInit == PipeInit => IdInv
<1> SUFFICES ASSUME PipeInit PROVE IdInv
  OBVIOUS
<1>1. (\A t \in Threads : out[t] = <<>> /\ ~bumped[t]) /\ events = <<>>
  BY DEF PipeInit
<1>2. QED
  BY <1>1, TypeInit, BelowEmpty DEF IdInv

\* A step that numbers and emits nothing, and leaves what has been incremented for.
LEMMA IdSame ==
  ASSUME IdInv, TypeInv', UNCHANGED <<eventSeq, bumped, out, events>>,
         \A t \in Threads : bumped[t] => todo'[t] = todo[t]
  PROVE  IdInv'
<1>1. \A t \in Threads : bumped'[t] => FirstCounter(t)' = FirstCounter(t) /\ bumped[t]
  BY DEF FirstCounter
<1>2. QED
  BY <1>1 DEF IdInv

LEMMA IdBump ==
  ASSUME IdInv, TypeInv', NEW t \in Threads, Bump(t)
  PROVE  IdInv'
<1> DEFINE c == FirstCounter(t)
<1>0. TypeInv /\ eventSeq \in [Seqs -> Nat] /\ events \in Seq(EventRows) /\ out \in [Threads -> Seq(EventRows)]
      /\ bumped \in [Threads -> BOOLEAN]
  BY DEF IdInv, TypeInv, PipeTypeOK
<1>1. c \in Seqs /\ c = CounterOf(Head(todo[t])[1])
  BY <1>0, NumberedType DEF Bump, FirstCounter, TypeInv
<1> HIDE DEF c
<1>2. eventSeq' = [eventSeq EXCEPT ![c] = @ + 1] /\ bumped' = [bumped EXCEPT ![t] = TRUE]
      /\ UNCHANGED <<todo, out, events>>
  BY <1>1 DEF Bump
<1>3. \A u \in Seqs : eventSeq[u] \in Nat /\ eventSeq'[u] \in Nat /\ eventSeq[u] <= eventSeq'[u]
  BY <1>0, <1>1, <1>2
<1>4. eventSeq'[c] = eventSeq[c] + 1
  BY <1>0, <1>1, <1>2
<1>5. \A u \in Threads, d \in Seqs :
        Below(out[u], u, eventSeq'[d] + 1, d) /\ Below(events, u, eventSeq'[d] + 1, d)
  <2>1. SUFFICES ASSUME NEW u \in Threads, NEW d \in Seqs
                 PROVE  Below(out[u], u, eventSeq'[d] + 1, d) /\ Below(events, u, eventSeq'[d] + 1, d)
    OBVIOUS
  <2>2. eventSeq[d] + 1 \in Nat /\ eventSeq'[d] + 1 \in Nat /\ eventSeq[d] + 1 <= eventSeq'[d] + 1
    BY <1>3
  <2>3. Below(out[u], u, eventSeq[d] + 1, d) /\ Below(events, u, eventSeq[d] + 1, d)
    BY DEF IdInv
  <2>4. out[u] \in Seq(EventRows)
    BY <1>0
  <2>5. QED
    BY <1>0, <2>2, <2>3, <2>4, BelowMore
<1>6. \A u \in Threads : bumped'[u] =>
        /\ Below(out[u], u, eventSeq'[FirstCounter(u)], FirstCounter(u))
        /\ Below(events, u, eventSeq'[FirstCounter(u)], FirstCounter(u))
  <2>1. SUFFICES ASSUME NEW u \in Threads, bumped'[u]
                 PROVE  /\ Below(out[u], u, eventSeq'[FirstCounter(u)], FirstCounter(u))
                        /\ Below(events, u, eventSeq'[FirstCounter(u)], FirstCounter(u))
    OBVIOUS
  <2>2. CASE u = t
    <3>1. Below(out[t], t, eventSeq[c] + 1, c) /\ Below(events, t, eventSeq[c] + 1, c)
      BY <1>1 DEF IdInv
    <3>2. QED
      BY <1>4, <2>2, <3>1 DEF c
  <2>3. CASE u # t
    <3>1. bumped[u] /\ todo[u] # <<>>
      BY <1>0, <1>2, <2>1, <2>3 DEF TypeInv
    <3>2. Below(out[u], u, eventSeq[FirstCounter(u)], FirstCounter(u))
          /\ Below(events, u, eventSeq[FirstCounter(u)], FirstCounter(u))
      BY <3>1 DEF IdInv
    <3>3. FirstCounter(u) \in Seqs
      BY <1>0, <3>1, NumberedType DEF FirstCounter, TypeInv
    <3>4. out[u] \in Seq(EventRows)
      BY <1>0
    <3>5. QED
      BY <1>0, <1>3, <3>2, <3>3, <3>4, BelowMore
  <2>4. QED
    BY <2>2, <2>3
<1>7. \A u \in Threads : FirstCounter(u)' = FirstCounter(u)
  BY <1>2 DEF FirstCounter
<1>8. QED
  BY <1>2, <1>5, <1>6, <1>7 DEF IdInv

LEMMA IdNumber ==
  ASSUME IdInv, TypeInv', NEW t \in Threads, Number(t)
  PROVE  IdInv'
<1> DEFINE e == Numbered(t)
           c == FirstCounter(t)
<1>0. /\ TypeInv /\ eventSeq \in [Seqs -> Nat] /\ events \in Seq(EventRows)
      /\ out \in [Threads -> Seq(EventRows)] /\ out[t] \in Seq(EventRows)
      /\ bumped \in [Threads -> BOOLEAN] /\ todo \in [Threads -> Seq(Alerts)]
  BY DEF IdInv, TypeInv, PipeTypeOK
<1>1. bumped[t] /\ todo[t] # <<>>
  BY <1>0 DEF Number, TypeInv
<1>2. /\ e \in EventRows /\ e.by = t /\ e.id = eventSeq[c] /\ e.id \in Nat
      /\ CounterOf(e.rule) = c /\ c \in Seqs
  <2>1. e \in EventRows /\ e.by = t /\ e.id = eventSeq[c] /\ CounterOf(e.rule) = c /\ c \in Seqs
    BY <1>0, <1>1, NumberedType DEF FirstCounter, TypeInv
  <2>2. QED
    BY <2>1 DEF EventRows
<1>3. Below(out[t], t, e.id, c) /\ Below(events, t, e.id, c)
  BY <1>1, <1>2 DEF IdInv
<1> HIDE DEF e, c
<1>4. /\ out' = out \/ out' = [out EXCEPT ![t] = Append(out[t], e)]
      /\ bumped' = [bumped EXCEPT ![t] = FALSE]
      /\ todo' = [todo EXCEPT ![t] = Tail(todo[t])]
      /\ UNCHANGED <<eventSeq, events>>
  BY <1>0 DEF Number, e
<1> DEFINE w == Append(out[t], e)
<1>5. /\ Rising(w, t)
      /\ \A d \in Seqs : Below(w, t, eventSeq[d] + 1, d)
      /\ \A i \in 1 .. Len(w) : w[i].by = t /\ Below(events, t, w[i].id, CounterOf(w[i].rule))
  <2>1. Rising(w, t)
    <3>1. Rising(out[t], t)
      BY DEF IdInv
    <3>2. QED
      BY <1>0, <1>2, <1>3, <3>1, RisingAppend
  <2>2. ASSUME NEW d \in Seqs PROVE Below(w, t, eventSeq[d] + 1, d)
    <3>1. eventSeq[d] + 1 \in Nat /\ (c = d => e.id < eventSeq[d] + 1)
      BY <1>0, <1>2, <2>2
    <3>2. Below(out[t], t, eventSeq[d] + 1, d)
      BY <2>2 DEF IdInv
    <3>3. QED
      BY <1>0, <1>2, <3>1, <3>2, BelowAppend
  <2>3. ASSUME NEW i \in 1 .. Len(w) PROVE w[i].by = t /\ Below(events, t, w[i].id, CounterOf(w[i].rule))
    <3>1. /\ Len(out[t]) \in Nat /\ Len(w) = Len(out[t]) + 1
          /\ \A j \in 1 .. Len(out[t]) : w[j] = out[t][j]
          /\ w[Len(out[t]) + 1] = e
      BY <1>0, <1>2, AppendFacts
    <3> HIDE DEF w
    <3>2. i = Len(out[t]) + 1 \/ i \in 1 .. Len(out[t])
      BY <2>3, <3>1
    <3>3. CASE i = Len(out[t]) + 1
      BY <1>2, <1>3, <3>1, <3>3
    <3>4. CASE i \in 1 .. Len(out[t])
      BY <3>1, <3>4 DEF IdInv
    <3>5. QED
      BY <3>2, <3>3, <3>4
  <2>4. QED
    BY <2>1, <2>2, <2>3
<1> HIDE DEF w
<1>6. /\ \A u \in Threads \ {t} : out'[u] = out[u] /\ bumped'[u] = bumped[u] /\ todo'[u] = todo[u]
      /\ out'[t] = out[t] \/ out'[t] = w
      /\ ~bumped'[t]
  BY <1>0, <1>4 DEF w
<1>7. \A u \in Threads \ {t} : FirstCounter(u)' = FirstCounter(u)
  BY <1>6 DEF FirstCounter
<1>8. \A u \in Threads : out'[u] = out[u] \/ (u = t /\ out'[u] = w)
  BY <1>6
<1>9. /\ \A u \in Threads : \A i \in 1 .. Len(out'[u]) : out'[u][i].by = u
      /\ \A u \in Threads : Rising(out'[u], u) /\ Rising(events, u)
      /\ \A u \in Threads, d \in Seqs :
           Below(out'[u], u, eventSeq[d] + 1, d) /\ Below(events, u, eventSeq[d] + 1, d)
      /\ \A u \in Threads : \A i \in 1 .. Len(out'[u]) :
           Below(events, u, out'[u][i].id, CounterOf(out'[u][i].rule))
  BY <1>5, <1>8 DEF IdInv
<1>10. \A u \in Threads : bumped'[u] =>
        /\ Below(out'[u], u, eventSeq[FirstCounter(u)'], FirstCounter(u)')
        /\ Below(events, u, eventSeq[FirstCounter(u)'], FirstCounter(u)')
  BY <1>6, <1>7 DEF IdInv
<1>11. QED
  BY <1>4, <1>9, <1>10 DEF IdInv

LEMMA IdDrop ==
  ASSUME IdInv, TypeInv', NEW t \in Threads, Drop(t)
  PROVE  IdInv'
<1>0. out \in [Threads -> Seq(EventRows)]
  BY DEF IdInv, TypeInv, PipeTypeOK
<1>1. /\ out'[t] = <<>> /\ \A u \in Threads \ {t} : out'[u] = out[u]
      /\ UNCHANGED <<eventSeq, events, bumped, todo>>
  BY <1>0 DEF Drop
<1>2. \A u \in Threads : FirstCounter(u)' = FirstCounter(u)
  BY <1>1 DEF FirstCounter
<1>3. \A u \in Threads : out'[u] = out[u] \/ (out'[u] = <<>> /\ 1 .. Len(out'[u]) = {})
  BY <1>1
<1>4. /\ \A u \in Threads : \A i \in 1 .. Len(out'[u]) : out'[u][i].by = u
      /\ \A u \in Threads : \A i \in 1 .. Len(out'[u]) :
           Below(events, u, out'[u][i].id, CounterOf(out'[u][i].rule))
  BY <1>3 DEF IdInv
<1>5. \A u \in Threads : Rising(out'[u], u) /\ Rising(events, u)
  BY <1>3, BelowEmpty DEF IdInv
<1>6. \A u \in Threads, c \in Seqs :
        Below(out'[u], u, eventSeq[c] + 1, c) /\ Below(events, u, eventSeq[c] + 1, c)
  BY <1>3, BelowEmpty DEF IdInv
<1>7. \A u \in Threads : bumped[u] =>
        /\ Below(out'[u], u, eventSeq[FirstCounter(u)], FirstCounter(u))
        /\ Below(events, u, eventSeq[FirstCounter(u)], FirstCounter(u))
  BY <1>3, BelowEmpty DEF IdInv
<1>8. QED
  BY <1>1, <1>2, <1>4, <1>5, <1>6, <1>7 DEF IdInv

LEMMA IdEmit ==
  ASSUME IdInv, TypeInv', NEW t \in Threads, Emit(t)
  PROVE  IdInv'
<1> DEFINE h == Head(out[t])
           w == Tail(out[t])
           log == Append(events, h)
<1>0. /\ TypeInv /\ eventSeq \in [Seqs -> Nat] /\ events \in Seq(EventRows)
      /\ out \in [Threads -> Seq(EventRows)] /\ out[t] \in Seq(EventRows) /\ out[t] # <<>>
      /\ todo \in [Threads -> Seq(Alerts)]
  BY DEF IdInv, TypeInv, PipeTypeOK, Emit
<1>1. /\ Len(out[t]) \in Nat /\ 1 \in 1 .. Len(out[t]) /\ h = out[t][1] /\ h \in EventRows
      /\ w \in Seq(EventRows) /\ Len(w) = Len(out[t]) - 1
      /\ \A i \in 1 .. Len(out[t]) - 1 : w[i] = out[t][i + 1]
  BY <1>0, TailFacts
<1>2. h.by = t /\ Below(events, t, h.id, CounterOf(h.rule)) /\ h.id \in Nat
  BY <1>0, <1>1, IdOf DEF IdInv
<1>3. \A c \in Seqs : CounterOf(h.rule) = c => h.id < eventSeq[c] + 1
  <2>1. SUFFICES ASSUME NEW c \in Seqs, CounterOf(h.rule) = c PROVE h.id < eventSeq[c] + 1
    OBVIOUS
  <2>2. Below(out[t], t, eventSeq[c] + 1, c)
    BY DEF IdInv
  <2>3. QED
    BY <1>1, <1>2, <2>1, <2>2 DEF Below
<1>4. bumped[t] /\ CounterOf(h.rule) = FirstCounter(t) => h.id < eventSeq[FirstCounter(t)]
  <2>1. SUFFICES ASSUME bumped[t], CounterOf(h.rule) = FirstCounter(t)
                 PROVE  h.id < eventSeq[FirstCounter(t)]
    OBVIOUS
  <2>2. Below(out[t], t, eventSeq[FirstCounter(t)], FirstCounter(t))
    BY <2>1 DEF IdInv
  <2>3. QED
    BY <1>1, <1>2, <2>1, <2>2 DEF Below
<1>5. \A i \in 1 .. Len(w) :
        /\ i + 1 \in 1 .. Len(out[t]) /\ w[i] = out[t][i + 1] /\ w[i].by = t
        /\ w[i].id \in Nat /\ w[i] \in EventRows
        /\ Below(events, t, w[i].id, CounterOf(w[i].rule))
        /\ CounterOf(h.rule) = CounterOf(w[i].rule) => h.id < w[i].id
  <2>1. SUFFICES ASSUME NEW i \in 1 .. Len(w)
                 PROVE  /\ i + 1 \in 1 .. Len(out[t]) /\ w[i] = out[t][i + 1] /\ w[i].by = t
                        /\ w[i].id \in Nat /\ w[i] \in EventRows
                        /\ Below(events, t, w[i].id, CounterOf(w[i].rule))
                        /\ CounterOf(h.rule) = CounterOf(w[i].rule) => h.id < w[i].id
    OBVIOUS
  <2>2. i + 1 \in 1 .. Len(out[t]) /\ w[i] = out[t][i + 1] /\ 1 < i + 1
    BY <1>1
  <2>3. w[i].by = t /\ Below(events, t, w[i].id, CounterOf(w[i].rule))
    BY <2>2 DEF IdInv
  <2>4. Rising(out[t], t)
    BY DEF IdInv
  <2>5. CounterOf(h.rule) = CounterOf(w[i].rule) => h.id < w[i].id
    BY <1>1, <1>2, <2>2, <2>3, <2>4 DEF Rising
  <2>6. w[i].id \in Nat /\ w[i] \in EventRows
    BY <1>1, IdOf
  <2>7. QED
    BY <2>2, <2>3, <2>5, <2>6
<1> HIDE DEF h, w
<1>6. /\ events' = log /\ out' = [out EXCEPT ![t] = w]
      /\ UNCHANGED <<eventSeq, bumped, todo>>
  BY DEF Emit, h, w
<1>7. \A u \in Threads : FirstCounter(u)' = FirstCounter(u)
  BY <1>6 DEF FirstCounter
<1>8. \A u \in Threads : Rising(log, u)
  <2>1. SUFFICES ASSUME NEW u \in Threads PROVE Rising(log, u)
    OBVIOUS
  <2>2. Rising(events, u) /\ (h.by = u => Below(events, u, h.id, CounterOf(h.rule)))
    BY <1>2 DEF IdInv
  <2>3. QED
    BY <1>0, <1>1, <2>2, RisingAppend
<1>9. \A u \in Threads, c \in Seqs : Below(log, u, eventSeq[c] + 1, c)
  <2>1. SUFFICES ASSUME NEW u \in Threads, NEW c \in Seqs PROVE Below(log, u, eventSeq[c] + 1, c)
    OBVIOUS
  <2>2. Below(events, u, eventSeq[c] + 1, c) /\ eventSeq[c] + 1 \in Nat
    BY <1>0 DEF IdInv
  <2>3. QED
    BY <1>0, <1>1, <1>3, <2>2, BelowAppend
<1>10. \A u \in Threads : bumped[u] => Below(log, u, eventSeq[FirstCounter(u)], FirstCounter(u))
  <2>1. SUFFICES ASSUME NEW u \in Threads, bumped[u]
                 PROVE  Below(log, u, eventSeq[FirstCounter(u)], FirstCounter(u))
    OBVIOUS
  <2>2. todo[u] # <<>>
    BY <1>0, <2>1 DEF TypeInv
  <2>3. FirstCounter(u) \in Seqs
    BY <1>0, <2>2, NumberedType DEF FirstCounter, TypeInv
  <2>4. Below(events, u, eventSeq[FirstCounter(u)], FirstCounter(u)) /\ eventSeq[FirstCounter(u)] \in Nat
    BY <1>0, <2>1, <2>3 DEF IdInv
  <2>5. h.by = u /\ CounterOf(h.rule) = FirstCounter(u) => h.id < eventSeq[FirstCounter(u)]
    BY <1>2, <1>4, <2>1
  <2>6. QED
    BY <1>0, <1>1, <2>4, <2>5, BelowAppend
<1>11. \A i \in 1 .. Len(w) : Below(log, t, w[i].id, CounterOf(w[i].rule))
  BY <1>0, <1>1, <1>5, BelowAppend DEF w
<1>12. \A u \in Threads \ {t} : \A i \in 1 .. Len(out[u]) :
         Below(log, u, out[u][i].id, CounterOf(out[u][i].rule))
  <2>1. SUFFICES ASSUME NEW u \in Threads \ {t}, NEW i \in 1 .. Len(out[u])
                 PROVE  Below(log, u, out[u][i].id, CounterOf(out[u][i].rule))
    OBVIOUS
  <2>2. out[u] \in Seq(EventRows)
    BY <1>0
  <2>3. out[u][i].id \in Nat /\ Below(events, u, out[u][i].id, CounterOf(out[u][i].rule)) /\ h.by # u
    BY <1>2, <2>2, IdOf DEF IdInv
  <2>4. QED
    BY <1>0, <1>1, <2>3, BelowAppend
<1> HIDE DEF log
<1>13. Rising(w, t) /\ \A c \in Seqs : Below(w, t, eventSeq[c] + 1, c)
  BY <1>0, RisingTail, BelowTail DEF IdInv, w
<1>14. bumped[t] => Below(w, t, eventSeq[FirstCounter(t)], FirstCounter(t))
  BY <1>0, BelowTail DEF IdInv, w
<1>15. out'[t] = w /\ \A u \in Threads \ {t} : out'[u] = out[u]
  BY <1>0, <1>6
<1>16. /\ \A u \in Threads : \A i \in 1 .. Len(out'[u]) : out'[u][i].by = u
       /\ \A u \in Threads : Rising(out'[u], u)
       /\ \A u \in Threads, c \in Seqs : Below(out'[u], u, eventSeq[c] + 1, c)
  BY <1>5, <1>13, <1>15 DEF IdInv
<1>17. \A u \in Threads : bumped[u] => Below(out'[u], u, eventSeq[FirstCounter(u)], FirstCounter(u))
  BY <1>14, <1>15 DEF IdInv
<1>18. \A u \in Threads : \A i \in 1 .. Len(out'[u]) :
         Below(log, u, out'[u][i].id, CounterOf(out'[u][i].rule))
  BY <1>11, <1>12, <1>15
<1>19. QED
  BY <1>6, <1>7, <1>8, <1>9, <1>10, <1>16, <1>17, <1>18 DEF IdInv

LEMMA IdNext == IdInv /\ [PipeNext]_pipeVars => IdInv'
<1> SUFFICES ASSUME IdInv, [PipeNext]_pipeVars PROVE IdInv'
  OBVIOUS
<1>0. TypeInv /\ TypeInv'
  BY TypeNext DEF IdInv
<1>1. CASE UNCHANGED pipeVars
  BY <1>0, <1>1, IdSame
<1>2. CASE ChangeMode
  BY <1>0, <1>2, IdSame DEF ChangeMode
<1>3. ASSUME NEW p \in Packets, Process(p) PROVE IdInv'
  BY <1>0, <1>3, IdSame DEF Process
<1>4. CASE Observe \/ Frame \/ (\E high, silent \in BOOLEAN : Window(high, silent))
  <2>1. PICK t \in Threads : \E s, fires, marks : \E p \in Peers \union {Asset} :
          /\ FiresWell(fires, marks, p) /\ NothingInHand(t) /\ Evaluate(t, s, fires, marks, p)
          /\ UNCHANGED <<eventSeq, bumped, out, events>>
    BY <1>0, <1>4, Evaluations
  <2>2. ~bumped[t] /\ \A u \in Threads \ {t} : todo'[u] = todo[u]
    BY <1>0, <2>1, Evaluated DEF TypeInv, NothingInHand
  <2>3. QED
    BY <1>0, <2>1, <2>2, IdSame
<1>5. CASE SkipCoverage \/ Snapshot \/ FileFails \/ File \/ Clean
  BY <1>0, <1>5, IdSame DEF SkipCoverage, Snapshot, FileFails, File, Clean
<1>6. ASSUME NEW t \in Threads, EventStep(t) PROVE IdInv'
  <2>1. CASE BeginEmit(t)
    BY <1>0, <2>1, IdSame DEF BeginEmit
  <2>2. QED
    BY <1>0, <1>6, <2>1, IdBump, IdNumber, IdDrop, IdEmit DEF EventStep
<1>7. QED
  BY <1>1, <1>2, <1>3, <1>4, <1>5, <1>6 DEF PipeNext, CaptureStep, MainStep

\* However the two threads interleave between the increment and the read of a
\* counter, the events one of them logs from one detector have rising IDs.
THEOREM IdsCorrect == PipeSpec => []IdsGoUp
<1>1. IdInv => IdsGoUp
  <2>1. SUFFICES ASSUME IdInv, NEW i \in 1 .. Len(events), NEW j \in 1 .. Len(events),
                        i < j, events[i].by = events[j].by,
                        CounterOf(events[i].rule) = CounterOf(events[j].rule)
                 PROVE  events[i].id < events[j].id
    BY DEF IdsGoUp
  <2>2. events[i].by \in Threads
    BY <2>1, IdOf DEF IdInv, TypeInv, PipeTypeOK
  <2>3. Rising(events, events[i].by)
    BY <2>1, <2>2 DEF IdInv
  <2>4. QED
    BY <2>1, <2>3 DEF Rising
<1>2. QED
  BY <1>1, IdInit, IdNext, PTL DEF PipeSpec

-----------------------------------------------------------------------------
\* Alerts.  Waiting: the alert is in a list that has no IDs; Raised: it is in a
\* list of events; the lists hold the alerts of the once-only rules once.
AlertOf(e) == <<e.rule, e.peer>>

Waiting(s, a) == \E i \in 1 .. Len(s) : s[i] = a

Raised(s, a) == \E i \in 1 .. Len(s) : AlertOf(s[i]) = a

OnceAlerts == OnceRules \X (Peers \union {Asset})

WaitOnce(s) == \A i, j \in 1 .. Len(s) : s[i] = s[j] /\ s[i] \in OnceAlerts => i = j

RaiseOnce(s) ==
  \A i, j \in 1 .. Len(s) : AlertOf(s[i]) = AlertOf(s[j]) /\ AlertOf(s[i]) \in OnceAlerts => i = j

LEMMA NoneWaiting == WaitOnce(<<>>) /\ RaiseOnce(<<>>) /\ \A a : ~Waiting(<<>>, a) /\ ~Raised(<<>>, a)
BY DEF WaitOnce, RaiseOnce, Waiting, Raised

LEMMA WaitingTail ==
  ASSUME NEW s \in Seq(Alerts), s # <<>>, WaitOnce(s)
  PROVE  /\ WaitOnce(Tail(s))
         /\ \A a : Waiting(s, a) <=> a = Head(s) \/ Waiting(Tail(s), a)
         /\ Head(s) \in OnceAlerts => ~Waiting(Tail(s), Head(s))
<1> DEFINE w == Tail(s)
           h == Head(s)
<1>1. /\ Len(s) \in Nat /\ Len(s) >= 1 /\ h = s[1]
      /\ Len(w) = Len(s) - 1 /\ \A i \in 1 .. Len(s) - 1 : w[i] = s[i + 1]
  BY TailFacts
<1> HIDE DEF w, h
<1>2. \A i \in 1 .. Len(w) : i + 1 \in 1 .. Len(s) /\ w[i] = s[i + 1] /\ i + 1 # 1
  BY <1>1
<1>3. \A i \in 1 .. Len(s) : i = 1 \/ (i - 1 \in 1 .. Len(w) /\ s[i] = w[i - 1])
  BY <1>1
<1>4. 1 \in 1 .. Len(s)
  BY <1>1
<1>5. WaitOnce(w)
  BY <1>2 DEF WaitOnce
<1>6. \A a : Waiting(s, a) <=> a = h \/ Waiting(w, a)
  BY <1>1, <1>2, <1>3, <1>4 DEF Waiting
<1>7. h \in OnceAlerts => ~Waiting(w, h)
  BY <1>1, <1>2, <1>4 DEF WaitOnce, Waiting
<1>8. QED
  BY <1>5, <1>6, <1>7 DEF w, h

LEMMA RaisedTail ==
  ASSUME NEW s \in Seq(EventRows), s # <<>>, RaiseOnce(s)
  PROVE  /\ RaiseOnce(Tail(s))
         /\ \A a : Raised(s, a) <=> a = AlertOf(Head(s)) \/ Raised(Tail(s), a)
         /\ AlertOf(Head(s)) \in OnceAlerts => ~Raised(Tail(s), AlertOf(Head(s)))
<1> DEFINE w == Tail(s)
           h == Head(s)
<1>1. /\ Len(s) \in Nat /\ Len(s) >= 1 /\ h = s[1]
      /\ Len(w) = Len(s) - 1 /\ \A i \in 1 .. Len(s) - 1 : w[i] = s[i + 1]
  BY TailFacts
<1> HIDE DEF w, h
<1>2. \A i \in 1 .. Len(w) : i + 1 \in 1 .. Len(s) /\ w[i] = s[i + 1] /\ i + 1 # 1
  BY <1>1
<1>3. \A i \in 1 .. Len(s) : i = 1 \/ (i - 1 \in 1 .. Len(w) /\ s[i] = w[i - 1])
  BY <1>1
<1>4. 1 \in 1 .. Len(s)
  BY <1>1
<1>5. RaiseOnce(w)
  BY <1>2 DEF RaiseOnce
<1>6. \A a : Raised(s, a) <=> a = AlertOf(h) \/ Raised(w, a)
  BY <1>1, <1>2, <1>3, <1>4 DEF Raised
<1>7. AlertOf(h) \in OnceAlerts => ~Raised(w, AlertOf(h))
  BY <1>1, <1>2, <1>4 DEF RaiseOnce, Raised
<1>8. QED
  BY <1>5, <1>6, <1>7 DEF w, h

LEMMA RaisedAppend ==
  ASSUME NEW s \in Seq(EventRows), NEW e \in EventRows, RaiseOnce(s),
         AlertOf(e) \in OnceAlerts => ~Raised(s, AlertOf(e))
  PROVE  /\ RaiseOnce(Append(s, e))
         /\ \A a : Raised(Append(s, e), a) <=> a = AlertOf(e) \/ Raised(s, a)
<1> DEFINE w == Append(s, e)
<1>1. /\ Len(s) \in Nat /\ Len(w) = Len(s) + 1
      /\ \A i \in 1 .. Len(s) : w[i] = s[i]
      /\ w[Len(s) + 1] = e
  BY AppendFacts
<1> HIDE DEF w
<1>2. \A i \in 1 .. Len(w) : i = Len(s) + 1 \/ i \in 1 .. Len(s)
  BY <1>1
<1>3. \A i \in 1 .. Len(s) : i \in 1 .. Len(w) /\ w[i] = s[i]
  BY <1>1
<1>4. Len(s) + 1 \in 1 .. Len(w) /\ w[Len(s) + 1] = e
  BY <1>1
<1>5. RaiseOnce(w)
  BY <1>2, <1>3, <1>4 DEF RaiseOnce, Raised
<1>6. \A a : Raised(w, a) <=> a = AlertOf(e) \/ Raised(s, a)
  BY <1>2, <1>3, <1>4 DEF Raised
<1>7. QED
  BY <1>5, <1>6 DEF w

\* The capture thread raises alerts on peers, the main thread on the asset.
Own(t, peer) == IF t = "main" THEN peer = Asset ELSE peer \in Peers

LEMMA OwnOnce == ASSUME NEW t \in Threads, NEW u \in Threads, NEW p, Own(t, p), Own(u, p) PROVE t = u
BY PipelineAssumption DEF Own, Threads

\* An alert of a once-only rule is waiting, in hand or in the log, in one place, of
\* one thread, and marked; one that is marked is in a place or was silenced.
Placed(a) ==
  /\ \A t \in Threads : Waiting(todo[t], a) =>
       Own(t, a[2]) /\ a \in marked /\ ~Raised(out[t], a) /\ ~Raised(events, a)
  /\ \A t \in Threads : Raised(out[t], a) =>
       Own(t, a[2]) /\ a \in marked /\ ~Raised(events, a)
  /\ Raised(events, a) => a \in marked
  /\ a \in marked => \/ Raised(events, a) \/ a \in silenced
                     \/ \E t \in Threads : Waiting(todo[t], a) \/ Raised(out[t], a)

AlertInv ==
  /\ TypeInv
  /\ RaiseOnce(events)
  /\ \A t \in Threads : WaitOnce(todo[t]) /\ RaiseOnce(out[t])
  /\ \A a \in OnceAlerts : Placed(a)

LEMMA AlertInit == PipeInit => AlertInv
<1> SUFFICES ASSUME PipeInit PROVE AlertInv
  OBVIOUS
<1>1. (\A t \in Threads : out[t] = <<>> /\ todo[t] = <<>>) /\ events = <<>> /\ marked = {}
  BY DEF PipeInit
<1>2. ASSUME NEW a \in OnceAlerts PROVE Placed(a)
  BY <1>1, NoneWaiting DEF Placed
<1>3. QED
  BY <1>1, <1>2, TypeInit, NoneWaiting DEF AlertInv

LEMMA AlertSame ==
  ASSUME AlertInv, TypeInv', UNCHANGED <<todo, out, events, marked, silenced>>
  PROVE  AlertInv'
<1>1. ASSUME NEW a \in OnceAlerts PROVE Placed(a)'
  BY <1>1 DEF AlertInv, Placed
<1>2. QED
  BY <1>1 DEF AlertInv

LEMMA AlertEvaluate ==
  ASSUME AlertInv, TypeInv', NEW t \in Threads, NEW s, NEW fires, NEW marks,
         NEW p \in Peers \union {Asset}, Own(t, p), FiresWell(fires, marks, p),
         NothingInHand(t), Evaluate(t, s, fires, marks, p), UNCHANGED <<out, events>>
  PROVE  AlertInv'
<1>0. TypeInv /\ PipeTypeOK
  BY DEF AlertInv, TypeInv
<1> DEFINE w == todo'[t]
<1>1. /\ Len(w) = Len(fires)
      /\ \A i \in 1 .. Len(fires) : w[i] = <<fires[i], p>> /\ fires[i] \in Rules
      /\ \A u \in Threads \ {t} : todo'[u] = todo[u]
      /\ marked' = marked \union (marks \X {p})
      /\ silenced' = silenced \union {<<r, p>> : r \in {q \in marks : Unmarked(q, p) /\ Allowed(p)}}
  BY <1>0, Evaluated
<1>2. todo[t] = <<>> /\ out[t] = <<>>
  BY DEF NothingInHand
<1> HIDE DEF w
<1>3. WaitOnce(w)
  BY <1>1 DEF WaitOnce, FiresWell
<1>4. ASSUME NEW a \in OnceAlerts PROVE Placed(a)'
  <2>1. a = <<a[1], a[2]>> /\ a[1] \in OnceRules
    BY <1>4 DEF OnceAlerts
  <2>2. Placed(a) /\ ~Waiting(todo[t], a) /\ ~Raised(out[t], a)
    BY <1>2, <1>4, NoneWaiting DEF AlertInv
  <2>3. Waiting(w, a) => a[2] = p /\ a[1] \in marks /\ a \notin marked /\ a \in marked'
    <3>1. SUFFICES ASSUME Waiting(w, a)
                   PROVE  a[2] = p /\ a[1] \in marks /\ a \notin marked /\ a \in marked'
      OBVIOUS
    <3>2. PICK i \in 1 .. Len(fires) : a = <<fires[i], p>>
      BY <1>1, <3>1 DEF Waiting
    <3>3. a[1] = fires[i] /\ a[2] = p
      BY <3>2
    <3>4. fires[i] \in marks /\ Unmarked(fires[i], p)
      BY <2>1, <3>3 DEF FiresWell
    <3>5. QED
      BY <1>1, <3>2, <3>3, <3>4 DEF Unmarked
  <2>4. a \in marked' => a \in marked \/ Waiting(w, a) \/ a \in silenced'
    <3>1. SUFFICES ASSUME a \in marked', a \notin marked PROVE Waiting(w, a) \/ a \in silenced'
      OBVIOUS
    <3>2. a[1] \in marks /\ a[2] = p /\ Unmarked(a[1], p)
      BY <1>1, <2>1, <3>1 DEF Unmarked
    <3>3. CASE Allowed(p)
      BY <1>1, <2>1, <3>2, <3>3
    <3>4. CASE ~Allowed(p)
      <4>1. PICK i \in 1 .. Len(fires) : fires[i] = a[1]
        BY <3>2, <3>4 DEF FiresWell
      <4>2. w[i] = a /\ i \in 1 .. Len(w)
        BY <1>1, <2>1, <3>2, <4>1
      <4>3. QED
        BY <4>2 DEF Waiting
    <3>5. QED
      BY <3>3, <3>4
  <2>5. marked \subseteq marked' /\ silenced \subseteq silenced'
    BY <1>1
  <2>6. todo'[t] = w /\ out' = out /\ events' = events
    BY DEF w
  <2>7. \A u \in Threads : Waiting(todo'[u], a) =>
          Own(u, a[2]) /\ a \in marked' /\ ~Raised(out[u], a) /\ ~Raised(events, a)
    BY <1>1, <2>2, <2>3, <2>5, <2>6 DEF Placed
  <2>8. \A u \in Threads : Raised(out[u], a) => Own(u, a[2]) /\ a \in marked' /\ ~Raised(events, a)
    BY <2>2, <2>5 DEF Placed
  <2>9. a \in marked => \/ Raised(events, a) \/ a \in silenced'
                        \/ \E u \in Threads : Waiting(todo'[u], a) \/ Raised(out[u], a)
    BY <1>1, <2>2, <2>5 DEF Placed
  <2>10. a \in marked' => \/ Raised(events, a) \/ a \in silenced'
                          \/ \E u \in Threads : Waiting(todo'[u], a) \/ Raised(out[u], a)
    BY <2>4, <2>6, <2>9
  <2>11. Raised(events, a) => a \in marked'
    BY <2>2, <2>5 DEF Placed
  <2>12. QED
    BY <2>6, <2>7, <2>8, <2>10, <2>11 DEF Placed
<1>5. \A u \in Threads : WaitOnce(todo'[u])
  BY <1>1, <1>3 DEF AlertInv, w
<1>6. QED
  BY <1>4, <1>5 DEF AlertInv

LEMMA AlertNumber ==
  ASSUME AlertInv, TypeInv', NEW t \in Threads, Number(t)
  PROVE  AlertInv'
<1> DEFINE e == Numbered(t)
           h == Head(todo[t])
           w == Tail(todo[t])
           v == Append(out[t], e)
<1>0. /\ TypeInv /\ PipeTypeOK /\ out \in [Threads -> Seq(EventRows)] /\ out[t] \in Seq(EventRows)
      /\ todo \in [Threads -> Seq(Alerts)] /\ todo[t] \in Seq(Alerts) /\ todo[t] # <<>>
  BY DEF AlertInv, TypeInv, PipeTypeOK, Number
<1>1. e \in EventRows /\ AlertOf(e) = h
  BY <1>0, NumberedType DEF AlertOf
<1>2. /\ WaitOnce(w) /\ \A a : Waiting(todo[t], a) <=> a = h \/ Waiting(w, a)
      /\ h \in OnceAlerts => ~Waiting(w, h)
  BY <1>0, WaitingTail DEF AlertInv
<1>3. Waiting(todo[t], h)
  BY <1>2
<1>4. h \in OnceAlerts => ~Raised(out[t], h)
  BY <1>3 DEF AlertInv, Placed
<1>5. RaiseOnce(v) /\ \A a : Raised(v, a) <=> a = h \/ Raised(out[t], a)
  BY <1>0, <1>1, <1>4, RaisedAppend DEF AlertInv
<1>6. /\ todo' = [todo EXCEPT ![t] = w] /\ UNCHANGED <<marked, events>>
      /\ \/ out' = [out EXCEPT ![t] = v] /\ silenced' = silenced
         \/ out' = out /\ silenced' = silenced \union {h}
  BY <1>0 DEF Number
<1> HIDE DEF e, h, w, v
<1>7. /\ todo'[t] = w /\ \A u \in Threads \ {t} : todo'[u] = todo[u] /\ out'[u] = out[u]
      /\ \/ out'[t] = v /\ silenced' = silenced
         \/ out'[t] = out[t] /\ silenced' = silenced \union {h}
  BY <1>0, <1>6
<1>8. ASSUME NEW a \in OnceAlerts PROVE Placed(a)'
  <2>1. Placed(a)
    BY <1>8 DEF AlertInv
  <2>2. CASE a = h
    <3>1. /\ Own(t, a[2]) /\ a \in marked /\ ~Raised(out[t], a) /\ ~Raised(events, a)
          /\ ~Waiting(w, a)
      BY <1>2, <1>3, <1>8, <2>1, <2>2 DEF Placed
    <3>2. \A u \in Threads \ {t} : ~Waiting(todo[u], a) /\ ~Raised(out[u], a)
      BY <2>1, <3>1, OwnOnce DEF Placed
    <3>3. \A u \in Threads : ~Waiting(todo'[u], a)
      BY <1>7, <3>1, <3>2
    <3>4. Raised(out'[t], a) \/ a \in silenced'
      BY <1>5, <1>7, <2>2
    <3>5. \A u \in Threads : Raised(out'[u], a) => u = t
      BY <1>7, <3>2
    <3>6. QED
      BY <1>6, <3>1, <3>3, <3>4, <3>5 DEF Placed
  <2>3. CASE a # h
    <3>1. \A u \in Threads : /\ Waiting(todo'[u], a) <=> Waiting(todo[u], a)
                             /\ Raised(out'[u], a) <=> Raised(out[u], a)
      BY <1>2, <1>5, <1>7, <2>3
    <3>2. silenced \subseteq silenced'
      BY <1>6
    <3>3. QED
      BY <1>6, <2>1, <3>1, <3>2 DEF Placed
  <2>4. QED
    BY <2>2, <2>3
<1>9. \A u \in Threads : WaitOnce(todo'[u]) /\ RaiseOnce(out'[u])
  BY <1>2, <1>5, <1>7 DEF AlertInv
<1>10. QED
  BY <1>6, <1>8, <1>9 DEF AlertInv

LEMMA AlertDrop ==
  ASSUME AlertInv, TypeInv', NEW t \in Threads, Drop(t)
  PROVE  AlertInv'
<1>0. out \in [Threads -> Seq(EventRows)]
  BY DEF AlertInv, TypeInv, PipeTypeOK
<1>1. /\ out'[t] = <<>> /\ \A u \in Threads \ {t} : out'[u] = out[u]
      /\ UNCHANGED <<todo, marked, events>>
      /\ silenced' = silenced \union {<<out[t][i].rule, out[t][i].peer>> : i \in 1 .. Len(out[t])}
  BY <1>0 DEF Drop
<1>2. ASSUME NEW a \in OnceAlerts PROVE Placed(a)'
  <2>1. Placed(a)
    BY <1>2 DEF AlertInv
  <2>2. \A u \in Threads : Raised(out'[u], a) => Raised(out[u], a) /\ u # t
    BY <1>1, NoneWaiting
  <2>3. silenced \subseteq silenced'
    BY <1>1
  <2>4. Raised(out[t], a) => a \in silenced'
    BY <1>1 DEF Raised, AlertOf
  <2>5. \A u \in Threads \ {t} : out'[u] = out[u]
    BY <1>1
  <2>6. a \in marked => \/ Raised(events, a) \/ a \in silenced'
                        \/ \E u \in Threads : Waiting(todo[u], a) \/ Raised(out'[u], a)
    BY <2>1, <2>3, <2>4, <2>5 DEF Placed
  <2>7. QED
    BY <1>1, <2>1, <2>2, <2>6 DEF Placed
<1>3. \A u \in Threads : RaiseOnce(out'[u])
  BY <1>1, NoneWaiting DEF AlertInv
<1>4. QED
  BY <1>1, <1>2, <1>3 DEF AlertInv

LEMMA AlertEmit ==
  ASSUME AlertInv, TypeInv', NEW t \in Threads, Emit(t)
  PROVE  AlertInv'
<1> DEFINE e == Head(out[t])
           h == AlertOf(e)
           w == Tail(out[t])
           log == Append(events, e)
<1>0. /\ TypeInv /\ events \in Seq(EventRows)
      /\ out \in [Threads -> Seq(EventRows)] /\ out[t] \in Seq(EventRows) /\ out[t] # <<>>
  BY DEF AlertInv, TypeInv, PipeTypeOK, Emit
<1>1. e \in EventRows
  BY <1>0, TailFacts
<1>2. /\ RaiseOnce(w) /\ \A a : Raised(out[t], a) <=> a = h \/ Raised(w, a)
      /\ h \in OnceAlerts => ~Raised(w, h)
  BY <1>0, RaisedTail DEF AlertInv
<1>3. Raised(out[t], h)
  BY <1>2
<1>4. h \in OnceAlerts => ~Raised(events, h)
  BY <1>3 DEF AlertInv, Placed
<1>5. RaiseOnce(log) /\ \A a : Raised(log, a) <=> a = h \/ Raised(events, a)
  BY <1>0, <1>1, <1>4, RaisedAppend DEF AlertInv
<1>6. out' = [out EXCEPT ![t] = w] /\ events' = log /\ UNCHANGED <<todo, marked, silenced>>
  BY DEF Emit
<1> HIDE DEF e, h, w, log
<1>7. out'[t] = w /\ \A u \in Threads \ {t} : out'[u] = out[u]
  BY <1>0, <1>6
<1>8. ASSUME NEW a \in OnceAlerts PROVE Placed(a)'
  <2>1. Placed(a)
    BY <1>8 DEF AlertInv
  <2>2. CASE a = h
    <3>1. Own(t, a[2]) /\ a \in marked /\ ~Raised(w, a) /\ Raised(log, a)
      BY <1>2, <1>3, <1>5, <1>8, <2>1, <2>2 DEF Placed
    <3>2. \A u \in Threads \ {t} : ~Waiting(todo[u], a) /\ ~Raised(out[u], a)
      BY <2>1, <3>1, OwnOnce DEF Placed
    <3>3. ~Waiting(todo[t], a)
      BY <1>3, <2>1, <2>2 DEF Placed
    <3>4. \A u \in Threads : ~Waiting(todo[u], a) /\ ~Raised(out'[u], a)
      BY <1>7, <3>1, <3>2, <3>3
    <3>5. QED
      BY <1>6, <3>1, <3>4 DEF Placed
  <2>3. CASE a # h
    <3>1. \A u \in Threads : Raised(out'[u], a) <=> Raised(out[u], a)
      BY <1>2, <1>7, <2>3
    <3>2. Raised(log, a) <=> Raised(events, a)
      BY <1>5, <2>3
    <3>3. QED
      BY <1>6, <2>1, <3>1, <3>2 DEF Placed
  <2>4. QED
    BY <2>2, <2>3
<1>9. \A u \in Threads : RaiseOnce(out'[u])
  BY <1>2, <1>7 DEF AlertInv
<1>10. QED
  BY <1>5, <1>6, <1>8, <1>9 DEF AlertInv

LEMMA AlertNext == AlertInv /\ [PipeNext]_pipeVars => AlertInv'
<1> SUFFICES ASSUME AlertInv, [PipeNext]_pipeVars PROVE AlertInv'
  OBVIOUS
<1>0. TypeInv /\ TypeInv'
  BY TypeNext DEF AlertInv
<1>1. CASE UNCHANGED pipeVars
  BY <1>0, <1>1, AlertSame
<1>2. CASE ChangeMode
  BY <1>0, <1>2, AlertSame DEF ChangeMode
<1>3. ASSUME NEW p \in Packets, Process(p) PROVE AlertInv'
  BY <1>0, <1>3, AlertSame DEF Process
<1>4. CASE Observe \/ Frame \/ (\E high, silent \in BOOLEAN : Window(high, silent))
  <2>1. PICK t \in Threads : \E s, fires, marks : \E p \in Peers \union {Asset} :
          /\ FiresWell(fires, marks, p) /\ NothingInHand(t) /\ Evaluate(t, s, fires, marks, p)
          /\ (IF t = "main" THEN p = Asset ELSE p \in Peers)
          /\ UNCHANGED <<out, events>>
    BY <1>0, <1>4, Evaluations
  <2>2. QED
    BY <1>0, <2>1, AlertEvaluate DEF Own
<1>5. CASE SkipCoverage \/ Snapshot \/ FileFails \/ File \/ Clean
  BY <1>0, <1>5, AlertSame DEF SkipCoverage, Snapshot, FileFails, File, Clean
<1>6. ASSUME NEW t \in Threads, EventStep(t) PROVE AlertInv'
  <2>1. CASE Bump(t) \/ BeginEmit(t)
    BY <1>0, <2>1, AlertSame DEF Bump, BeginEmit
  <2>2. QED
    BY <1>0, <1>6, <2>1, AlertNumber, AlertDrop, AlertEmit DEF EventStep
<1>7. QED
  BY <1>1, <1>2, <1>3, <1>4, <1>5, <1>6 DEF PipeNext, CaptureStep, MainStep

\* However the packets, the windows, the policies and the modes follow, whoever a
\* rule has marked was alerted on, will be, or was passed over; and never twice.
THEOREM AlertsCorrect == PipeSpec => []AlertedOnce
<1>1. AlertInv => AlertedOnce
  <2>1. SUFFICES ASSUME AlertInv, NEW rule \in OnceRules, NEW peer \in Peers \union {Asset}
                 PROVE  /\ <<rule, peer>> \in marked =>
                             InLog(rule, peer) # {} \/ InHand(rule, peer) \/ <<rule, peer>> \in silenced
                        /\ \A i, j \in InLog(rule, peer) : i = j
    BY DEF AlertedOnce
  <2> DEFINE a == <<rule, peer>>
  <2>2. a \in OnceAlerts /\ Placed(a) /\ RaiseOnce(events)
    BY <2>1 DEF AlertInv, OnceAlerts
  <2>3. Raised(events, a) => InLog(rule, peer) # {}
    BY DEF Raised, AlertOf, InLog
  <2>4. \A t \in Threads : Waiting(todo[t], a) \/ Raised(out[t], a) => InHand(rule, peer)
    BY DEF Waiting, Raised, AlertOf, InHand
  <2>5. \A i, j \in InLog(rule, peer) : i = j
    BY <2>2 DEF RaiseOnce, AlertOf, InLog
  <2>6. QED
    BY <2>2, <2>3, <2>4, <2>5 DEF Placed
<1>2. QED
  BY <1>1, AlertInit, AlertNext, PTL DEF PipeSpec
=============================================================================
