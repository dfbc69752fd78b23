---------------------------- MODULE RedactionProofs ----------------------------
(***************************************************************************)
(* Theorems about the rewriting of a content, for every guard, every content *)
(* of whatever length, and markers of any length.                           *)
(***************************************************************************)
EXTENDS Redaction, SeverityPolicyProofs

\* How much of a text stays in front of a replacement, and how much behind it.
FrontOf(t, start) == IF start < Len(t) THEN start ELSE Len(t)
BackOf(t, end) == IF end < Len(t) THEN Len(t) - end ELSE 0
-----------------------------------------------------------------------------
(* One replacement *)

\* What a replacement makes of a text: its front, the marker, its back.
LEMMA SpliceProperties ==
  ASSUME NEW t \in Seq(Nat), NEW start \in Nat, NEW end \in Nat, start <= end,
         NEW marker \in Nat \ {0}
  PROVE  LET front == FrontOf(t, start)
             back == BackOf(t, end)
             s == Splice(t, start, end, marker)
         IN  /\ s \in Seq(Nat)
             /\ Len(s) = front + marker + back
             /\ \A j \in 1..front : s[j] = t[j]
             /\ \A j \in front + 1..front + marker : s[j] = Mark
             /\ \A j \in front + marker + 1..Len(s) : s[j] = t[j - front - marker + end]
<1> DEFINE front == FrontOf(t, start)
           back == BackOf(t, end)
           f == SubSeq(t, 1, front)
           m == [i \in 1..marker |-> Mark]
           b == SubSeq(t, end + 1, Len(t))
           s == Splice(t, start, end, marker)
<1>0. Len(t) \in Nat /\ \A j \in 1..Len(t) : t[j] \in Nat
  BY ElementOfSeq, LenProperties
<1>1. front \in 0..Len(t) /\ back \in Nat
  BY <1>0 DEF FrontOf, BackOf
<1>2. /\ f \in Seq(Nat)
      /\ Len(f) = front
      /\ \A j \in 1..front : f[j] = t[j]
  <2>1. \A j \in 1..front : t[j] \in Nat
    BY <1>0, <1>1
  <2>2. /\ f \in Seq(Nat)
        /\ Len(f) = IF 1 <= front THEN front - 1 + 1 ELSE 0
        /\ \A j \in 1..front - 1 + 1 : f[j] = t[1 + j - 1]
    BY <1>0, <1>1, <2>1, SubSeqProperties, 1 \in Int, front \in Int
  <2> QED
    BY <1>0, <1>1, <2>2
<1>3. m \in Seq(Nat) /\ Len(m) = marker /\ \A j \in 1..marker : m[j] = Mark
  BY DEF Mark
<1>4. /\ b \in Seq(Nat)
      /\ Len(b) = back
      /\ \A j \in 1..back : b[j] = t[j + end]
  <2>1. \A j \in end + 1..Len(t) : t[j] \in Nat
    BY <1>0
  <2>2. /\ b \in Seq(Nat)
        /\ Len(b) = IF end + 1 <= Len(t) THEN Len(t) - (end + 1) + 1 ELSE 0
        /\ \A j \in 1..Len(t) - (end + 1) + 1 : b[j] = t[end + 1 + j - 1]
    BY <1>0, <2>1, SubSeqProperties, end + 1 \in Int, Len(t) \in Int
  <2> QED
    BY <1>0, <2>2 DEF BackOf
<1>5. s = (f \o m) \o b
  BY DEF Splice, FrontOf
<1> HIDE DEF front, back, f, m, b
<1>6. /\ f \o m \in Seq(Nat)
      /\ Len(f \o m) = front + marker
      /\ \A j \in 1..front + marker :
           (f \o m)[j] = IF j <= front THEN f[j] ELSE m[j - front]
  BY <1>1, <1>2, <1>3, ConcatProperties
<1> DEFINE g == f \o m
<1> HIDE DEF g
<1>7. /\ g \o b \in Seq(Nat)
      /\ Len(g \o b) = front + marker + back
      /\ \A j \in 1..front + marker + back :
           (g \o b)[j] = IF j <= front + marker THEN g[j] ELSE b[j - (front + marker)]
  <2>1. g \in Seq(Nat) /\ Len(g) = front + marker
    BY <1>6 DEF g
  <2>2. /\ g \o b \in Seq(Nat)
        /\ Len(g \o b) = Len(g) + Len(b)
        /\ \A j \in 1..Len(g) + Len(b) :
             (g \o b)[j] = IF j <= Len(g) THEN g[j] ELSE b[j - Len(g)]
    BY <1>4, <2>1, ConcatProperties
  <2> QED
    BY <1>4, <2>1, <2>2
<1> USE DEF g
<1> HIDE DEF s
<1>8. \A j \in 1..front : s[j] = t[j]
  BY <1>1, <1>2, <1>5, <1>6, <1>7
<1>9. \A j \in front + 1..front + marker : s[j] = Mark
  BY <1>1, <1>3, <1>5, <1>6, <1>7
<1>10. \A j \in front + marker + 1..Len(s) : s[j] = t[j - front - marker + end]
  <2> SUFFICES ASSUME NEW j \in front + marker + 1..Len(s)
               PROVE  s[j] = t[j - front - marker + end]
    OBVIOUS
  <2>1. j - (front + marker) \in 1..back
    BY <1>1, <1>5, <1>7
  <2>2. s[j] = b[j - (front + marker)]
    BY <1>1, <1>5, <1>7
  <2> QED
    BY <1>1, <1>4, <2>1, <2>2
<1> QED
  BY <1>5, <1>7, <1>8, <1>9, <1>10 DEF front, back, s

\* No replacement puts a finding together: where one stands afterwards it stood
\* before, in front of the marker or behind what the marker took the place of.
LEMMA SpliceBringsNothing ==
  ASSUME NEW t \in Seq(Nat), NEW start \in Nat, NEW end \in Nat, start <= end,
         NEW marker \in Nat \ {0}, NEW f \in Span, f.start < f.end,
         NEW k \in Nat \ {0}, OccursAt(f, Splice(t, start, end, marker), k)
  PROVE  /\ Occurs(f, t)
         /\ k <= start => OccursAt(f, t, k)
         /\ k \notin start + 1..start + marker \/ Len(t) < start
<1> DEFINE front == FrontOf(t, start)
           back == BackOf(t, end)
           s == Splice(t, start, end, marker)
           w == Width(f)
<1>0. Len(t) \in Nat
  BY LenProperties
<1>1. front \in 0..Len(t) /\ back \in Nat /\ front <= start
  BY <1>0 DEF FrontOf, BackOf
<1>2. /\ s \in Seq(Nat)
      /\ Len(s) = front + marker + back
      /\ \A j \in 1..front : s[j] = t[j]
      /\ \A j \in front + 1..front + marker : s[j] = Mark
      /\ \A j \in front + marker + 1..Len(s) : s[j] = t[j - front - marker + end]
  BY SpliceProperties
<1> HIDE DEF front, back, s
<1>3. /\ w \in Nat \ {0} /\ f.start \in Nat
      /\ k + w <= Len(s) + 1
      /\ \A i \in 0..w - 1 : s[k + i] = f.start + 1 + i
  <2>1. f.start \in Nat /\ f.end \in Nat
    BY DEF Span
  <2>2. w \in Nat \ {0}
    BY <2>1 DEF Width
  <2> QED
    BY <2>1, <2>2 DEF OccursAt, s
<1>w. Width(f) = w
  OBVIOUS
<1> HIDE DEF w
<1>4. ASSUME NEW i \in 0..w - 1
      PROVE  k + i \notin front + 1..front + marker
  <2>1. s[k + i] = f.start + 1 + i
    BY <1>3
  <2>2. f.start + 1 + i # Mark
    <3>1. w \in Nat /\ f.start \in Nat
      BY <1>3
    <3>2. i \in Nat
      BY <3>1
    <3> QED
      BY <3>1, <3>2 DEF Mark
  <2> QED
    BY <1>2, <2>1, <2>2
<1>5. CASE k <= front
  <2>1. k + w <= front + 1
    <3> SUFFICES ASSUME front + 1 < k + w
                 PROVE  FALSE
      BY <1>1, <1>3
    <3>1. front + 1 - k \in 0..w - 1 /\ k + (front + 1 - k) = front + 1
      BY <1>1, <1>3, <1>5
    <3> QED
      BY <1>1, <1>4, <3>1
  <2>2. \A i \in 0..w - 1 : t[k + i] = f.start + 1 + i
    BY <1>1, <1>2, <1>3, <2>1
  <2>3. OccursAt(f, t, k)
    BY <1>0, <1>1, <1>3, <1>w, <2>1, <2>2 DEF OccursAt
  <2>4. k \in 1..Len(t)
    BY <1>1, <1>5
  <2>5. k \notin start + 1..start + marker
    BY <1>1, <1>5
  <2> QED
    BY <2>3, <2>4, <2>5 DEF Occurs
<1>6. CASE front + marker < k
  <2> DEFINE l == k - front - marker + end
  <2>1. l \in 1..Len(t) /\ l + w <= Len(t) + 1
    <3>1. k - front - marker \in 1..back /\ k - front - marker + w <= back + 1
      BY <1>1, <1>2, <1>3, <1>6
    <3>2. end < Len(t) /\ back = Len(t) - end
      BY <1>0, <3>1 DEF back, BackOf
    <3> QED
      BY <1>0, <1>1, <1>3, <3>1, <3>2
  <2>2. \A i \in 0..w - 1 : t[l + i] = f.start + 1 + i
    <3> SUFFICES ASSUME NEW i \in 0..w - 1
                 PROVE  t[l + i] = f.start + 1 + i
      OBVIOUS
    <3>1. k + i \in front + marker + 1..Len(s)
      BY <1>1, <1>2, <1>3, <1>6
    <3>2. (k + i) - front - marker + end = l + i
      BY <1>1, <1>6
    <3> QED
      BY <1>2, <1>3, <3>1, <3>2
  <2>3. OccursAt(f, t, l)
    BY <1>w, <2>1, <2>2 DEF OccursAt
  <2>4. Occurs(f, t)
    BY <2>1, <2>3 DEF Occurs
  <2>5. front = start \/ Len(t) < start
    BY <1>0 DEF front, FrontOf
  <2>6. k <= start => Len(t) < start
    BY <1>1, <1>6, <2>5
  <2>7. Len(t) < start => back = 0
    BY <1>0 DEF back, BackOf
  <2>8. ~(Len(t) < start)
    BY <1>1, <1>2, <1>3, <1>6, <2>7
  <2> QED
    BY <1>1, <1>6, <2>4, <2>5, <2>6, <2>8
<1>7. k \notin front + 1..front + marker
  <2>1. 0 \in 0..w - 1 /\ k + 0 = k
    BY <1>3
  <2> QED
    BY <1>4, <2>1
<1> QED
  BY <1>1, <1>5, <1>6, <1>7
-----------------------------------------------------------------------------
(* What the detectors are made of, and what they answer *)

\* Whatever the sources of its rules, a detector searches for patterns.
LEMMA RulesArePatterns ==
  ASSUME NEW s \in Setups, NEW i \in DOMAIN s.options,
         Construct(s.options[i]).status = "built"
  PROVE  Construct(s.options[i]).rules \in Seq(Pattern)
<1> DEFINE o == s.options[i]
           loaded == FlattenSeq(OrEmpty(o.paths))
           defaults == IF o.defaults = None THEN <<>> ELSE DefaultRulesOf[o.defaults]
<1>1. OrEmpty(o.patterns) \in Seq(Pattern)
  BY SetupsAssumption
<1>2. defaults \in Seq(Pattern)
  <2>1. o.defaults \in RuleSet \cup {None}
    BY SetupsAssumption
  <2> QED
    BY <2>1, DefaultRulesAssumption
<1>3. AllLoad(o) => loaded \in Seq(Pattern)
  BY SetupsAssumption
<1> HIDE DEF o, loaded, defaults
<1>4. AllLoad(o) => ResolveRules(o) \in Seq(Pattern)
  <2> SUFFICES ASSUME AllLoad(o)
               PROVE  ResolveRules(o) \in Seq(Pattern)
    OBVIOUS
  <2>1. defaults \o loaded \in Seq(Pattern)
    BY <1>2, <1>3, ConcatProperties
  <2>2. (defaults \o loaded) \o OrEmpty(o.patterns) \in Seq(Pattern)
    BY <1>1, <2>1, ConcatProperties
  <2>3. o.patterns # None => o.patterns \in Seq(Pattern)
    BY <1>1 DEF OrEmpty
  <2> QED
    BY <1>2, <1>3, <2>2, <2>3 DEF ResolveRules, loaded, defaults
<1>5. /\ Searches(o) => AllLoad(o)
      /\ Construct(o).rules = IF Searches(o) THEN ResolveRules(o) ELSE <<>>
  BY DEF Construct, Failed, o
<1> QED
  BY <1>4, <1>5, EmptySeq DEF o

\* No formatter makes up an entity.
LEMMA PredictKeepsSpans ==
  ASSUME NEW config, NEW raw, Predict(config, raw).status = "result",
         NEW k \in DOMAIN Predict(config, raw).entities
  PROVE  Predict(config, raw).entities[k] \in SpansOf(raw)
<1>1. ASSUME NEW detected
      PROVE  DOMAIN Verdict(detected).entities = {}
  BY DEF Verdict, Found
<1>2. ASSUME NEW score
      PROVE  DOMAIN ByScore(score).entities = {}
  BY DEF ByScore, Found
<1>3. ASSUME NEW failure
      PROVE  Failed(failure).status = failure
  BY DEF Failed
<1>4. DefaultFormat(config.task, raw).status = "result" =>
        DOMAIN DefaultFormat(config.task, raw).entities = {}
  BY <1>1, <1>2, <1>3 DEF DefaultFormat
<1>5. DefaultInjection(raw).status = "result" => DOMAIN DefaultInjection(raw).entities = {}
  BY <1>1, <1>3 DEF DefaultInjection
<1>6. DefaultApi(raw).status = "result" => DOMAIN DefaultApi(raw).entities = {}
  BY <1>1, <1>3 DEF DefaultApi
<1>7. DefaultPii(raw).status = "result" =>
        \A j \in DOMAIN DefaultPii(raw).entities :
          DefaultPii(raw).entities[j] \in SpansOf(raw)
  BY <1>3 DEF DefaultPii, Found, SpansOf
<1>8. CustomFormat(raw).status = "result" =>
        \A j \in DOMAIN CustomFormat(raw).entities :
          CustomFormat(raw).entities[j] \in SpansOf(raw)
  BY <1>3 DEF CustomFormat, Found, SpansOf
<1> QED
  BY <1>3, <1>4, <1>5, <1>6, <1>7, <1>8 DEF Predict

\* The entities a detector answers are spans.
LEMMA AnswersHoldSpans ==
  ASSUME NEW d, NEW s \in Setups, NEW c \in Contents, NEW i \in DOMAIN s.options,
         Inspect(d, c.length, c.finds, c.raws[i]).status = "result",
         NEW k \in DOMAIN Inspect(d, c.length, c.finds, c.raws[i]).entities
  PROVE  LET e == Inspect(d, c.length, c.finds, c.raws[i]).entities[k]
         IN  e \in Span /\ e.start # e.end
<1> DEFINE raw == c.raws[i]
           model == IF Asks(d) THEN Predict(d.model, raw) ELSE None
           answer == Inspect(d, c.length, c.finds, raw)
<1>1. \A e \in SpansOf(raw) : e \in Span /\ e.start # e.end
  BY ContentsAssumption
<1>2. \/ answer.entities = <<>>
      \/ model # None /\ model.status = "result" /\ answer.entities = model.entities
  BY DEF Inspect, Answer
<1>3. model # None => model = Predict(d.model, raw)
  OBVIOUS
<1> QED
  BY <1>1, <1>2, <1>3, PredictKeepsSpans
-----------------------------------------------------------------------------
(* The invariant *)

AllBuilt == \A i \in DOMAIN setup.options : Built(i).status = "built"
Replies == {Reply(i) : i \in DOMAIN setup.options}

\* Where the guard stands.
Situated ==
  /\ setup \in Setups
  /\ content \in Contents
  /\ phase \in Phase
  /\ text \in Seq(Nat)
  /\ before \in Seq(Nat)
  /\ results \in Seq(Replies)
  /\ turn \in Nat \ {0}
  /\ rule \in Nat \ {0}
  /\ at \in Nat \ {0}
  /\ phase \in {"construct", "inspect"} => decision = "none" /\ rule = 1 /\ at = 1
  /\ phase \in {"inspect", "rules", "entities"} =>
       AllBuilt /\ detectors = [i \in DOMAIN setup.options |-> Built(i)]

Gone(finds, t) == \A f \in finds : ~Occurs(f, t)

\* What the detectors before this one found is gone, from the text they left to
\* this detector too, which is what a failure falls back to ...
GoneBehind ==
  \A i \in DOMAIN detectors :
    Redacted(i) => Gone(Finds(i), text) /\ Gone(Finds(i), before)

\* ... as is what this detector's earlier rules found ...
GoneAbove ==
  phase \in {"rules", "entities"} /\ Redacting =>
    \A q \in DOMAIN Rules : q < rule => Gone(content.finds[Rules[q]], text)

\* ... and, left of where it looks, what the present one found.
GoneLeft ==
  phase = "rules" /\ Redacting /\ rule \in DOMAIN Rules =>
    \A f \in content.finds[Rules[rule]], k \in 1..at - 1 : ~OccursAt(f, text, k)

\* Entities wait for all rules, and are possible ones.
EntitiesWait ==
  phase = "entities" =>
    /\ Redacting
    /\ rule \notin DOMAIN Rules
    /\ Valid(EntitiesOf(turn))
    /\ todo \subseteq DOMAIN EntitiesOf(turn)

IInv == Situated /\ GoneBehind /\ GoneAbove /\ GoneLeft /\ EntitiesWait

LEMMA InitSituated == Init => IInv
<1> SUFFICES ASSUME Init
             PROVE  IInv
  OBVIOUS
<1>1. content \in Contents /\ content.length \in Nat
  BY ContentsAssumption DEF Init
<1>2. Original \in Seq(Nat)
  BY <1>1 DEF Original
<1>3. Situated
  BY <1>1, <1>2, EmptySeq DEF Init, Situated, Phase
<1>4. GoneBehind /\ GoneAbove /\ GoneLeft /\ EntitiesWait
  BY DEF Init, GoneBehind, Redacted, GoneAbove, GoneLeft, EntitiesWait
<1> QED
  BY <1>3, <1>4 DEF IInv

\* Findings and markers have characters.
LEMMA FindingsAreSpans ==
  ASSUME Situated, phase \in {"inspect", "rules", "entities"}, NEW i \in DOMAIN detectors
  PROVE  /\ detectors[i].rules \in Seq(Pattern)
         /\ \A q \in DOMAIN detectors[i].rules :
              /\ q \in Nat \ {0}
              /\ MarkerLength[detectors[i].rules[q]] \in Nat \ {0}
              /\ \A f \in content.finds[detectors[i].rules[q]] :
                   f \in Span /\ f.start < f.end
<1>1. i \in DOMAIN setup.options /\ detectors[i] = Construct(setup.options[i])
  BY DEF Situated, Built
<1>2. detectors[i].rules \in Seq(Pattern)
  BY <1>1, RulesArePatterns DEF Situated, AllBuilt, Built
<1>3. ASSUME NEW q \in DOMAIN detectors[i].rules
      PROVE  q \in Nat \ {0} /\ detectors[i].rules[q] \in Pattern
  <2>1. q \in 1..Len(detectors[i].rules) /\ Len(detectors[i].rules) \in Nat
    BY <1>2, LenProperties
  <2> QED
    BY <1>2, <2>1, ElementOfSeq
<1>4. \A r \in Pattern : MarkerLength[r] \in Nat \ {0}
  BY MarkerAssumption
<1>5. \A r \in Pattern : \A f \in content.finds[r] : f \in Span /\ f.start < f.end
  BY ContentsAssumption DEF Situated
<1> QED
  BY <1>2, <1>3, <1>4, <1>5

LEMMA EntitiesAreSpans ==
  ASSUME Situated, NEW i, NEW k \in DOMAIN EntitiesOf(i)
  PROVE  EntitiesOf(i)[k] \in Span /\ EntitiesOf(i)[k].start # EntitiesOf(i)[k].end
<1>1. Matched(i) /\ EntitiesOf(i) = results[i].entities
  BY DEF EntitiesOf, NoEntities
<1>2. i \in DOMAIN results /\ results[i].status = "result"
  BY <1>1 DEF Matched, Answered
<1>3. results[i] \in Replies
  <2>1. i \in 1..Len(results)
    BY <1>2, LenProperties DEF Situated
  <2> QED
    BY <2>1, ElementOfSeq DEF Situated
<1>4. PICK j \in DOMAIN setup.options :
        results[i] = Inspect(Construct(setup.options[j]), content.length,
                             content.finds, content.raws[j])
  BY <1>3 DEF Replies, Reply, Built
<1>5. setup \in Setups /\ content \in Contents
  BY DEF Situated
<1> QED
  BY <1>1, <1>2, <1>4, <1>5, AnswersHoldSpans

\* What is gone stays gone when a span of the text is replaced.
LEMMA GoneStaysGone ==
  ASSUME NEW t \in Seq(Nat), NEW start \in Nat, NEW end \in Nat, start <= end,
         NEW marker \in Nat \ {0}, NEW finds, \A f \in finds : f \in Span /\ f.start < f.end,
         Gone(finds, t)
  PROVE  Gone(finds, Splice(t, start, end, marker))
<1> DEFINE s == Splice(t, start, end, marker)
<1> SUFFICES ASSUME NEW f \in finds, Occurs(f, s)
             PROVE  FALSE
  BY DEF Gone
<1>1. s \in Seq(Nat)
  BY SpliceProperties
<1>2. PICK k \in 1..Len(s) : OccursAt(f, s, k)
  BY DEF Occurs
<1>3. k \in Nat \ {0}
  BY <1>1, LenProperties
<1>4. Occurs(f, t)
  BY <1>2, <1>3, SpliceBringsNothing
<1> QED
  BY <1>4 DEF Gone
-----------------------------------------------------------------------------
(* Every step keeps it *)

\* While nothing has been decided nothing is redacted.
LEMMA BuildGuardKeeps == IInv /\ BuildGuard => IInv'
<1> SUFFICES ASSUME IInv, BuildGuard
             PROVE  IInv'
  OBVIOUS
<1>1. Situated /\ decision = "none" /\ rule = 1 /\ at = 1
  BY DEF IInv, Situated, BuildGuard
<1>2. /\ detectors' = [i \in DOMAIN setup.options |-> Built(i)]
      /\ IF AllBuilt THEN phase' = "inspect" ELSE phase' = "done"
      /\ UNCHANGED <<setup, content, results, decision, text, before, turn, rule, at>>
  BY DEF BuildGuard, Built, AllBuilt, End, fixed
<1>3. Situated'
  BY <1>1, <1>2 DEF Situated, Phase, AllBuilt, Built, Replies, Reply
<1>4. GoneBehind' /\ GoneAbove' /\ GoneLeft' /\ EntitiesWait'
  BY <1>1, <1>2 DEF GoneBehind, Redacted, GoneAbove, GoneLeft, EntitiesWait
<1> QED
  BY <1>3, <1>4 DEF IInv

LEMMA InspectNextKeeps == IInv /\ InspectNext => IInv'
<1> SUFFICES ASSUME IInv, InspectNext
             PROVE  IInv'
  OBVIOUS
<1>1. Situated /\ decision = "none" /\ phase = "inspect"
  BY DEF IInv, Situated, InspectNext
<1>2. turn \in DOMAIN setup.options /\ detectors[turn] = Built(turn)
  BY <1>1 DEF Situated, InspectNext
<1>3. results' = Append(results, Reply(turn))
  BY <1>2 DEF InspectNext, Reply
<1>4. results' \in Seq(Replies)
  <2>1. Reply(turn) \in Replies
    BY <1>2 DEF Replies
  <2> QED
    BY <1>1, <1>3, <2>1, AppendProperties DEF Situated
<1>5. /\ turn' \in Nat \ {0}
      /\ UNCHANGED <<setup, content, phase, detectors, decision, text, before, rule, at>>
  BY <1>1 DEF Situated, InspectNext, fixed
<1>6. Situated'
  BY <1>1, <1>4, <1>5 DEF Situated, Phase, AllBuilt, Built, Replies, Reply
<1>7. GoneBehind' /\ GoneAbove' /\ GoneLeft' /\ EntitiesWait'
  BY <1>1, <1>5 DEF GoneBehind, Redacted, GoneAbove, GoneLeft, EntitiesWait
<1> QED
  BY <1>6, <1>7 DEF IInv

LEMMA EnforceKeeps == IInv /\ Enforce => IInv'
<1> SUFFICES ASSUME IInv, Enforce
             PROVE  IInv'
  OBVIOUS
<1>1. Situated /\ phase = "inspect" /\ rule = 1 /\ at = 1
  BY DEF IInv, Situated, Enforce
<1>2. /\ turn' = 1
      /\ phase' \in {"rules", "done"}
      /\ UNCHANGED <<setup, content, detectors, results, text, before, rule, at>>
  BY DEF Enforce, End, fixed
<1>3. Situated'
  BY <1>1, <1>2 DEF Situated, Phase, AllBuilt, Built, Replies, Reply
<1>4. /\ \A i \in DOMAIN detectors : i \in Nat \ {0}
      /\ \A i \in DOMAIN detectors : \A q \in DOMAIN detectors[i].rules : q \in Nat \ {0}
  <2>1. DOMAIN detectors = 1..Len(setup.options)
    BY <1>1, LenProperties, SetupsAssumption DEF Situated
  <2> QED
    BY <1>1, <2>1, FindingsAreSpans
<1>5. GoneBehind'
  BY <1>2, <1>4 DEF GoneBehind, Redacted
<1>6. GoneAbove' /\ GoneLeft' /\ EntitiesWait'
  BY <1>1, <1>2, <1>4 DEF GoneAbove, GoneLeft, EntitiesWait, Redacting, Rules
<1> QED
  BY <1>3, <1>5, <1>6 DEF IInv

\* The characters the present rule finds from the first match on are replaced by
\* its marker, behind which the search goes on.
LEMMA ReplaceMatchKeeps == IInv /\ ReplaceMatch => IInv'
<1> SUFFICES ASSUME IInv, ReplaceMatch
             PROVE  IInv'
  OBVIOUS
<1> DEFINE marker == MarkerLength[Rules[rule]]
<1>1. /\ Situated /\ phase = "rules" /\ Redacting /\ rule \in DOMAIN Rules
      /\ UNCHANGED <<setup, content, phase, detectors, results, decision, before,
                     turn, rule, spoiled>>
  BY DEF IInv, ReplaceMatch, fixed, inspected
<1>2. PICK k \in Starts, f \in content.finds[Rules[rule]] :
        /\ \A l \in Starts : k <= l
        /\ OccursAt(f, text, k)
        /\ text' = Splice(text, k - 1, k - 1 + Width(f), marker)
        /\ at' = k + marker
  BY DEF ReplaceMatch
<1>3. marker \in Nat \ {0} /\ f \in Span /\ f.start < f.end
  BY <1>1, FindingsAreSpans DEF Redacting, Rules
<1>4. k \in at..Len(text) /\ k \in Nat \ {0} /\ Len(text) \in Nat /\ at \in Nat \ {0}
  BY <1>1, LenProperties DEF Situated, Starts
<1> DEFINE start == k - 1
           end == k - 1 + Width(f)
<1>5. start \in Nat /\ end \in Nat /\ start <= end
  BY <1>3, <1>4 DEF Width, Span
<1>6. text \in Seq(Nat) /\ text' = Splice(text, start, end, marker)
  BY <1>1, <1>2 DEF Situated
<1> HIDE DEF marker, start, end
<1>7. ASSUME NEW finds, \A g \in finds : g \in Span /\ g.start < g.end, Gone(finds, text)
      PROVE  Gone(finds, text')
  BY <1>3, <1>5, <1>6, <1>7, GoneStaysGone
<1>8. Situated'
  <2>1. text' \in Seq(Nat)
    BY <1>3, <1>5, <1>6, SpliceProperties
  <2>2. at' \in Nat \ {0}
    BY <1>2, <1>3, <1>4
  <2> QED
    BY <1>1, <2>1, <2>2 DEF Situated, Phase, AllBuilt, Built, Replies, Reply
<1>9. GoneBehind'
  <2> SUFFICES ASSUME NEW i \in DOMAIN detectors, Redacted(i)
               PROVE  Gone(Finds(i), text') /\ Gone(Finds(i), before)
    BY <1>1 DEF GoneBehind, Redacted, Finds
  <2>1. \A g \in Finds(i) : g \in Span /\ g.start < g.end
    BY <1>1, FindingsAreSpans DEF Finds, ToSet
  <2>2. Gone(Finds(i), text) /\ Gone(Finds(i), before)
    BY DEF IInv, GoneBehind
  <2> QED
    BY <1>7, <2>1, <2>2
<1>10. GoneAbove'
  <2> SUFFICES ASSUME NEW q \in DOMAIN Rules, q < rule
               PROVE  Gone(content.finds[Rules[q]], text')
    BY <1>1 DEF GoneAbove, Rules, Redacting
  <2>1. \A g \in content.finds[Rules[q]] : g \in Span /\ g.start < g.end
    BY <1>1, FindingsAreSpans DEF Redacting, Rules
  <2>2. Gone(content.finds[Rules[q]], text)
    BY <1>1 DEF IInv, GoneAbove
  <2> QED
    BY <1>7, <2>1, <2>2
<1>11. GoneLeft'
  <2> SUFFICES ASSUME NEW g \in content.finds[Rules[rule]], NEW l \in 1..at' - 1,
                      OccursAt(g, text', l)
               PROVE  FALSE
    BY <1>1 DEF GoneLeft, Rules, Redacting
  <2>1. g \in Span /\ g.start < g.end
    BY <1>1, FindingsAreSpans DEF Redacting, Rules
  <2>2. l \in Nat \ {0} /\ l < k + marker
    BY <1>2, <1>3, <1>4 DEF marker
  <2>3. /\ l <= start => OccursAt(g, text, l)
        /\ l \notin start + 1..start + marker \/ Len(text) < start
    BY <1>3, <1>5, <1>6, <2>1, <2>2, SpliceBringsNothing
  <2>4. l <= start /\ OccursAt(g, text, l)
    BY <1>3, <1>4, <2>2, <2>3 DEF start
  <2>5. CASE l < at
    BY <1>1, <1>4, <2>2, <2>4, <2>5 DEF IInv, GoneLeft
  <2>6. CASE at <= l
    <3>1. l \in Starts
      BY <1>4, <2>2, <2>4, <2>6 DEF Starts, start
    <3> QED
      BY <1>2, <1>4, <2>2, <2>4, <3>1 DEF start
  <2> QED
    BY <1>4, <2>2, <2>5, <2>6
<1>12. EntitiesWait'
  BY <1>1 DEF EntitiesWait
<1> QED
  BY <1>8, <1>9, <1>10, <1>11, <1>12 DEF IInv

LEMMA NextRuleKeeps == IInv /\ NextRule => IInv'
<1> SUFFICES ASSUME IInv, NextRule
             PROVE  IInv'
  OBVIOUS
<1>1. /\ Situated /\ phase = "rules" /\ Redacting /\ rule \in DOMAIN Rules /\ Starts = {}
      /\ rule' = rule + 1 /\ at' = 1
      /\ UNCHANGED <<setup, content, phase, detectors, results, decision, text, before,
                     turn, spoiled>>
  BY DEF IInv, NextRule, fixed, inspected
<1>2. Situated'
  <2>1. rule' \in Nat \ {0} /\ at' \in Nat \ {0}
    BY <1>1 DEF Situated
  <2> QED
    BY <1>1, <2>1 DEF Situated, Phase, AllBuilt, Built, Replies, Reply
<1>3. GoneBehind'
  BY <1>1 DEF IInv, GoneBehind, Redacted, Finds, Gone
<1>4. Gone(content.finds[Rules[rule]], text)
  <2> SUFFICES ASSUME NEW f \in content.finds[Rules[rule]], NEW k \in 1..Len(text),
                      OccursAt(f, text, k)
               PROVE  FALSE
    BY DEF Gone, Occurs
  <2>1. at \in Nat \ {0} /\ Len(text) \in Nat
    BY <1>1, LenProperties DEF Situated
  <2>2. k \notin 1..at - 1
    BY <1>1 DEF IInv, GoneLeft
  <2>3. k \in at..Len(text)
    BY <2>1, <2>2
  <2> QED
    BY <1>1, <2>3 DEF Starts
<1>5. GoneAbove'
  <2> SUFFICES ASSUME NEW q \in DOMAIN Rules, q < rule + 1
               PROVE  Gone(content.finds[Rules[q]], text)
    BY <1>1 DEF GoneAbove, Rules, Redacting
  <2>1. q \in Nat /\ rule \in Nat
    BY <1>1, FindingsAreSpans DEF Situated, Redacting, Rules
  <2>2. q < rule \/ q = rule
    BY <2>1
  <2> QED
    BY <1>1, <1>4, <2>2 DEF IInv, GoneAbove
<1>6. GoneLeft' /\ EntitiesWait'
  BY <1>1 DEF GoneLeft, EntitiesWait
<1> QED
  BY <1>2, <1>3, <1>5, <1>6 DEF IInv

LEMMA CheckEntitiesKeeps == IInv /\ CheckEntities => IInv'
<1> SUFFICES ASSUME IInv, CheckEntities
             PROVE  IInv'
  OBVIOUS
<1>1. /\ Situated /\ phase = "rules" /\ Redacting /\ rule \notin DOMAIN Rules
      /\ Valid(EntitiesOf(turn))
      /\ phase' = "entities" /\ todo' = DOMAIN EntitiesOf(turn)
      /\ UNCHANGED <<setup, content, detectors, results, decision, text, before,
                     turn, rule, at, spoiled>>
  BY DEF IInv, CheckEntities, fixed, inspected
<1>2. Situated'
  BY <1>1 DEF Situated, Phase, AllBuilt, Built, Replies, Reply
<1>3. GoneBehind' /\ GoneAbove'
  BY <1>1 DEF IInv, GoneBehind, GoneAbove, Redacted, Finds, Gone, Redacting, Rules
<1>4. GoneLeft'
  BY <1>1 DEF GoneLeft
<1>5. EntitiesWait'
  BY <1>1 DEF EntitiesWait, Redacting, Rules, EntitiesOf, Matched, Answered, Valid
<1> QED
  BY <1>2, <1>3, <1>4, <1>5 DEF IInv

\* A failing detector's half-done work is undone: the text it was given has
\* nothing in it that an earlier one found.
LEMMA RedactionFailsKeeps == IInv /\ RedactionFails => IInv'
<1> SUFFICES ASSUME IInv, RedactionFails
             PROVE  IInv'
  OBVIOUS
<1>1. /\ Situated /\ phase = "rules" /\ Redacting
      /\ text' = before /\ spoiled' = spoiled \cup {turn}
      /\ \/ turn' = turn + 1 /\ rule' = 1 /\ at' = 1 /\ phase' = phase
         \/ phase' = "done" /\ turn' = turn /\ rule' = rule /\ at' = at
      /\ UNCHANGED <<setup, content, detectors, results, decision, before>>
  BY DEF IInv, RedactionFails, End, fixed, inspected
<1>2. \A i \in DOMAIN detectors : i \in Nat
  <2>1. DOMAIN detectors = 1..Len(setup.options) /\ Len(setup.options) \in Nat
    BY <1>1, LenProperties, SetupsAssumption DEF Situated
  <2> QED
    BY <2>1
<1>3. turn \in Nat \ {0} /\ turn' \in Nat \ {0} /\ rule' \in Nat \ {0} /\ at' \in Nat \ {0}
  BY <1>1 DEF Situated
<1>4. Situated'
  BY <1>1, <1>3 DEF Situated, Phase, AllBuilt, Built, Replies, Reply
<1>5. GoneBehind'
  <2> SUFFICES ASSUME NEW i \in DOMAIN detectors, Redacted(i)'
               PROVE  Gone(Finds(i), before)
    BY <1>1 DEF GoneBehind, Redacted, Finds, Gone
  <2>1. i < turn /\ i \notin spoiled /\ decision = "redact"
    BY <1>1, <1>2, <1>3 DEF Redacted
  <2> QED
    BY <2>1 DEF IInv, GoneBehind, Redacted
<1>6. \A q \in DOMAIN Rules' : q \in Nat \ {0} \/ phase' = "done" \/ ~Redacting'
  BY <1>1, FindingsAreSpans DEF Redacting, Rules
<1>7. GoneAbove' /\ GoneLeft' /\ EntitiesWait'
  BY <1>1, <1>6 DEF GoneAbove, GoneLeft, EntitiesWait
<1> QED
  BY <1>4, <1>5, <1>7 DEF IInv

LEMMA ReplaceEntityKeeps == IInv /\ ReplaceEntity => IInv'
<1> SUFFICES ASSUME IInv, ReplaceEntity
             PROVE  IInv'
  OBVIOUS
<1>1. /\ Situated /\ phase = "entities"
      /\ UNCHANGED <<setup, content, phase, detectors, results, decision, before,
                     turn, rule, at, spoiled>>
  BY DEF IInv, ReplaceEntity, fixed, inspected
<1> DEFINE e(k) == EntitiesOf(turn)[k]
<1>2. PICK k \in todo :
        /\ text' = Splice(text, e(k).start, e(k).end, MarkerLength[None])
        /\ todo' = todo \ {k}
  BY DEF ReplaceEntity, LastOf
<1>3. /\ Redacting /\ rule \notin DOMAIN Rules /\ Valid(EntitiesOf(turn))
      /\ todo \subseteq DOMAIN EntitiesOf(turn)
  BY <1>1 DEF IInv, EntitiesWait
<1>4. e(k).start \in Nat /\ e(k).end \in Nat /\ e(k).start <= e(k).end
  <2>1. e(k) \in Span
    BY <1>1, <1>2, <1>3, EntitiesAreSpans
  <2> QED
    BY <1>2, <1>3, <2>1 DEF Span, Valid
<1>5. MarkerLength[None] \in Nat \ {0} /\ text \in Seq(Nat)
  BY <1>1, MarkerAssumption DEF Situated
<1>6. text' \in Seq(Nat)
  BY <1>2, <1>4, <1>5, SpliceProperties
<1>7. ASSUME NEW finds, \A g \in finds : g \in Span /\ g.start < g.end, Gone(finds, text)
      PROVE  Gone(finds, text')
  BY <1>2, <1>4, <1>5, <1>7, GoneStaysGone
<1>8. Situated'
  BY <1>1, <1>6 DEF Situated, Phase, AllBuilt, Built, Replies, Reply
<1>9. GoneBehind'
  <2> SUFFICES ASSUME NEW i \in DOMAIN detectors, Redacted(i)
               PROVE  Gone(Finds(i), text') /\ Gone(Finds(i), before)
    BY <1>1 DEF GoneBehind, Redacted, Finds
  <2>1. \A g \in Finds(i) : g \in Span /\ g.start < g.end
    BY <1>1, FindingsAreSpans DEF Finds, ToSet
  <2>2. Gone(Finds(i), text) /\ Gone(Finds(i), before)
    BY DEF IInv, GoneBehind
  <2> QED
    BY <1>7, <2>1, <2>2
<1>10. GoneAbove'
  <2> SUFFICES ASSUME NEW q \in DOMAIN Rules, q < rule
               PROVE  Gone(content.finds[Rules[q]], text')
    BY <1>1 DEF GoneAbove, Rules, Redacting
  <2>1. \A g \in content.finds[Rules[q]] : g \in Span /\ g.start < g.end
    BY <1>1, <1>3, FindingsAreSpans DEF Redacting, Rules
  <2>2. Gone(content.finds[Rules[q]], text)
    BY <1>1, <1>3 DEF IInv, GoneAbove
  <2> QED
    BY <1>7, <2>1, <2>2
<1>11. GoneLeft'
  BY <1>1 DEF GoneLeft
<1>12. EntitiesWait'
  BY <1>1, <1>2, <1>3
     DEF EntitiesWait, Redacting, Rules, EntitiesOf, Matched, Answered, Valid
<1> QED
  BY <1>8, <1>9, <1>10, <1>11, <1>12 DEF IInv

\* A detector whose rules and entities are through has broken all its findings.
\* When only entities are left, what the rules of the detector found is gone.
LEMMA RulesAreThrough ==
  ASSUME IInv, phase = "entities"
  PROVE  Gone(Finds(turn), text)
<1>1. Situated /\ Redacting /\ rule \notin DOMAIN Rules
  BY DEF IInv, EntitiesWait
<1>2. Rules \in Seq(Pattern)
  BY <1>1, FindingsAreSpans DEF Redacting, Rules
<1>3. DOMAIN Rules = 1..Len(Rules) /\ Len(Rules) \in Nat
  BY <1>2, LenProperties
<1>4. \A q \in DOMAIN Rules : q < rule
  BY <1>1, <1>3 DEF Situated
<1> QED
  BY <1>1, <1>4 DEF IInv, GoneAbove, Gone, Finds, ToSet, Rules

LEMMA NextDetectorKeeps == IInv /\ NextDetector => IInv'
<1> SUFFICES ASSUME IInv, NextDetector
             PROVE  IInv'
  OBVIOUS
<1>1. /\ Situated /\ phase = "entities" /\ phase' = "rules"
      /\ before' = text /\ turn' = turn + 1 /\ rule' = 1 /\ at' = 1
      /\ UNCHANGED <<setup, content, detectors, results, decision, text, spoiled>>
  BY DEF IInv, NextDetector, fixed, inspected
<1>2. Redacting
  BY <1>1 DEF IInv, EntitiesWait
<1>3. Situated'
  <2>1. turn' \in Nat \ {0} /\ rule' \in Nat \ {0} /\ at' \in Nat \ {0}
    BY <1>1 DEF Situated
  <2> QED
    BY <1>1, <2>1 DEF Situated, Phase, AllBuilt, Built, Replies, Reply
<1>4. Gone(Finds(turn), text)
  BY <1>1, RulesAreThrough
<1>5. GoneBehind'
  <2> SUFFICES ASSUME NEW i \in DOMAIN detectors, Redacted(i)'
               PROVE  Gone(Finds(i), text)
    BY <1>1 DEF GoneBehind, Finds, Gone
  <2>1. i \in Nat /\ turn \in Nat
    <3>1. DOMAIN detectors = 1..Len(setup.options) /\ Len(setup.options) \in Nat
      BY <1>1, LenProperties, SetupsAssumption DEF Situated
    <3> QED
      BY <1>1, <3>1 DEF Situated
  <2>2. decision = "redact" /\ i < turn + 1 /\ i \notin spoiled
    BY <1>1 DEF Redacted
  <2>3. i = turn \/ i < turn
    BY <2>1, <2>2
  <2> QED
    BY <1>4, <2>2, <2>3 DEF IInv, GoneBehind, Redacted
<1>6. \A q \in DOMAIN Rules' : q \in Nat \ {0} \/ ~Redacting'
  BY <1>1, FindingsAreSpans DEF Redacting, Rules
<1>7. GoneAbove' /\ GoneLeft' /\ EntitiesWait'
  BY <1>1, <1>6 DEF GoneAbove, GoneLeft, EntitiesWait
<1> QED
  BY <1>3, <1>5, <1>7 DEF IInv

LEMMA HandOnKeeps == IInv /\ HandOn => IInv'
<1> SUFFICES ASSUME IInv, HandOn
             PROVE  IInv'
  OBVIOUS
<1>1. /\ Situated /\ phase' = "done"
      /\ UNCHANGED <<setup, content, detectors, results, decision, text, before,
                     turn, rule, at, spoiled>>
  BY DEF IInv, HandOn, End, fixed, inspected
<1>2. Situated'
  BY <1>1 DEF Situated, Phase, AllBuilt, Built, Replies, Reply
<1>3. GoneBehind'
  BY <1>1 DEF IInv, GoneBehind, Redacted, Finds, Gone
<1>4. GoneAbove' /\ GoneLeft' /\ EntitiesWait'
  BY <1>1 DEF GoneAbove, GoneLeft, EntitiesWait
<1> QED
  BY <1>2, <1>3, <1>4 DEF IInv

LEMMA StutteringKeeps == IInv /\ UNCHANGED vars => IInv'
<1> SUFFICES ASSUME IInv, UNCHANGED vars
             PROVE  IInv'
  OBVIOUS
<1>1. UNCHANGED <<setup, content, phase, detectors, results, decision, text, before,
                  turn, rule, at, todo, spoiled>>
  BY DEF vars
<1>2. Situated'
  BY <1>1 DEF IInv, Situated, Phase, AllBuilt, Built, Replies, Reply
<1>3. GoneBehind' /\ GoneAbove' /\ GoneLeft'
  BY <1>1 DEF IInv, GoneBehind, GoneAbove, GoneLeft, Redacted, Redacting, Rules, Finds, Gone
<1>4. EntitiesWait'
  BY <1>1 DEF IInv, EntitiesWait, Redacting, Rules, EntitiesOf, Matched, Answered, Valid
<1> QED
  BY <1>2, <1>3, <1>4 DEF IInv

\* The invariant holds all along a redaction.
THEOREM RedactionInvariant == Spec => []IInv
<1>1. Init => IInv
  BY InitSituated
<1>2. IInv /\ [Next]_vars => IInv'
  BY BuildGuardKeeps, InspectNextKeeps, EnforceKeeps, ReplaceMatchKeeps, NextRuleKeeps,
     CheckEntitiesKeeps, RedactionFailsKeeps, ReplaceEntityKeeps, NextDetectorKeeps,
     HandOnKeeps, StutteringKeeps DEF Next, Terminated
<1> QED
  BY <1>1, <1>2, PTL DEF Spec

\* Whatever the guard, the content and the markers: what a rule of a redacting
\* detector found does not stand in the text any more once that detector is
\* through, and neither another detector nor one that fails brings it back
\* (detector.py: redact; agent_guard.py: apply_redactions).
THEOREM FindingsStayBroken == Spec => []RuleFindingsBroken
<1>1. IInv => RuleFindingsBroken
  BY DEF IInv, GoneBehind, RuleFindingsBroken, Gone
<1> QED
  BY <1>1, RedactionInvariant, PTL
-----------------------------------------------------------------------------
(* Entities whose offsets hold *)

\* Up to position last a text is as it was, but for markers, and what was up to
\* there is nowhere else.
InPlace(last, t) ==
  \A p \in 1..Len(t) :
    \/ t[p] = Mark
    \/ p <= last /\ t[p] = p
    \/ last < p /\ last < t[p]

\* Where a cell of the rewritten text comes from: the marker, or the text on the
\* same side of it.
LEMMA SpliceSources ==
  ASSUME NEW t \in Seq(Nat), NEW start \in Nat, NEW end \in Nat, start <= end,
         NEW marker \in Nat \ {0}
  PROVE  LET s == Splice(t, start, end, marker)
         IN  \A j \in 1..Len(s) :
               \/ s[j] = Mark
               \/ j <= start /\ j \in 1..Len(t) /\ s[j] = t[j]
               \/ start < j /\ \E q \in end + 1..Len(t) : s[j] = t[q]
<1> DEFINE front == FrontOf(t, start)
           back == BackOf(t, end)
           s == Splice(t, start, end, marker)
<1>0. Len(t) \in Nat
  BY LenProperties
<1>1. front \in 0..Len(t) /\ back \in Nat /\ front <= start
  BY <1>0 DEF FrontOf, BackOf
<1>2. /\ s \in Seq(Nat)
      /\ Len(s) = front + marker + back
      /\ \A i \in 1..front : s[i] = t[i]
      /\ \A i \in front + 1..front + marker : s[i] = Mark
      /\ \A i \in front + marker + 1..Len(s) : s[i] = t[i - front - marker + end]
  BY SpliceProperties
<1>3. back > 0 => end < Len(t) /\ back = Len(t) - end /\ front = start
  BY <1>0 DEF FrontOf, BackOf
<1> HIDE DEF front, back, s
<1>4. SUFFICES ASSUME NEW j \in 1..Len(s)
               PROVE  \/ s[j] = Mark
                      \/ j <= start /\ j \in 1..Len(t) /\ s[j] = t[j]
                      \/ start < j /\ \E q \in end + 1..Len(t) : s[j] = t[q]
  BY DEF s
<1>5. CASE j \in 1..front
  BY <1>0, <1>1, <1>2, <1>5
<1>6. CASE j \in front + 1..front + marker
  BY <1>2, <1>6
<1>7. CASE j \in front + marker + 1..Len(s)
  <2> DEFINE q == j - front - marker + end
  <2>1. s[j] = t[q]
    BY <1>2, <1>7
  <2>2. j \in Nat /\ front + marker < j /\ j <= front + marker + back
    BY <1>1, <1>2, <1>7
  <2>3. back > 0
    BY <1>1, <2>2
  <2>4. q \in end + 1..Len(t) /\ start < j
    BY <1>0, <1>1, <1>3, <2>2, <2>3
  <2> QED
    BY <2>1, <2>4
<1> QED
  BY <1>1, <1>2, <1>4, <1>5, <1>6, <1>7

\* The characters of an entity that is in place are gone with it, ...
LEMMA EntityReplaced ==
  ASSUME NEW t \in Seq(Nat), NEW e \in Span, e.start < e.end, NEW marker \in Nat \ {0},
         InPlace(e.end, t)
  PROVE  Cells(e) \cap ToSet(Splice(t, e.start, e.end, marker)) = {}
<1> DEFINE s == Splice(t, e.start, e.end, marker)
<1>0. Len(t) \in Nat /\ e.start \in Nat /\ e.end \in Nat
  BY LenProperties DEF Span
<1>1. s \in Seq(Nat)
  BY <1>0, SpliceProperties
<1>a. \A j \in 1..Len(s) :
        \/ s[j] = Mark
        \/ j <= e.start /\ j \in 1..Len(t) /\ s[j] = t[j]
        \/ e.start < j /\ \E q \in e.end + 1..Len(t) : s[j] = t[q]
  BY <1>0, SpliceSources
<1> HIDE DEF s
<1>2. ASSUME NEW j \in 1..Len(s)
      PROVE  s[j] \notin Cells(e)
  <2>1. CASE s[j] = Mark
    BY <1>0, <2>1 DEF Mark, Cells
  <2>2. CASE j <= e.start /\ j \in 1..Len(t) /\ s[j] = t[j]
    <3>1. t[j] = Mark \/ t[j] = j
      BY <1>0, <2>2 DEF InPlace
    <3> QED
      BY <1>0, <2>2, <3>1 DEF Mark, Cells
  <2>3. ASSUME NEW q \in e.end + 1..Len(t), s[j] = t[q]
        PROVE  s[j] \notin Cells(e)
    <3>1. q \in 1..Len(t) /\ e.end < q
      BY <1>0
    <3>2. t[q] = Mark \/ e.end < t[q]
      BY <1>0, <3>1 DEF InPlace
    <3>3. t[q] \in Nat
      BY <3>1, ElementOfSeq
    <3> QED
      BY <1>0, <2>3, <3>2, <3>3 DEF Mark, Cells
  <2> QED
    BY <1>a, <2>1, <2>2, <2>3
<1>3. DOMAIN s = 1..Len(s)
  BY <1>1, LenProperties
<1> QED
  BY <1>2, <1>3 DEF ToSet, s

\* ... what ends where it begins, or before, stays in place, ...
LEMMA StaysInPlace ==
  ASSUME NEW t \in Seq(Nat), NEW e \in Span, e.start < e.end, NEW marker \in Nat \ {0},
         NEW last \in Nat, last <= e.start, InPlace(last, t)
  PROVE  InPlace(last, Splice(t, e.start, e.end, marker))
<1> DEFINE s == Splice(t, e.start, e.end, marker)
<1>0. Len(t) \in Nat /\ e.start \in Nat /\ e.end \in Nat /\ e.start <= e.end
  BY LenProperties DEF Span
<1>a. \A j \in 1..Len(s) :
        \/ s[j] = Mark
        \/ j <= e.start /\ j \in 1..Len(t) /\ s[j] = t[j]
        \/ e.start < j /\ \E q \in e.end + 1..Len(t) : s[j] = t[q]
  BY <1>0, SpliceSources
<1>b. s \in Seq(Nat) /\ Len(s) \in Nat
  BY <1>0, SpliceProperties, LenProperties
<1> HIDE DEF s
<1> SUFFICES ASSUME NEW j \in 1..Len(s), s[j] # Mark
             PROVE  (j <= last /\ s[j] = j) \/ (last < j /\ last < s[j])
  BY DEF InPlace, s
<1>1. CASE j <= e.start /\ j \in 1..Len(t) /\ s[j] = t[j]
  BY <1>1 DEF InPlace
<1>2. ASSUME e.start < j, NEW q \in e.end + 1..Len(t), s[j] = t[q]
      PROVE  last < j /\ last < s[j]
  <2>2. q \in 1..Len(t) /\ last < q /\ last < j
    BY <1>0, <1>b, <1>2
  <2>3. t[q] # Mark /\ ~(q <= last)
    BY <1>2, <2>2
  <2> QED
    BY <1>2, <2>2, <2>3 DEF InPlace
<1> QED
  BY <1>a, <1>1, <1>2

\* ... and no character comes back.
LEMMA SpliceBringsNoCell ==
  ASSUME NEW t \in Seq(Nat), NEW start \in Nat, NEW end \in Nat, start <= end,
         NEW marker \in Nat \ {0}
  PROVE  ToSet(Splice(t, start, end, marker)) \subseteq ToSet(t) \cup {Mark}
<1> DEFINE s == Splice(t, start, end, marker)
<1>1. s \in Seq(Nat) /\ DOMAIN s = 1..Len(s)
  BY SpliceProperties, LenProperties
<1>2. Len(t) \in Nat /\ DOMAIN t = 1..Len(t)
  BY LenProperties
<1>a. \A j \in 1..Len(s) :
        \/ s[j] = Mark
        \/ j <= start /\ j \in 1..Len(t) /\ s[j] = t[j]
        \/ start < j /\ \E q \in end + 1..Len(t) : s[j] = t[q]
  BY SpliceSources
<1> HIDE DEF s
<1>3. ASSUME NEW j \in 1..Len(s)
      PROVE  s[j] = Mark \/ \E q \in 1..Len(t) : s[j] = t[q]
  <2>1. end + 1..Len(t) \subseteq 1..Len(t)
    BY <1>2
  <2> QED
    BY <1>a, <2>1
<1> QED
  BY <1>1, <1>2, <1>3 DEF ToSet, s

\* Of entities that do not overlap, the last one begins where the others have ended.
LEMMA LastBeginsBehind ==
  ASSUME NEW entities, Disjoint(entities), NEW set \in SUBSET DOMAIN entities,
         \A k \in set : entities[k] \in Span /\ entities[k].start < entities[k].end,
         NEW i \in LastOf(entities, set), NEW j \in set, i # j
  PROVE  entities[j].end <= entities[i].start
<1> DEFINE e == entities[i]
           f == entities[j]
<1>1. i \in set /\ f.start <= e.start
  BY DEF LastOf, Span
<1>2. /\ e.start \in Nat /\ e.end \in Nat /\ e.start < e.end
      /\ f.start \in Nat /\ f.end \in Nat /\ f.start < f.end
  BY <1>1 DEF Span
<1>3. Cells(e) \cap Cells(f) = {}
  BY <1>1 DEF Disjoint
<1>4. e.start + 1 \notin Cells(f)
  BY <1>2, <1>3 DEF Cells
<1> QED
  BY <1>1, <1>2, <1>4 DEF Cells

\* Nobody before detector i, nor i's own rules, rewrite anything.
Untouched(i) ==
  /\ \A j \in 1..i : Finds(j) = {}
  /\ \A j \in 1..i - 1 : DOMAIN EntitiesOf(j) = {}

\* Until then the text is the content, ...
NotYet ==
  /\ phase \in {"construct", "inspect"} => text = Original
  /\ phase = "rules" /\ Redacting /\ Untouched(turn) => text = Original
  /\ phase = "entities" /\ Untouched(turn) /\ todo = DOMAIN EntitiesOf(turn) =>
       text = Original

\* ... the entities that are not replaced yet are where their offsets say, ...
HalfWay ==
  phase = "entities" /\ Untouched(turn) /\ Disjoint(EntitiesOf(turn)) =>
    \A k \in DOMAIN EntitiesOf(turn) :
      IF k \in todo THEN InPlace(EntitiesOf(turn)[k].end, text)
                    ELSE Cells(EntitiesOf(turn)[k]) \cap ToSet(text) = {}

\* ... and those of the detectors before are in no text that may go on.
HiddenBehind ==
  \A i \in DOMAIN detectors :
    Redacted(i) /\ Untouched(i) /\ Disjoint(EntitiesOf(i)) =>
      /\ EntityCells(i) \cap ToSet(text) = {}
      /\ EntityCells(i) \cap ToSet(before) = {}

EInv == NotYet /\ HalfWay /\ HiddenBehind

LEMMA DetectorsCounted ==
  ASSUME Situated, phase \in {"inspect", "rules", "entities"}
  PROVE  /\ DOMAIN detectors \subseteq Nat \ {0}
         /\ turn \in Nat \ {0}
<1>1. DOMAIN detectors = DOMAIN setup.options
  BY DEF Situated
<1>2. DOMAIN setup.options = 1..Len(setup.options) /\ Len(setup.options) \in Nat
  BY LenProperties, SetupsAssumption DEF Situated
<1> QED
  BY <1>1, <1>2 DEF Situated

\* Markers are no part of an entity.
LEMMA NoMarkInCells ==
  ASSUME Situated, NEW i
  PROVE  Mark \notin EntityCells(i)
<1> SUFFICES ASSUME NEW k \in DOMAIN EntitiesOf(i)
             PROVE  Mark \notin Cells(EntitiesOf(i)[k])
  BY DEF EntityCells
<1>1. EntitiesOf(i)[k].start \in Nat /\ EntitiesOf(i)[k].end \in Nat
  BY EntitiesAreSpans DEF Span
<1> QED
  BY <1>1 DEF Mark, Cells

\* Another replacement does not bring hidden characters back.
LEMMA HiddenStaysHidden ==
  ASSUME NEW t \in Seq(Nat), NEW start \in Nat, NEW end \in Nat, start <= end,
         NEW marker \in Nat \ {0}, NEW cells, Mark \notin cells, cells \cap ToSet(t) = {}
  PROVE  cells \cap ToSet(Splice(t, start, end, marker)) = {}
<1>1. ToSet(Splice(t, start, end, marker)) \subseteq ToSet(t) \cup {Mark}
  BY SpliceBringsNoCell
<1> QED
  BY <1>1

LEMMA OriginalInPlace ==
  ASSUME Situated, NEW last \in Nat
  PROVE  InPlace(last, Original)
<1>1. content.length \in Nat
  BY ContentsAssumption DEF Situated
<1>2. Len(Original) = content.length
  BY <1>1 DEF Original
<1> QED
  BY <1>1, <1>2 DEF InPlace, Original

\* What a detector found and was told does not change any more.
LEMMA HiddenIfKept ==
  ASSUME UNCHANGED <<content, detectors, results>>,
         \A i \in DOMAIN detectors :
           Redacted(i)' /\ Untouched(i) /\ Disjoint(EntitiesOf(i)) =>
             /\ EntityCells(i) \cap ToSet(text') = {}
             /\ EntityCells(i) \cap ToSet(before') = {}
  PROVE  HiddenBehind'
<1> SUFFICES ASSUME NEW i \in DOMAIN detectors, Redacted(i)', Untouched(i)',
                    Disjoint(EntitiesOf(i))'
             PROVE  /\ EntityCells(i)' \cap ToSet(text') = {}
                    /\ EntityCells(i)' \cap ToSet(before') = {}
  BY DEF HiddenBehind
<1>1. \A j : EntitiesOf(j)' = EntitiesOf(j)
  BY DEF EntitiesOf, Matched, Answered
<1>2. EntityCells(i)' = EntityCells(i)
  BY <1>1 DEF EntityCells
<1>3. Disjoint(EntitiesOf(i))
  BY <1>1 DEF Disjoint
<1>4. Untouched(i)
  <2>1. \A j : Finds(j)' = Finds(j)
    BY DEF Finds
  <2> QED
    BY <1>1, <2>1 DEF Untouched
<1> QED
  BY <1>2, <1>3, <1>4

LEMMA InitEInv == Init => EInv
  BY DEF Init, EInv, NotYet, HalfWay, HiddenBehind, Redacted

LEMMA BuildGuardHides == IInv /\ EInv /\ BuildGuard => EInv'
<1> SUFFICES ASSUME IInv, EInv, BuildGuard
             PROVE  EInv'
  OBVIOUS
<1>1. /\ decision' = "none" /\ phase' \in {"inspect", "done"}
      /\ text' = text /\ content' = content /\ text = Original
  BY DEF IInv, Situated, EInv, NotYet, BuildGuard, End, fixed
<1> QED
  BY <1>1 DEF EInv, NotYet, HalfWay, HiddenBehind, Redacted, Original

LEMMA InspectNextHides == IInv /\ EInv /\ InspectNext => EInv'
<1> SUFFICES ASSUME IInv, EInv, InspectNext
             PROVE  EInv'
  OBVIOUS
<1>1. /\ decision' = "none" /\ phase' = "inspect"
      /\ text' = text /\ content' = content /\ text = Original
  BY DEF IInv, Situated, EInv, NotYet, InspectNext, fixed
<1> QED
  BY <1>1 DEF EInv, NotYet, HalfWay, HiddenBehind, Redacted, Original

LEMMA EnforceHides == IInv /\ EInv /\ Enforce => EInv'
<1> SUFFICES ASSUME IInv, EInv, Enforce
             PROVE  EInv'
  OBVIOUS
<1>1. /\ phase' \in {"rules", "done"} /\ turn' = 1 /\ text = Original
      /\ UNCHANGED <<content, detectors, text>>
  BY DEF EInv, NotYet, Enforce, End, fixed
<1>2. \A i \in DOMAIN detectors : ~(i < 1)
  BY DetectorsCounted DEF IInv, Enforce
<1> QED
  BY <1>1, <1>2 DEF EInv, NotYet, HalfWay, HiddenBehind, Redacted, Original

\* A rule of a detector before which nothing is rewritten found something.
LEMMA ReplaceMatchHides == IInv /\ EInv /\ ReplaceMatch => EInv'
<1> SUFFICES ASSUME IInv, EInv, ReplaceMatch
             PROVE  EInv'
  OBVIOUS
<1>1. /\ Situated /\ phase = "rules" /\ Redacting /\ rule \in DOMAIN Rules
      /\ UNCHANGED <<setup, content, phase, detectors, results, decision, before,
                     turn, spoiled>>
  BY DEF IInv, ReplaceMatch, fixed, inspected
<1>2. PICK k \in Starts, f \in content.finds[Rules[rule]] :
        text' = Splice(text, k - 1, k - 1 + Width(f), MarkerLength[Rules[rule]])
  BY DEF ReplaceMatch
<1>3. f \in Finds(turn)
  BY <1>1, <1>2 DEF Finds, Rules, ToSet
<1>4. ~Untouched(turn)
  <2>1. turn \in 1..turn
    BY <1>1 DEF Situated
  <2> QED
    BY <1>3, <2>1 DEF Untouched
<1>5. NotYet' /\ HalfWay'
  BY <1>1, <1>4 DEF NotYet, HalfWay, Untouched, Finds, EntitiesOf, Matched, Answered, Redacting
<1>6. HiddenBehind'
  <2> SUFFICES ASSUME NEW i \in DOMAIN detectors, Redacted(i), Untouched(i),
                      Disjoint(EntitiesOf(i))
               PROVE  /\ EntityCells(i) \cap ToSet(text') = {}
                      /\ EntityCells(i) \cap ToSet(before) = {}
    BY <1>1, HiddenIfKept DEF Redacted
  <2>1. /\ EntityCells(i) \cap ToSet(text) = {}
        /\ EntityCells(i) \cap ToSet(before) = {}
    BY DEF EInv, HiddenBehind
  <2>2. k \in Nat \ {0} /\ text \in Seq(Nat)
    BY <1>1, LenProperties DEF Situated, Starts
  <2>3. Width(f) \in Nat /\ MarkerLength[Rules[rule]] \in Nat \ {0}
    BY <1>1, <1>2, FindingsAreSpans DEF Redacting, Rules, Span, Width
  <2>4. EntityCells(i) \cap ToSet(text') = {}
    <3>1. k - 1 \in Nat /\ k - 1 + Width(f) \in Nat /\ k - 1 <= k - 1 + Width(f)
      BY <2>2, <2>3
    <3> QED
      BY <1>1, <1>2, <2>1, <2>2, <2>3, <3>1, NoMarkInCells, HiddenStaysHidden
  <2> QED
    BY <2>1, <2>4
<1> QED
  BY <1>5, <1>6 DEF EInv

LEMMA NextRuleHides == IInv /\ EInv /\ NextRule => EInv'
<1> SUFFICES ASSUME EInv, NextRule
             PROVE  EInv'
  OBVIOUS
<1>1. UNCHANGED <<content, phase, detectors, results, decision, text, before, turn,
                  todo, spoiled>>
  BY DEF NextRule, fixed, inspected
<1>2. NotYet'
  BY <1>1 DEF EInv, NotYet, Untouched, Finds, EntitiesOf, Matched, Answered, Redacting,
              Original
<1>3. HalfWay'
  BY <1>1 DEF NextRule, HalfWay
<1>4. HiddenBehind'
  BY <1>1, HiddenIfKept DEF EInv, HiddenBehind, Redacted
<1> QED
  BY <1>2, <1>3, <1>4 DEF EInv

\* The entities are put where they say in the text their offsets refer to.
LEMMA CheckEntitiesHides == IInv /\ EInv /\ CheckEntities => EInv'
<1> SUFFICES ASSUME IInv, EInv, CheckEntities
             PROVE  EInv'
  OBVIOUS
<1>1. /\ Situated /\ phase = "rules" /\ Redacting
      /\ phase' = "entities" /\ todo' = DOMAIN EntitiesOf(turn)
      /\ UNCHANGED <<content, detectors, results, decision, text, before, turn, spoiled>>
  BY DEF IInv, CheckEntities, fixed, inspected
<1>2. Untouched(turn) => text = Original
  BY <1>1 DEF EInv, NotYet
<1>3. NotYet'
  BY <1>1, <1>2 DEF NotYet, Untouched, Finds, EntitiesOf, Matched, Answered, Original
<1>4. HalfWay'
  <2> SUFFICES ASSUME Untouched(turn), NEW k \in DOMAIN EntitiesOf(turn)
               PROVE  InPlace(EntitiesOf(turn)[k].end, text)
    BY <1>1 DEF HalfWay, Untouched, Finds, EntitiesOf, Matched, Answered, Disjoint
  <2>1. EntitiesOf(turn)[k].end \in Nat
    BY <1>1, EntitiesAreSpans DEF Span
  <2> QED
    BY <1>1, <1>2, <2>1, OriginalInPlace
<1>5. HiddenBehind'
  BY <1>1, HiddenIfKept DEF EInv, HiddenBehind, Redacted
<1> QED
  BY <1>3, <1>4, <1>5 DEF EInv

\* A detector that fails has entities: behind it the text need not be the content.
LEMMA RedactionFailsHides == IInv /\ EInv /\ RedactionFails => EInv'
<1> SUFFICES ASSUME IInv, EInv, RedactionFails
             PROVE  EInv'
  OBVIOUS
<1>1. /\ Situated /\ phase = "rules" /\ Redacting /\ ~Valid(EntitiesOf(turn))
      /\ text' = before /\ spoiled' = spoiled \cup {turn}
      /\ \/ turn' = turn + 1 /\ phase' = phase
         \/ phase' = "done" /\ turn' = turn
      /\ UNCHANGED <<content, detectors, results, decision, before>>
  BY DEF IInv, RedactionFails, End, fixed, inspected
<1>2. turn \in Nat /\ DOMAIN detectors \subseteq Nat
  BY <1>1, DetectorsCounted
<1>3. ~Untouched(turn + 1)
  <2>1. DOMAIN EntitiesOf(turn) # {}
    BY <1>1 DEF Valid
  <2>2. turn \in 1..(turn + 1) - 1
    BY <1>1 DEF Situated
  <2> QED
    BY <2>1, <2>2 DEF Untouched
<1>4. phase' = "rules" => ~Untouched(turn)'
  BY <1>1, <1>3 DEF Untouched, Finds, EntitiesOf, Matched, Answered
<1>5. NotYet' /\ HalfWay'
  BY <1>1, <1>4 DEF NotYet, HalfWay
<1>6. HiddenBehind'
  <2> SUFFICES ASSUME NEW i \in DOMAIN detectors, Redacted(i)', Untouched(i),
                      Disjoint(EntitiesOf(i))
               PROVE  EntityCells(i) \cap ToSet(before) = {}
    BY <1>1, HiddenIfKept
  <2>1. Redacted(i)
    BY <1>1, <1>2 DEF Redacted
  <2> QED
    BY <2>1 DEF EInv, HiddenBehind
<1> QED
  BY <1>5, <1>6 DEF EInv

\* From the back: what is still to come stays in place, what is gone stays gone.
LEMMA ReplaceEntityHides == IInv /\ EInv /\ ReplaceEntity => EInv'
<1> SUFFICES ASSUME IInv, EInv, ReplaceEntity
             PROVE  EInv'
  OBVIOUS
<1>1. /\ Situated /\ phase = "entities"
      /\ UNCHANGED <<content, phase, detectors, results, decision, before, turn, spoiled>>
  BY DEF IInv, ReplaceEntity, fixed, inspected
<1>2. /\ Valid(EntitiesOf(turn)) /\ todo \subseteq DOMAIN EntitiesOf(turn)
      /\ text \in Seq(Nat) /\ MarkerLength[None] \in Nat \ {0}
  BY <1>1, MarkerAssumption DEF IInv, Situated, EntitiesWait
<1> DEFINE E == EntitiesOf(turn)
<1>3. PICK i \in LastOf(E, todo) :
        /\ text' = Splice(text, E[i].start, E[i].end, MarkerLength[None])
        /\ todo' = todo \ {i}
  BY DEF ReplaceEntity
<1>4. i \in todo /\ i \in DOMAIN E
  BY <1>2, <1>3 DEF LastOf
<1>5. \A k \in DOMAIN E : E[k] \in Span /\ E[k].start < E[k].end
  <2> SUFFICES ASSUME NEW k \in DOMAIN E
               PROVE  E[k] \in Span /\ E[k].start < E[k].end
    OBVIOUS
  <2>1. E[k] \in Span /\ E[k].start # E[k].end
    BY <1>1, EntitiesAreSpans
  <2>2. E[k].start <= E[k].end
    BY <1>2 DEF Valid
  <2> QED
    BY <2>1, <2>2 DEF Span
<1>6. E[i].start \in Nat /\ E[i].end \in Nat /\ E[i].start <= E[i].end
  BY <1>4, <1>5 DEF Span
<1>7. ASSUME NEW cells, Mark \notin cells, cells \cap ToSet(text) = {}
      PROVE  cells \cap ToSet(text') = {}
  BY <1>2, <1>3, <1>6, <1>7, HiddenStaysHidden
<1>8. NotYet'
  BY <1>1, <1>3, <1>4 DEF NotYet, EntitiesOf, Matched, Answered
<1>9. HalfWay'
  <2> SUFFICES ASSUME Untouched(turn), Disjoint(E), NEW k \in DOMAIN E
               PROVE  IF k \in todo' THEN InPlace(E[k].end, text')
                                     ELSE Cells(E[k]) \cap ToSet(text') = {}
    BY <1>1 DEF HalfWay, Untouched, Finds, EntitiesOf, Matched, Answered, Disjoint
  <2>1. /\ k \in todo => InPlace(E[k].end, text)
        /\ k \notin todo => Cells(E[k]) \cap ToSet(text) = {}
        /\ InPlace(E[i].end, text)
    BY <1>1, <1>4 DEF EInv, HalfWay
  <2>2. CASE k = i
    BY <1>2, <1>3, <1>4, <1>5, <2>1, <2>2, EntityReplaced
  <2>3. CASE k \in todo /\ k # i
    <3>1. E[k].end <= E[i].start /\ E[k].end \in Nat
      BY <1>2, <1>3, <1>5, <2>3, LastBeginsBehind DEF Span
    <3>2. InPlace(E[k].end, text')
      BY <1>2, <1>3, <1>4, <1>5, <2>1, <2>3, <3>1, StaysInPlace
    <3> QED
      BY <1>3, <2>3, <3>2
  <2>4. CASE k \notin todo
    <3>1. Mark \notin Cells(E[k])
      BY <1>1, NoMarkInCells DEF EntityCells
    <3> QED
      BY <1>3, <1>7, <2>1, <2>4, <3>1
  <2> QED
    BY <2>2, <2>3, <2>4
<1>10. HiddenBehind'
  <2> SUFFICES ASSUME NEW l \in DOMAIN detectors, Redacted(l), Untouched(l),
                      Disjoint(EntitiesOf(l))
               PROVE  /\ EntityCells(l) \cap ToSet(text') = {}
                      /\ EntityCells(l) \cap ToSet(before) = {}
    BY <1>1, HiddenIfKept DEF Redacted
  <2>1. /\ EntityCells(l) \cap ToSet(text) = {}
        /\ EntityCells(l) \cap ToSet(before) = {}
    BY DEF EInv, HiddenBehind
  <2> QED
    BY <1>1, <1>7, <2>1, NoMarkInCells
<1> QED
  BY <1>8, <1>9, <1>10 DEF EInv

LEMMA NextDetectorHides == IInv /\ EInv /\ NextDetector => EInv'
<1> SUFFICES ASSUME IInv, EInv, NextDetector
             PROVE  EInv'
  OBVIOUS
<1>1. /\ Situated /\ phase = "entities" /\ todo = {} /\ phase' = "rules"
      /\ before' = text /\ turn' = turn + 1
      /\ UNCHANGED <<content, detectors, results, decision, text, spoiled>>
  BY DEF IInv, NextDetector, fixed, inspected
<1>2. turn \in Nat \ {0} /\ DOMAIN detectors \subseteq Nat
  BY <1>1, DetectorsCounted
<1>3. Untouched(turn + 1) => text = Original
  <2> SUFFICES ASSUME Untouched(turn + 1)
               PROVE  text = Original
    OBVIOUS
  <2>1. Untouched(turn) /\ DOMAIN EntitiesOf(turn) = {}
    <3>1. /\ 1..turn \subseteq 1..turn + 1
          /\ 1..turn - 1 \subseteq 1..(turn + 1) - 1
          /\ turn \in 1..(turn + 1) - 1
      BY <1>2
    <3> QED
      BY <3>1 DEF Untouched
  <2> QED
    BY <1>1, <2>1 DEF EInv, NotYet
<1>4. NotYet' /\ HalfWay'
  <2>1. Untouched(turn)' => Untouched(turn + 1)
    BY <1>1 DEF Untouched, Finds, EntitiesOf, Matched, Answered
  <2> QED
    BY <1>1, <1>3, <2>1 DEF NotYet, HalfWay, Original
<1>5. HiddenBehind'
  <2> SUFFICES ASSUME NEW i \in DOMAIN detectors, Redacted(i)', Untouched(i),
                      Disjoint(EntitiesOf(i))
               PROVE  EntityCells(i) \cap ToSet(text) = {}
    BY <1>1, HiddenIfKept
  <2>1. Redacted(i) \/ i = turn
    BY <1>1, <1>2 DEF Redacted
  <2>2. CASE Redacted(i)
    BY <2>2 DEF EInv, HiddenBehind
  <2>3. CASE i = turn
    <3>1. \A k \in DOMAIN EntitiesOf(i) : Cells(EntitiesOf(i)[k]) \cap ToSet(text) = {}
      BY <1>1, <2>3 DEF EInv, HalfWay
    <3> QED
      BY <3>1 DEF EntityCells
  <2> QED
    BY <2>1, <2>2, <2>3
<1> QED
  BY <1>4, <1>5 DEF EInv

LEMMA HandOnHides == IInv /\ EInv /\ HandOn => EInv'
<1> SUFFICES ASSUME EInv, HandOn
             PROVE  EInv'
  OBVIOUS
<1>1. /\ phase' = "done"
      /\ UNCHANGED <<content, detectors, results, decision, text, before, turn, spoiled>>
  BY DEF HandOn, End, fixed, inspected
<1>2. HiddenBehind'
  BY <1>1, HiddenIfKept DEF EInv, HiddenBehind, Redacted
<1> QED
  BY <1>1, <1>2 DEF EInv, NotYet, HalfWay

LEMMA StutteringHides == IInv /\ EInv /\ UNCHANGED vars => EInv'
<1> SUFFICES ASSUME EInv, UNCHANGED vars
             PROVE  EInv'
  OBVIOUS
<1>1. UNCHANGED <<content, phase, detectors, results, decision, text, before, turn,
                  todo, spoiled>>
  BY DEF vars
<1>2. NotYet'
  BY <1>1 DEF EInv, NotYet, Untouched, Finds, EntitiesOf, Matched, Answered, Redacting,
              Original
<1>3. HalfWay'
  BY <1>1 DEF EInv, HalfWay, Untouched, Finds, EntitiesOf, Matched, Answered, Disjoint
<1>4. HiddenBehind'
  BY <1>1, HiddenIfKept DEF EInv, HiddenBehind, Redacted
<1> QED
  BY <1>2, <1>3, <1>4 DEF EInv

\* Where entities are while they are replaced, and where they are afterwards, in
\* every reachable state.
THEOREM HidingInvariant == Spec => []EInv
<1>1. Init => EInv
  BY InitEInv
<1>2. IInv /\ EInv /\ [Next]_vars => EInv'
  BY BuildGuardHides, InspectNextHides, EnforceHides, ReplaceMatchHides, NextRuleHides,
     CheckEntitiesHides, RedactionFailsHides, ReplaceEntityHides, NextDetectorHides,
     HandOnHides, StutteringHides DEF Next, Terminated
<1> QED
  BY <1>1, <1>2, RedactionInvariant, PTL DEF Spec

\* Whatever the guard, the content and the markers: where nothing has been
\* rewritten before and no two entities overlap, none of their characters is left
\* when their detector is through, nor comes back (detector.py: redact replaces
\* them from the back; agent_guard.py: apply_redactions).
THEOREM ExactEntitiesStayGone == Spec => []EntitiesGoneIfExact
<1>1. EInv => EntitiesGoneIfExact
  <2>1. ASSUME NEW i, OffsetsHold(i)
        PROVE  Untouched(i) /\ Disjoint(EntitiesOf(i))
    BY <2>1 DEF OffsetsHold, ExactAt, Untouched
  <2> QED
    BY <2>1 DEF EInv, HiddenBehind, EntitiesGoneIfExact
<1> QED
  BY <1>1, HidingInvariant, PTL
-----------------------------------------------------------------------------
(* The state of a call *)

\* What was decided was decided on what the configured detectors answered.
Settled ==
  decision # "none" =>
    /\ AllBuilt
    /\ detectors = [i \in DOMAIN setup.options |-> Built(i)]
    /\ results = [i \in DOMAIN setup.options |-> Reply(i)]
    /\ decision = Decided

\* How far the call has come, and how it ended.
Progress ==
  /\ turn \in 1..Len(setup.options) + 1
  /\ outcome \in {"none", "refused", "stopped", "passed"}
  /\ phase = "done" <=> outcome # "none"
  /\ phase = "construct" => turn = 1 /\ results = <<>>
  /\ phase = "inspect" => results = [i \in 1..turn - 1 |-> Reply(i)]
  /\ phase \in {"rules", "entities"} => decision = "redact"
  /\ outcome = "passed" => decision \notin {"none", "block", "quarantine"}
  /\ outcome = "passed" /\ decision = "redact" => turn \notin DOMAIN detectors

\* A text keeps its characters in their order, and what stood side by side in the
\* content still does, unless one of the two is gone.
Ordered(t) ==
  \A k, l \in DOMAIN t :
    k < l /\ t[l] # Mark => /\ t[k] < t[l]
                            /\ t[k] # Mark /\ t[l] = t[k] + 1 => l = k + 1

\* A text that may go on, or be fallen back to.
Legible(t) == t \in Seq(0..content.length) /\ Ordered(t)

Writing ==
  /\ Legible(text) /\ Legible(before)
  /\ at \in 1..Len(text) + 1
  /\ \/ at = 1
     \/ phase = "rules" /\ Redacting /\ rule \in DOMAIN Rules
  /\ phase # "entities" => todo = {}
  /\ spoiled \subseteq DOMAIN detectors
  /\ decision # "redact" => text = Original /\ before = Original /\ spoiled = {}
  /\ ToSet(text) \subseteq ToSet(before) \cup {Mark}

WInv == Settled /\ Progress /\ Writing

\* A sequence is one of what its elements are in.
LEMMA SeqIntoRange ==
  ASSUME NEW S, NEW T, NEW s \in Seq(S), \A i \in 1..Len(s) : s[i] \in T
  PROVE  s \in Seq(T)
<1>1. Len(s) \in Nat /\ s \in [1..Len(s) -> S]
  BY LenProperties
<1>2. s \in [1..Len(s) -> T]
  BY <1>1
<1> QED
  BY <1>1, <1>2, SeqDef

LEMMA OriginalLegible ==
  ASSUME content \in Contents
  PROVE  Legible(Original) /\ ToSet(Original) = 1..content.length
<1>1. content.length \in Nat
  BY ContentsAssumption
<1>2. /\ Original \in Seq(0..content.length)
      /\ DOMAIN Original = 1..content.length
      /\ \A i \in 1..content.length : Original[i] = i
  BY <1>1 DEF Original
<1>3. Ordered(Original)
  BY <1>1, <1>2 DEF Ordered
<1>4. ToSet(Original) = 1..content.length
  BY <1>2 DEF ToSet
<1> QED
  BY <1>2, <1>3, <1>4 DEF Legible

LEMMA SettledIfKept ==
  ASSUME Settled, UNCHANGED <<setup, content, detectors, results, decision>>
  PROVE  Settled'
<1>1. AllBuilt' = AllBuilt /\ \A i : Built(i)' = Built(i) /\ Reply(i)' = Reply(i)
  BY DEF AllBuilt, Built, Reply
<1>2. Decided' = Decided
  BY DEF Decided, Detections, Matched, Answered
<1> QED
  BY <1>1, <1>2 DEF Settled

\* A replacement of something that is there leaves a text legible.
LEMMA SpliceLegible ==
  ASSUME content \in Contents, NEW t \in Seq(Nat), Legible(t),
         NEW start \in Nat, NEW end \in Nat, start < end, NEW marker \in Nat \ {0}
  PROVE  Legible(Splice(t, start, end, marker))
<1> DEFINE front == FrontOf(t, start)
           back == BackOf(t, end)
           s == Splice(t, start, end, marker)
<1>0. content.length \in Nat
  BY ContentsAssumption
<1>1. t \in Seq(0..content.length) /\ Ordered(t)
  BY DEF Legible
<1>2. /\ Len(t) \in Nat /\ DOMAIN t = 1..Len(t)
      /\ \A p \in 1..Len(t) : t[p] \in 0..content.length
  BY <1>1, LenProperties, ElementOfSeq
<1>a. start <= end /\ Len(t) \in Nat
  BY <1>2
<1>3. front \in 0..Len(t) /\ back \in Nat /\ front <= start
  BY <1>a DEF FrontOf, BackOf
<1>4. /\ s \in Seq(Nat)
      /\ Len(s) = front + marker + back
      /\ \A j \in 1..front : s[j] = t[j]
      /\ \A j \in front + 1..front + marker : s[j] = Mark
      /\ \A j \in front + marker + 1..Len(s) : s[j] = t[j - front - marker + end]
  <2>1. s \in Seq(Nat)
    BY <1>a, SpliceProperties
  <2>2. Len(s) = front + marker + back
    BY <1>a, SpliceProperties
  <2>3. \A j \in 1..front : s[j] = t[j]
    BY <1>a, SpliceProperties
  <2>4. \A j \in front + 1..front + marker : s[j] = Mark
    BY <1>a, SpliceProperties
  <2>5. \A j \in front + marker + 1..Len(s) : s[j] = t[j - front - marker + end]
    BY <1>a, SpliceProperties
  <2> QED
    BY <2>1, <2>2, <2>3, <2>4, <2>5
<1>5. back > 0 => end < Len(t) /\ back = Len(t) - end /\ front = start
  BY <1>a DEF FrontOf, BackOf
<1> HIDE DEF front, back, s
<1>6. DOMAIN s = 1..Len(s) /\ Len(s) \in Nat
  BY <1>4, LenProperties
<1>s. \A l \in 1..Len(s) : s[l] # Mark =>
        \/ l \in 1..front /\ s[l] = t[l] /\ l \in 1..Len(t)
        \/ /\ l \in front + marker + 1..Len(s) /\ s[l] = t[l - front - marker + end]
           /\ l - front - marker + end \in 1..Len(t) /\ front = start
  <2> SUFFICES ASSUME NEW l \in 1..Len(s), s[l] # Mark
               PROVE  \/ l \in 1..front /\ s[l] = t[l] /\ l \in 1..Len(t)
                      \/ /\ l \in front + marker + 1..Len(s)
                         /\ s[l] = t[l - front - marker + end]
                         /\ l - front - marker + end \in 1..Len(t) /\ front = start
    OBVIOUS
  <2>1. l \in 1..front \/ l \in front + marker + 1..Len(s)
    <3>1. l \notin front + 1..front + marker
      BY <1>4
    <3>2. front \in Nat /\ Len(s) \in Nat
      BY <1>3, <1>6
    <3> QED
      BY <3>1, <3>2, SMTT(30)
  <2>2. CASE l \in 1..front
    BY <1>2, <1>3, <1>4, <2>2
  <2>3. CASE l \in front + marker + 1..Len(s)
    <3>1. back > 0
      BY <1>3, <1>4, <2>3
    <3>2. end < Len(t) /\ back = Len(t) - end /\ front = start
      BY <1>5, <3>1
    <3>3. l - front - marker + end \in 1..Len(t)
      BY <1>2, <1>3, <1>4, <2>3, <3>2
    <3> QED
      BY <1>4, <2>3, <3>2, <3>3
  <2> QED
    BY <2>1, <2>2, <2>3
<1>7. s \in Seq(0..content.length)
  <2>1. \A j \in 1..Len(s) : s[j] \in 0..content.length
    <3> SUFFICES ASSUME NEW j \in 1..Len(s)
                 PROVE  s[j] \in 0..content.length
      OBVIOUS
    <3>1. CASE s[j] = Mark
      BY <1>0, <3>1 DEF Mark
    <3>2. CASE s[j] # Mark
      BY <1>2, <1>s, <3>2
    <3> QED
      BY <3>1, <3>2
  <2>2. s \in Seq(Nat)
    BY <1>4
  <2> DEFINE T == 0..content.length
  <2>3. \A j \in 1..Len(s) : s[j] \in T
    BY <2>1
  <2> HIDE DEF T
  <2>4. s \in Seq(T)
    BY <2>2, <2>3, SeqIntoRange
  <2> QED
    BY <2>4 DEF T
<1>8. ASSUME NEW k \in DOMAIN s, NEW l \in DOMAIN s, k < l, s[l] # Mark
      PROVE  /\ s[k] < s[l]
             /\ s[k] # Mark /\ s[l] = s[k] + 1 => l = k + 1
  <2>a. /\ k \in Nat /\ l \in Nat /\ 1 <= k /\ k < l /\ l <= Len(s)
        /\ Len(s) = front + marker + back /\ front \in Nat /\ back \in Nat
    BY <1>3, <1>4, <1>6, <1>8
  <2>0. s[l] \in Nat /\ s[l] # 0
    BY <1>4, <1>6, <1>8, ElementOfSeq DEF Mark
  <2>1. CASE s[k] = Mark
    BY <2>0, <2>1 DEF Mark
  <2>2. CASE s[k] # Mark /\ k \in 1..front /\ l \in 1..front
    BY <1>1, <1>2, <1>3, <1>4, <1>8, <2>2 DEF Ordered
  <2>3. CASE s[k] # Mark /\ k \in 1..front /\ l \in front + marker + 1..Len(s)
    <3> DEFINE q == l - front - marker + end
    <3>1. q \in 1..Len(t) /\ s[l] = t[q] /\ front = start /\ s[k] = t[k] /\ k \in 1..Len(t)
      BY <1>s, <1>6, <1>8, <1>3, <2>3
    <3>2. k + 1 < q
      <4>1. k <= front /\ front + marker + 1 <= l /\ front = start /\ start < end
        BY <1>3, <2>a, <2>3, <3>1
      <4> QED
        BY <2>a, <4>1
    <3> HIDE DEF q
    <3>3. t[k] < t[q] /\ t[q] # t[k] + 1
      <4>1. k \in DOMAIN t /\ q \in DOMAIN t /\ k < q /\ t[q] # Mark /\ t[k] # Mark
        BY <1>2, <1>8, <2>3, <3>1, <3>2
      <4>2. k \in Int /\ q \in Int /\ q # k + 1
        BY <1>2, <3>1, <3>2
      <4> QED
        BY <1>1, <4>1, <4>2 DEF Ordered
    <3> QED
      BY <3>1, <3>3
  <2>4. CASE s[k] # Mark /\ k \in front + marker + 1..Len(s) /\ l \in front + marker + 1..Len(s)
    <3> DEFINE p == k - front - marker + end
               q == l - front - marker + end
    <3>1. p \in 1..Len(t) /\ s[k] = t[p]
      <4>1. k \in 1..Len(s) /\ s[k] # Mark /\ ~(k \in 1..front)
        BY <1>6, <2>a, <2>4
      <4> QED
        BY <1>s, <4>1
    <3>2. q \in 1..Len(t) /\ s[l] = t[q]
      <4>1. l \in 1..Len(s) /\ s[l] # Mark /\ ~(l \in 1..front)
        BY <1>6, <1>8, <2>a, <2>4
      <4> QED
        BY <1>s, <4>1
    <3>3. p < q /\ (q = p + 1 => l = k + 1)
      BY <2>a
    <3> HIDE DEF p, q
    <3>4. t[p] < t[q] /\ (t[q] = t[p] + 1 => q = p + 1)
      BY <1>1, <1>2, <1>8, <2>4, <3>1, <3>2, <3>3 DEF Ordered
    <3> QED
      BY <3>1, <3>2, <3>3, <3>4
  <2>5. \/ k \in 1..front /\ l \in 1..front
        \/ k \in 1..front /\ l \in front + marker + 1..Len(s)
        \/ k \in front + marker + 1..Len(s) /\ l \in front + marker + 1..Len(s)
        \/ s[k] = Mark
    <3>1. k \in front + 1..front + marker => s[k] = Mark
      BY <1>4
    <3>2. l \in front + 1..front + marker => s[l] = Mark
      BY <1>4
    <3> QED
      BY <1>8, <2>a, <3>1, <3>2
  <2> QED
    BY <2>1, <2>2, <2>3, <2>4, <2>5
<1>9. Ordered(s)
  BY <1>8 DEF Ordered
<1> QED
  BY <1>7, <1>9 DEF Legible, s
-----------------------------------------------------------------------------
LEMMA InitStands == Init => WInv
<1> SUFFICES ASSUME Init
             PROVE  WInv
  OBVIOUS
<1>1. setup \in Setups /\ content \in Contents /\ setup.options \in Seq(ToSet(setup.options))
  BY SetupsAssumption DEF Init
<1>2. Len(setup.options) \in Nat
  BY <1>1, LenProperties
<1>3. Settled
  BY DEF Init, Settled
<1>4. Progress
  BY <1>2 DEF Init, Progress
<1>5. Writing
  <2>1. Legible(text) /\ Legible(before) /\ ToSet(text) \subseteq ToSet(before)
    BY <1>1, OriginalLegible DEF Init
  <2>2. Len(text) \in Nat
    BY <2>1, LenProperties DEF Legible
  <2> QED
    BY <2>1, <2>2 DEF Init, Writing
<1> QED
  BY <1>3, <1>4, <1>5 DEF WInv

LEMMA BuildGuardStands == IInv /\ WInv /\ BuildGuard => WInv'
<1> SUFFICES ASSUME IInv, WInv, BuildGuard
             PROVE  WInv'
  OBVIOUS
<1>1. /\ decision = "none" /\ phase = "construct"
      /\ turn = 1 /\ results = <<>>
      /\ detectors' = [i \in DOMAIN setup.options |-> Built(i)]
      /\ \/ phase' = "inspect" /\ outcome' = outcome
         \/ phase' = "done" /\ outcome' = "refused"
      /\ UNCHANGED <<setup, content, results, decision, text, before, turn, rule, at, todo,
                     spoiled>>
  BY DEF IInv, Situated, WInv, Progress, BuildGuard, Built, End, fixed
<1>2. Settled'
  BY <1>1 DEF Settled
<1>3. Progress'
  <2>1. results' = [i \in 1..turn' - 1 |-> Reply(i)']
    BY <1>1
  <2>2. outcome = "none"
    BY <1>1 DEF WInv, Progress
  <2> QED
    BY <1>1, <2>1, <2>2 DEF WInv, Progress
<1>4. Writing'
  <2>1. text' = Original' /\ before' = Original' /\ spoiled' = {}
    BY <1>1 DEF WInv, Writing, Original
  <2>2. at' = 1 /\ todo' = {}
    BY <1>1 DEF IInv, Situated, WInv, Writing
  <2> QED
    BY <1>1, <2>1, <2>2 DEF WInv, Writing, Legible
<1> QED
  BY <1>2, <1>3, <1>4 DEF WInv

LEMMA InspectNextStands == IInv /\ WInv /\ InspectNext => WInv'
<1> SUFFICES ASSUME IInv, WInv, InspectNext
             PROVE  WInv'
  OBVIOUS
<1>1. /\ Situated /\ decision = "none" /\ phase = "inspect"
      /\ turn \in DOMAIN setup.options /\ detectors[turn] = Built(turn)
      /\ results' = Append(results, Reply(turn))
      /\ turn' = turn + 1
      /\ UNCHANGED <<setup, content, phase, detectors, decision, outcome, text, before,
                     rule, at, todo, spoiled>>
  <2>1. Situated /\ decision = "none" /\ phase = "inspect"
    BY DEF IInv, Situated, InspectNext
  <2>2. turn \in DOMAIN setup.options /\ detectors[turn] = Built(turn)
    BY <2>1 DEF Situated, InspectNext
  <2> QED
    BY <2>1, <2>2 DEF InspectNext, Reply, fixed
<1>2. Settled'
  BY <1>1 DEF Settled
<1>3. Progress'
  <2>1. DOMAIN setup.options = 1..Len(setup.options) /\ Len(setup.options) \in Nat
    BY <1>1, LenProperties, SetupsAssumption DEF Situated
  <2>2. turn \in Nat \ {0} /\ turn' \in 1..Len(setup.options) + 1
    BY <1>1, <2>1
  <2>3. results = [i \in 1..turn - 1 |-> Reply(i)]
    BY <1>1 DEF WInv, Progress
  <2>4. results' = [i \in 1..turn |-> Reply(i)]
    BY <1>1, <2>2, <2>3
  <2>5. results' = [i \in 1..turn' - 1 |-> Reply(i)']
    <3>1. turn' - 1 = turn /\ \A i : Reply(i)' = Reply(i)
      BY <1>1, <2>2 DEF Reply, Built
    <3> QED
      BY <2>4, <3>1
  <2> QED
    BY <1>1, <2>2, <2>5 DEF WInv, Progress
<1>4. Writing'
  <2>1. text' = Original' /\ before' = Original' /\ spoiled' = {} /\ at' = 1
    BY <1>1 DEF Situated, WInv, Writing, Original
  <2> QED
    BY <1>1, <2>1 DEF WInv, Writing, Legible
<1> QED
  BY <1>2, <1>3, <1>4 DEF WInv
-----------------------------------------------------------------------------
\* The labels of what a detector answers are those of its rules.
LEMMA AnswersLabelled ==
  ASSUME Situated, AllBuilt, NEW i \in DOMAIN setup.options, Reply(i).status = "result"
  PROVE  Reply(i).matches \subseteq Severity
<1> DEFINE d == Built(i)
           hits == {r \in ToSet(d.rules) : content.finds[r] # {}}
<1>1. d.rules \in Seq(Pattern)
  BY RulesArePatterns DEF Situated, AllBuilt, Built
<1>2. hits \subseteq Pattern
  <2>1. \A q \in DOMAIN d.rules : d.rules[q] \in Pattern
    BY <1>1, LenProperties, ElementOfSeq
  <2> QED
    BY <2>1 DEF ToSet
<1>3. \A matched, model : Answer(matched, hits, model).matches \subseteq Severity
  BY <1>2, SeverityOfAssumption DEF Answer
<1>4. \A matched, model : Answer(matched, {}, model).matches = {}
  BY DEF Answer
<1> HIDE DEF d
<1> QED
  BY <1>3, <1>4 DEF Reply, Inspect, d

LEMMA DetectionsLabelled ==
  ASSUME Situated, AllBuilt, NEW n \in Nat, n <= Len(setup.options),
         results = [i \in 1..n |-> Reply(i)]
  PROVE  \A k \in DOMAIN Detections :
           /\ k \in DOMAIN setup.options
           /\ Detections[k] = Reply(k)
           /\ Matched(k)
           /\ Detections[k].matches \subseteq Severity
<1>1. DOMAIN setup.options = 1..Len(setup.options) /\ Len(setup.options) \in Nat
  BY LenProperties, SetupsAssumption DEF Situated
<1>2. /\ DOMAIN Detections = {k \in DOMAIN results : Matched(k)}
      /\ \A k \in DOMAIN Detections : Detections[k] = results[k]
  BY DEF Detections, Restrict
<1> SUFFICES ASSUME NEW k \in DOMAIN Detections
             PROVE  /\ k \in DOMAIN setup.options
                    /\ Detections[k] = Reply(k)
                    /\ Matched(k)
                    /\ Detections[k].matches \subseteq Severity
  OBVIOUS
<1>3. k \in 1..n /\ Detections[k] = Reply(k) /\ Matched(k) /\ results[k] = Reply(k)
  BY <1>2
<1>4. k \in DOMAIN setup.options
  BY <1>1, <1>3
<1>5. Reply(k).status = "result"
  BY <1>3 DEF Matched, Answered
<1> QED
  BY <1>3, <1>4, <1>5, AnswersLabelled

LEMMA DecidedActs ==
  ASSUME Situated, AllBuilt, NEW n \in Nat, n <= Len(setup.options),
         results = [i \in 1..n |-> Reply(i)]
  PROVE  Decided \in Action
<1>1. setup.policy \in SeverityPolicies
  BY SetupsAssumption DEF Situated
<1>2. \A k \in DOMAIN Detections : Detections[k].matches \subseteq Severity
  BY DetectionsLabelled
<1>3. Evaluate(setup.policy, Detections) \in Action
  BY <1>1, <1>2, EvaluateActs
<1> QED
  BY <1>3 DEF Decided, Action

LEMMA EnforceStands == IInv /\ WInv /\ Enforce => WInv'
<1> SUFFICES ASSUME IInv, WInv, Enforce
             PROVE  WInv'
  OBVIOUS
<1>1. /\ Situated /\ decision = "none" /\ phase = "inspect" /\ turn \notin DOMAIN detectors
      /\ AllBuilt /\ detectors = [i \in DOMAIN setup.options |-> Built(i)]
      /\ decision' = Decided /\ turn' = 1
      /\ CASE Decided = "redact" -> phase' = "rules" /\ outcome' = outcome
           [] Decided \in {"block", "quarantine"} -> phase' = "done" /\ outcome' = "stopped"
           [] OTHER -> phase' = "done" /\ outcome' = "passed"
      /\ UNCHANGED <<setup, content, detectors, results, text, before, rule, at, todo, spoiled>>
  BY DEF IInv, Situated, Enforce, End, fixed
<1>2. DOMAIN setup.options = 1..Len(setup.options) /\ Len(setup.options) \in Nat
  BY <1>1, LenProperties, SetupsAssumption DEF Situated
<1>3. turn = Len(setup.options) + 1
  BY <1>1, <1>2 DEF WInv, Progress
<1>4. results = [i \in 1..Len(setup.options) |-> Reply(i)]
  BY <1>1, <1>2, <1>3 DEF WInv, Progress
<1>5. Decided \in Action /\ Decided # "none"
  <2>1. Decided \in Action
    BY <1>1, <1>2, <1>4, DecidedActs
  <2> QED
    BY <2>1 DEF Action
<1>6. \/ Decided = "redact" /\ phase' = "rules" /\ outcome' = outcome
      \/ Decided \in {"block", "quarantine"} /\ phase' = "done" /\ outcome' = "stopped"
      \/ /\ Decided \notin {"redact", "block", "quarantine"}
         /\ phase' = "done" /\ outcome' = "passed"
  BY <1>1
<1>7. Settled'
  <2>1. AllBuilt' /\ \A i : Built(i)' = Built(i) /\ Reply(i)' = Reply(i)
    BY <1>1 DEF AllBuilt, Built, Reply
  <2>2. Decided' = Decided
    BY <1>1 DEF Decided, Detections, Matched, Answered
  <2> QED
    BY <1>1, <1>2, <1>4, <2>1, <2>2 DEF Settled
<1>8. Progress'
  BY <1>1, <1>2, <1>5, <1>6 DEF WInv, Progress
<1>9. Writing'
  <2>1. text' = Original' /\ before' = Original' /\ spoiled' = {} /\ at' = 1 /\ todo' = {}
    BY <1>1 DEF Situated, WInv, Writing, Original
  <2> QED
    BY <1>1, <2>1 DEF WInv, Writing, Legible
<1> QED
  BY <1>7, <1>8, <1>9 DEF WInv

\* What the lemmas about the steps of a redaction begin with.
Rewriting ==
  /\ UNCHANGED <<setup, content, detectors, results, decision>>
  /\ phase \in {"rules", "entities"}

LEMMA RewritingStands ==
  ASSUME IInv, WInv, Rewriting
  PROVE  /\ Situated /\ content \in Contents /\ decision = "redact" /\ outcome = "none"
         /\ Settled'
         /\ AllBuilt /\ detectors = [i \in DOMAIN setup.options |-> Built(i)]
         /\ results = [i \in DOMAIN setup.options |-> Reply(i)]
         /\ DOMAIN detectors = 1..Len(setup.options) /\ Len(setup.options) \in Nat
         /\ \A t : Legible(t)' <=> Legible(t)
         /\ \A i : EntitiesOf(i)' = EntitiesOf(i)
<1>1. Situated /\ content \in Contents /\ decision = "redact" /\ outcome = "none"
  BY DEF IInv, Situated, WInv, Progress, Rewriting
<1>2. Settled'
  BY SettledIfKept DEF WInv, Rewriting
<1>3. /\ AllBuilt /\ detectors = [i \in DOMAIN setup.options |-> Built(i)]
      /\ results = [i \in DOMAIN setup.options |-> Reply(i)]
  BY <1>1 DEF WInv, Settled
<1>4. DOMAIN setup.options = 1..Len(setup.options) /\ Len(setup.options) \in Nat
  BY <1>1, LenProperties, SetupsAssumption DEF Situated
<1>5. \A t : Legible(t)' <=> Legible(t)
  BY DEF Legible, Rewriting
<1>6. \A i : EntitiesOf(i)' = EntitiesOf(i)
  BY DEF EntitiesOf, Matched, Answered, Rewriting
<1> QED
  BY <1>1, <1>2, <1>3, <1>4, <1>5, <1>6

LEMMA ReplaceMatchStands == IInv /\ WInv /\ ReplaceMatch => WInv'
<1> SUFFICES ASSUME IInv, WInv, ReplaceMatch
             PROVE  WInv'
  OBVIOUS
<1> DEFINE marker == MarkerLength[Rules[rule]]
<1>1. /\ phase = "rules" /\ Redacting /\ rule \in DOMAIN Rules
      /\ UNCHANGED <<setup, content, phase, detectors, results, decision, outcome, before,
                     turn, rule, todo, spoiled>>
  BY DEF ReplaceMatch, fixed, inspected
<1>2. Situated /\ content \in Contents /\ Settled' /\ decision = "redact"
  BY <1>1, RewritingStands DEF Rewriting
<1>3. PICK k \in Starts, f \in content.finds[Rules[rule]] :
        /\ text' = Splice(text, k - 1, k - 1 + Width(f), marker)
        /\ at' = k + marker
  BY DEF ReplaceMatch
<1>4. marker \in Nat \ {0} /\ f \in Span /\ f.start < f.end
  BY <1>1, <1>2, FindingsAreSpans DEF Redacting, Rules
<1>5. Len(text) \in Nat /\ at \in Nat \ {0} /\ text \in Seq(Nat)
  BY <1>2, LenProperties DEF Situated
<1>6. k \in Nat \ {0} /\ k <= Len(text)
  BY <1>5 DEF Starts
<1>7. Width(f) \in Nat \ {0}
  BY <1>4 DEF Width, Span
<1> DEFINE start == k - 1
           end == k - 1 + Width(f)
<1>8. start \in Nat /\ end \in Nat /\ start < end /\ start <= end /\ start < Len(text)
  BY <1>6, <1>7, <1>5
<1> HIDE DEF marker, start, end
<1>9. text' = Splice(text, start, end, marker)
  BY <1>3 DEF start, end, marker
<1>10. Legible(text')
  BY <1>2, <1>4, <1>5, <1>8, <1>9, SpliceLegible DEF WInv, Writing
<1>11. at' \in 1..Len(text') + 1
  <2>1. \E back \in Nat : Len(text') = FrontOf(text, start) + marker + back
    <3>1. Len(text') = FrontOf(text, start) + marker + BackOf(text, end)
      BY <1>4, <1>5, <1>8, <1>9, SpliceProperties
    <3> QED
      BY <1>5, <1>8, <3>1 DEF BackOf
  <2>2. FrontOf(text, start) = start
    BY <1>8 DEF FrontOf, BackOf
  <2> QED
    BY <1>3, <1>4, <1>6, <1>8, <2>1, <2>2 DEF start, marker
<1>12. ToSet(text') \subseteq ToSet(before) \cup {Mark}
  <2>1. ToSet(text') \subseteq ToSet(text) \cup {Mark}
    BY <1>4, <1>5, <1>8, <1>9, SpliceBringsNoCell
  <2> QED
    BY <2>1 DEF WInv, Writing
<1>13. Progress'
  BY <1>1 DEF WInv, Progress
<1>14. Writing'
  <2>1. Legible(text)' /\ Legible(before)'
    BY <1>1, <1>10 DEF WInv, Writing, Legible
  <2>2. (phase = "rules" /\ Redacting /\ rule \in DOMAIN Rules)'
    BY <1>1 DEF Redacting, Rules
  <2> QED
    BY <1>1, <1>2, <1>11, <1>12, <2>1, <2>2 DEF WInv, Writing
<1> QED
  BY <1>2, <1>13, <1>14 DEF WInv

LEMMA NextRuleStands == IInv /\ WInv /\ NextRule => WInv'
<1> SUFFICES ASSUME IInv, WInv, NextRule
             PROVE  WInv'
  OBVIOUS
<1>1. /\ phase = "rules" /\ at' = 1
      /\ UNCHANGED <<setup, content, phase, detectors, results, decision, outcome, text,
                     before, turn, todo, spoiled>>
  BY DEF NextRule, fixed, inspected
<1>2. Settled' /\ Legible(text)' /\ Legible(before)' /\ decision = "redact"
  BY <1>1, RewritingStands DEF Rewriting, WInv, Writing
<1>3. Progress'
  BY <1>1 DEF WInv, Progress
<1>4. Writing'
  <2>1. Len(text) \in Nat
    BY LenProperties DEF IInv, Situated
  <2> QED
    BY <1>1, <1>2, <2>1 DEF WInv, Writing
<1> QED
  BY <1>2, <1>3, <1>4 DEF WInv

LEMMA CheckEntitiesStands == IInv /\ WInv /\ CheckEntities => WInv'
<1> SUFFICES ASSUME IInv, WInv, CheckEntities
             PROVE  WInv'
  OBVIOUS
<1>1. /\ phase = "rules" /\ phase' = "entities" /\ rule \notin DOMAIN Rules
      /\ UNCHANGED <<setup, content, detectors, results, decision, outcome, text,
                     before, turn, rule, at, spoiled>>
  BY DEF CheckEntities, fixed, inspected
<1>2. Settled' /\ Legible(text)' /\ Legible(before)' /\ decision = "redact"
  BY <1>1, RewritingStands DEF Rewriting, WInv, Writing
<1>3. Progress'
  BY <1>1 DEF WInv, Progress
<1>4. Writing'
  BY <1>1, <1>2 DEF WInv, Writing
<1> QED
  BY <1>2, <1>3, <1>4 DEF WInv

LEMMA RedactionFailsStands == IInv /\ WInv /\ RedactionFails => WInv'
<1> SUFFICES ASSUME IInv, WInv, RedactionFails
             PROVE  WInv'
  OBVIOUS
<1>1. /\ phase = "rules" /\ Redacting /\ rule \notin DOMAIN Rules
      /\ text' = before /\ spoiled' = spoiled \cup {turn}
      /\ \/ turn' = turn + 1 /\ at' = 1 /\ phase' = phase /\ outcome' = outcome
         \/ phase' = "done" /\ outcome' = "stopped" /\ turn' = turn /\ at' = at
      /\ UNCHANGED <<setup, content, detectors, results, decision, before, todo>>
  BY DEF RedactionFails, End, fixed, inspected
<1>2. /\ Settled' /\ Legible(before)' /\ Legible(before) /\ decision = "redact"
      /\ DOMAIN detectors = 1..Len(setup.options) /\ Len(setup.options) \in Nat
  BY <1>1, RewritingStands DEF Rewriting, WInv, Writing
<1>3. turn \in 1..Len(setup.options)
  BY <1>1, <1>2 DEF Redacting
<1>4. Progress'
  BY <1>1, <1>2, <1>3 DEF WInv, Progress
<1>5. Writing'
  <2>1. at' = 1 /\ Len(before) \in Nat
    BY <1>1, LenProperties DEF WInv, Writing, IInv, Situated
  <2>2. Legible(text)' /\ at' \in 1..Len(text') + 1
    BY <1>1, <1>2, <2>1 DEF Legible
  <2> QED
    BY <1>1, <1>2, <2>1, <2>2 DEF WInv, Writing, Redacting
<1> QED
  BY <1>2, <1>4, <1>5 DEF WInv

\* An entity that is replaced has a place, in front of or behind the end.
LEMMA EntitiesHavePlaces ==
  ASSUME IInv, ReplaceEntity
  PROVE  \E k \in todo :
           LET e == EntitiesOf(turn)[k]
           IN  /\ k \in LastOf(EntitiesOf(turn), todo)
               /\ e \in Span /\ e.start \in Nat /\ e.end \in Nat
               /\ e.start < e.end /\ e.start <= e.end
               /\ text' = Splice(text, e.start, e.end, MarkerLength[None])
               /\ todo' = todo \ {k}
<1>1. Situated /\ phase = "entities"
  BY DEF IInv, ReplaceEntity
<1>2. PICK k \in LastOf(EntitiesOf(turn), todo) :
        /\ text' = Splice(text, EntitiesOf(turn)[k].start, EntitiesOf(turn)[k].end,
                          MarkerLength[None])
        /\ todo' = todo \ {k}
  BY DEF ReplaceEntity
<1>3. k \in todo /\ k \in DOMAIN EntitiesOf(turn) /\ Valid(EntitiesOf(turn))
  BY <1>1, <1>2 DEF IInv, EntitiesWait, LastOf
<1> DEFINE e == EntitiesOf(turn)[k]
<1>4. e \in Span /\ e.start # e.end /\ e.start <= e.end
  BY <1>1, <1>3, EntitiesAreSpans DEF Valid
<1>5. e.start \in Nat /\ e.end \in Nat /\ e.start < e.end
  BY <1>4 DEF Span
<1> QED
  BY <1>2, <1>3, <1>4, <1>5

LEMMA ReplaceEntityStands == IInv /\ WInv /\ ReplaceEntity => WInv'
<1> SUFFICES ASSUME IInv, WInv, ReplaceEntity
             PROVE  WInv'
  OBVIOUS
<1>1. /\ phase = "entities"
      /\ UNCHANGED <<setup, content, phase, detectors, results, decision, outcome, before,
                     turn, rule, at, spoiled>>
  BY DEF ReplaceEntity, fixed, inspected
<1>2. Situated /\ content \in Contents /\ Settled' /\ Legible(before)' /\ decision = "redact"
  BY <1>1, RewritingStands DEF Rewriting, WInv, Writing
<1> DEFINE e(k) == EntitiesOf(turn)[k]
           marker == MarkerLength[None]
<1>3. PICK k \in todo :
        /\ e(k).start \in Nat /\ e(k).end \in Nat
        /\ e(k).start < e(k).end /\ e(k).start <= e(k).end
        /\ text' = Splice(text, e(k).start, e(k).end, marker)
  BY EntitiesHavePlaces
<1>4. marker \in Nat \ {0} /\ text \in Seq(Nat)
  BY <1>2, MarkerAssumption DEF Situated
<1> HIDE DEF e, marker
<1>5. Legible(text')
  BY <1>2, <1>3, <1>4, SpliceLegible DEF WInv, Writing
<1>6. ToSet(text') \subseteq ToSet(before) \cup {Mark}
  <2>1. ToSet(text') \subseteq ToSet(text) \cup {Mark}
    BY <1>3, <1>4, SpliceBringsNoCell
  <2> QED
    BY <2>1 DEF WInv, Writing
<1>7. Progress'
  BY <1>1 DEF WInv, Progress
<1>8. Writing'
  <2>1. at' = 1
    BY <1>1 DEF WInv, Writing
  <2>2. text' \in Seq(0..content.length)
    BY <1>5 DEF Legible
  <2>3. Len(text') \in Nat
    BY <2>2, LenProperties
  <2>4. Legible(text)'
    BY <1>1, <1>5 DEF Legible
  <2> QED
    BY <1>1, <1>2, <1>6, <2>1, <2>3, <2>4 DEF WInv, Writing
<1> QED
  BY <1>2, <1>7, <1>8 DEF WInv

LEMMA NextDetectorStands == IInv /\ WInv /\ NextDetector => WInv'
<1> SUFFICES ASSUME IInv, WInv, NextDetector
             PROVE  WInv'
  OBVIOUS
<1>1. /\ phase = "entities" /\ phase' = "rules" /\ todo = {}
      /\ before' = text /\ turn' = turn + 1 /\ at' = 1
      /\ UNCHANGED <<setup, content, detectors, results, decision, outcome, text, todo, spoiled>>
  BY DEF NextDetector, fixed, inspected
<1>2. /\ Settled' /\ Legible(text)' /\ Legible(text) /\ decision = "redact"
      /\ DOMAIN detectors = 1..Len(setup.options) /\ Len(setup.options) \in Nat
  BY <1>1, RewritingStands DEF Rewriting, WInv, Writing
<1>3. turn \in 1..Len(setup.options)
  BY <1>1, <1>2 DEF IInv, EntitiesWait, Redacting
<1>4. Progress'
  BY <1>1, <1>2, <1>3 DEF WInv, Progress
<1>5. Writing'
  <2>1. Len(text) \in Nat
    BY LenProperties DEF IInv, Situated
  <2>2. Legible(before)'
    BY <1>1, <1>2 DEF Legible
  <2> QED
    BY <1>1, <1>2, <2>1, <2>2 DEF WInv, Writing
<1> QED
  BY <1>2, <1>4, <1>5 DEF WInv

LEMMA HandOnStands == IInv /\ WInv /\ HandOn => WInv'
<1> SUFFICES ASSUME IInv, WInv, HandOn
             PROVE  WInv'
  OBVIOUS
<1>1. /\ phase = "rules" /\ ~Redacting /\ phase' = "done" /\ outcome' = "passed"
      /\ UNCHANGED <<setup, content, detectors, results, decision, text, before, turn, rule,
                     at, todo, spoiled>>
  BY DEF HandOn, End, fixed, inspected
<1>2. Settled' /\ Legible(text)' /\ Legible(before)' /\ decision = "redact"
  BY <1>1, RewritingStands DEF Rewriting, WInv, Writing
<1>3. Progress'
  BY <1>1, <1>2 DEF WInv, Progress, Redacting
<1>4. Writing'
  BY <1>1, <1>2 DEF WInv, Writing
<1> QED
  BY <1>2, <1>3, <1>4 DEF WInv

LEMMA StutteringStands == IInv /\ WInv /\ UNCHANGED vars => WInv'
<1> SUFFICES ASSUME WInv, UNCHANGED vars
             PROVE  WInv'
  OBVIOUS
<1>1. UNCHANGED <<setup, content, phase, detectors, results, decision, outcome, text, before,
                  turn, rule, at, todo, spoiled>>
  BY DEF vars
<1>2. Settled'
  BY <1>1, SettledIfKept DEF WInv
<1>3. Progress'
  BY <1>1 DEF WInv, Progress, Reply, Built
<1>4. Writing'
  BY <1>1 DEF WInv, Writing, Legible, Original, Redacting, Rules
<1> QED
  BY <1>2, <1>3, <1>4 DEF WInv

\* Where a call stands, and what its text can be, in every reachable state.
THEOREM CallInvariant == Spec => []WInv
<1>1. Init => WInv
  BY InitStands
<1>2. IInv /\ WInv /\ [Next]_vars => WInv'
  BY BuildGuardStands, InspectNextStands, EnforceStands, ReplaceMatchStands, NextRuleStands,
     CheckEntitiesStands, RedactionFailsStands, ReplaceEntityStands, NextDetectorStands,
     HandOnStands, StutteringStands DEF Next, Terminated
<1> QED
  BY <1>1, <1>2, RedactionInvariant, PTL DEF Spec

\* Every variable of a call has its type: the text is made of the content's
\* characters and of marks, the search never leaves it, and entities wait only for
\* the detector whose turn it is.
THEOREM TypeCorrect == Spec => []TypeOK
<1>1. IInv /\ WInv => TypeOK
  <2> SUFFICES ASSUME IInv, WInv
               PROVE  TypeOK
    OBVIOUS
  <2>1. decision \in Action \cup {"none"}
    <3>1. CASE decision # "none"
      <4>1. /\ Situated /\ AllBuilt /\ decision = Decided
            /\ results = [i \in DOMAIN setup.options |-> Reply(i)]
        BY <3>1 DEF IInv, WInv, Settled
      <4>2. DOMAIN setup.options = 1..Len(setup.options) /\ Len(setup.options) \in Nat
        BY <4>1, LenProperties, SetupsAssumption DEF Situated
      <4> QED
        BY <4>1, <4>2, DecidedActs
    <3> QED
      BY <3>1
  <2>2. todo \subseteq (IF phase = "entities" THEN DOMAIN EntitiesOf(turn) ELSE {})
    BY DEF IInv, EntitiesWait, WInv, Writing
  <2> QED
    BY <2>1, <2>2 DEF IInv, Situated, WInv, Progress, Writing, Legible, TypeOK
<1> QED
  BY <1>1, RedactionInvariant, CallInvariant, PTL
-----------------------------------------------------------------------------
(* What the answers of the models come to *)

\* What is no output, or not to be read, is not made a result of.
LEMMA UnreadableFails ==
  ASSUME NEW config, NEW raw, raw.shape \in {"failure", "noise"}
  PROVE  \E f \in Failure : Predict(config, raw) = Failed(f)
<1>1. "ModelProviderError" \in Failure /\ "ModelOutputError" \in Failure
      /\ "ModelFormatterError" \in Failure
  BY DEF Failure
<1>2. CASE raw.shape = "failure"
  <2>1. Predict(config, raw) = Failed("ModelProviderError")
    BY <1>2 DEF Predict
  <2> QED
    BY <1>1, <2>1
<1>3. CASE raw.shape = "noise"
  <2>1. DefaultFormat(config.task, raw) = Failed("ModelOutputError")
    BY <1>3 DEF DefaultFormat
  <2>2. DefaultInjection(raw) = Failed("ModelFormatterError")
    BY <1>3 DEF DefaultInjection
  <2>3. DefaultPii(raw) = Failed("ModelFormatterError")
    BY <1>3 DEF DefaultPii
  <2>4. DefaultApi(raw) = Failed("ModelOutputError")
    BY <1>3 DEF DefaultApi
  <2>5. CustomFormat(raw) = Failed("ModelFormatterError")
    BY <1>3 DEF CustomFormat
  <2> QED
    BY <1>1, <1>3, <2>1, <2>2, <2>3, <2>4, <2>5 DEF Predict
<1> QED
  BY <1>2, <1>3

\* A model that has not detected anything reports LOW.
LEMMA QuietIsLow ==
  ASSUME NEW config, NEW raw, Ordinary(raw),
         raw.shape = "classification" => raw.score \in Score,
         Predict(config, raw).status = "result", ~Predict(config, raw).detected
  PROVE  Predict(config, raw).severity = "low"
<1>1. ASSUME NEW detected, ~Verdict(detected).detected
      PROVE  Verdict(detected).severity = "low"
  BY <1>1 DEF Verdict, Found, BySeverityDefault
<1>2. ASSUME NEW score \in {"over", "under"}, ~ByScore(score).detected
      PROVE  ByScore(score).severity = "low"
  BY <1>2 DEF ByScore, Found
<1>3. ASSUME NEW failure \in Failure
      PROVE  Failed(failure).status # "result"
  BY DEF Failed, Failure
<1>4. ASSUME DefaultFormat(config.task, raw).status = "result",
             ~DefaultFormat(config.task, raw).detected
      PROVE  DefaultFormat(config.task, raw).severity = "low"
  <2> DEFINE answer == DefaultFormat(config.task, raw)
  <2>1. \/ \E detected : answer = Verdict(detected)
        \/ \E score \in {"over", "under"} : answer = ByScore(score)
        \/ answer = Failed("ModelOutputError")
    <3>1. TopScore(raw.items) \in {"none", "NaN", "over", "under"}
      BY DEF TopScore
    <3>2. raw.shape = "tokens" /\ TopScore(raw.items) # "none" =>
            TopScore(raw.items) \in {"over", "under"}
      BY <3>1 DEF Ordinary
    <3>3. raw.shape = "classification" /\ raw.score # "none" => raw.score \in {"over", "under"}
      BY DEF Ordinary, Score
    <3>4. \/ answer = Verdict(raw.yes)
          \/ raw.shape = "number" /\ raw.score \in {"under", "over"} /\ answer = ByScore(raw.score)
          \/ raw.shape = "classification" /\ raw.score # "none" /\ answer = ByScore(raw.score)
          \/ answer = Verdict(FALSE)
          \/ /\ raw.shape = "tokens" /\ TopScore(raw.items) # "none"
             /\ answer = ByScore(TopScore(raw.items))
          \/ answer = Verdict(TRUE)
          \/ answer = Failed("ModelOutputError")
      BY DEF DefaultFormat
    <3> HIDE DEF answer
    <3> QED
      BY <3>2, <3>3, <3>4
  <2> HIDE DEF answer
  <2> QED
    BY <1>1, <1>2, <1>3, <1>4, <2>1 DEF answer, Failure
<1>5. ASSUME DefaultInjection(raw).status = "result", ~DefaultInjection(raw).detected
      PROVE  DefaultInjection(raw).severity = "low"
  BY <1>1, <1>3, <1>5 DEF DefaultInjection, Failure
<1>6. ASSUME DefaultApi(raw).status = "result", ~DefaultApi(raw).detected
      PROVE  DefaultApi(raw).severity = "low"
  BY <1>1, <1>3, <1>6 DEF DefaultApi, Failure
<1>7. ASSUME DefaultPii(raw).status = "result", ~DefaultPii(raw).detected
      PROVE  DefaultPii(raw).severity = "low"
  BY <1>3, <1>7 DEF DefaultPii, Failure, Found, BySeverityDefault
<1>8. ASSUME CustomFormat(raw).status = "result", ~CustomFormat(raw).detected
      PROVE  CustomFormat(raw).severity = "low"
  BY <1>3, <1>8 DEF CustomFormat, Failure, Found, BySeverityDefault, Ordinary
<1> QED
  BY <1>3, <1>4, <1>5, <1>6, <1>7, <1>8 DEF Predict, Failure

\* An asked model that fails, or whose output cannot be read, keeps a fail-closed
\* guard from letting the content pass, whatever else was found
\* (InferenceEngine.predict, inspect).
THEOREM FailuresBlock == Spec => []FailureIsNoAllClear
<1>1. IInv /\ WInv => FailureIsNoAllClear
  <2> SUFFICES ASSUME IInv, WInv, outcome = "passed", setup.fail = "closed",
                      content.length > 0, NEW i \in DOMAIN detectors, Asks(detectors[i]),
                      content.raws[i].shape \in {"failure", "noise"}
               PROVE  FALSE
    BY DEF FailureIsNoAllClear
  <2>1. /\ decision \notin {"none", "block"} /\ decision = Decided
        /\ detectors = [j \in DOMAIN setup.options |-> Built(j)]
        /\ results = [j \in DOMAIN setup.options |-> Reply(j)]
    BY DEF WInv, Progress, Settled
  <2>2. i \in DOMAIN results /\ results[i] = Reply(i) /\ Asks(Built(i))
    BY <2>1
  <2>3. Reply(i).status = "result"
    BY <2>1, <2>2 DEF Decided, Answered
  <2> DEFINE model == Predict(Built(i).model, content.raws[i])
  <2>4. PICK f \in Failure : model = Failed(f)
    BY UnreadableFails
  <2>5. model # None /\ model.status = f /\ f # "result"
    BY <2>4, NoneAssumption DEF Failed, Failure
  <2>6. content.length # 0
    OBVIOUS
  <2> HIDE DEF model
  <2>7. Reply(i) = model
    BY <2>2, <2>5, <2>6 DEF Reply, Inspect, model
  <2> QED
    BY <2>3, <2>5, <2>7
<1> QED
  BY <1>1, RedactionInvariant, CallInvariant, PTL

\* A matched answer whose model detected nothing was matched by a rule, and its
\* model, if it has one, says LOW.
LEMMA QuietAnswer ==
  ASSUME Situated, AllBuilt, NEW i \in DOMAIN setup.options,
         Reply(i).status = "result", Reply(i).matched, ~Reply(i).detected,
         Ordinary(content.raws[i])
  PROVE  /\ [Reply(i) EXCEPT !.model = "none"].matches = Reply(i).matches
         /\ [Reply(i) EXCEPT !.model = "none"].model = "none"
         /\ Reply(i).model = "none" \/ (Reply(i).model = "low" /\ Reply(i).matches # {})
<1> DEFINE d == Built(i)
           raw == content.raws[i]
           hits == {r \in ToSet(d.rules) : content.finds[r] # {}}
           model == IF Asks(d) THEN Predict(d.model, raw) ELSE None
           matched == Combine(d, hits # {}, model # None /\ model.detected)
<1>1. ~Answer(FALSE, {}, None).matched
  BY DEF Answer
<1>2. /\ d.combine \in {"any", "all", "precedence"}
      /\ raw.shape = "classification" => raw.score \in Score
  <2>1. d.combine = setup.options[i].combine
    BY DEF AllBuilt, Built, Construct, Failed
  <2>2. i \in DOMAIN content.raws
    BY ContentsAssumption DEF Situated
  <2> QED
    BY <2>1, <2>2, SetupsAssumption, ContentsAssumption DEF Situated
<1>3. \/ content.length = 0 /\ Reply(i) = Answer(FALSE, {}, None)
      \/ model # None /\ model.status # "result" /\ Reply(i) = model
      \/ /\ ~(model # None /\ model.status # "result")
         /\ Reply(i) = Answer(matched, hits, model)
  BY DEF Reply, Inspect
<1> HIDE DEF d, raw, hits, model, matched
<1>4. /\ ~(model # None /\ model.status # "result")
      /\ Reply(i) = Answer(matched, hits, model)
  BY <1>1, <1>3
<1>5. /\ Reply(i).matches = {SeverityOf[r] : r \in hits}
      /\ Reply(i).model = IF model = None THEN "none" ELSE model.severity
      /\ [Reply(i) EXCEPT !.model = "none"].matches = Reply(i).matches
      /\ [Reply(i) EXCEPT !.model = "none"].model = "none"
  BY <1>4 DEF Answer
<1>6. matched /\ ~(model # None /\ model.detected)
  <2>1. Answer(matched, hits, model).matched = matched
    BY DEF Answer
  <2>2. Answer(matched, hits, model).detected = (model # None /\ model.detected)
    BY DEF Answer
  <2> QED
    BY <1>4, <2>1, <2>2
<1>7. model # None => Reply(i).model = "low" /\ Reply(i).matches # {}
  <2> SUFFICES ASSUME model # None
               PROVE  Reply(i).model = "low" /\ Reply(i).matches # {}
    OBVIOUS
  <2>1. Asks(d) /\ model = Predict(d.model, raw) /\ model.status = "result" /\ ~model.detected
    BY <1>4, <1>6 DEF model
  <2>2. model.severity = "low"
    BY <1>2, <2>1, QuietIsLow DEF raw
  <2>3. hits # {}
    <3>1. Combine(d, hits # {}, FALSE)
      BY <1>6, <2>1 DEF matched
    <3>2. d.type \in {"model", "mixed"}
      BY <2>1 DEF Asks
    <3> QED
      BY <1>2, <3>1, <3>2 DEF Combine
  <2> QED
    BY <1>5, <2>2, <2>3
<1>8. model = None => Reply(i).model = "none"
  BY <1>5
<1> HIDE DEF d, raw, hits, model, matched
<1>9. Reply(i).model = "none" \/ (Reply(i).model = "low" /\ Reply(i).matches # {})
  BY <1>7, <1>8
<1> QED
  BY <1>5, <1>9, Zenon

\* The LOW of a model that detected nothing does not change what is decided about
\* the findings of the rules, for every policy that treats low and info alike
\* (highest_result_severity, SeverityPolicy.evaluate).
THEOREM QuietModelsDoNotCount == Spec => []QuietModelIsNeutral
<1> DEFINE quiet(r) == r.status = "result" /\ ~r.detected
           Unsaid == [k \in DOMAIN Detections |->
                        IF quiet(Detections[k]) THEN [Detections[k] EXCEPT !.model = "none"]
                                                ELSE Detections[k]]
<1>1. IInv /\ WInv => QuietModelIsNeutral
  <2> SUFFICES ASSUME IInv, WInv, decision # "none",
                      Decide(setup.policy, "low") = Decide(setup.policy, "info"),
                      \A i \in DOMAIN results : Ordinary(content.raws[i]),
                      \A i \in DOMAIN results : Answered(i) \/ setup.fail = "open"
               PROVE  decision = Evaluate(setup.policy, Unsaid)
    BY DEF QuietModelIsNeutral
  <2>1. /\ Situated /\ AllBuilt /\ decision = Decided
        /\ results = [j \in DOMAIN setup.options |-> Reply(j)]
    BY DEF IInv, WInv, Settled
  <2>2. DOMAIN setup.options = 1..Len(setup.options) /\ Len(setup.options) \in Nat
    BY <2>1, LenProperties, SetupsAssumption DEF Situated
  <2>3. decision = Evaluate(setup.policy, Detections)
    BY <2>1 DEF Decided
  <2>4. ASSUME NEW k \in DOMAIN Detections
        PROVE  /\ Detections[k].matches \subseteq Severity
               /\ Unsaid[k].matches = Detections[k].matches
               /\ \/ Unsaid[k].model = Detections[k].model
                  \/ /\ Unsaid[k].model \notin Severity
                     /\ Detections[k].model = "low" /\ Detections[k].matches # {}
    <3>1. /\ k \in DOMAIN setup.options /\ Detections[k] = Reply(k) /\ Matched(k)
          /\ Detections[k].matches \subseteq Severity
      BY <2>1, <2>2, DetectionsLabelled
    <3>2. Reply(k).status = "result" /\ Reply(k).matched /\ Ordinary(content.raws[k])
      BY <2>1, <3>1 DEF Matched, Answered
    <3>3. CASE ~quiet(Reply(k))
      BY <3>1, <3>3
    <3>4. CASE quiet(Reply(k))
      <4>1. /\ [Reply(k) EXCEPT !.model = "none"].matches = Reply(k).matches
            /\ [Reply(k) EXCEPT !.model = "none"].model = "none"
            /\ Reply(k).model = "none" \/ (Reply(k).model = "low" /\ Reply(k).matches # {})
        BY <2>1, <3>1, <3>2, <3>4, QuietAnswer
      <4>2. Unsaid[k] = [Reply(k) EXCEPT !.model = "none"]
        BY <3>1, <3>4
      <4>3. "none" \notin Severity
        BY DEF Severity
      <4> HIDE DEF Unsaid
      <4> QED
        BY <3>1, <4>1, <4>2, <4>3
    <3> QED
      BY <3>3, <3>4
  <2>5. DOMAIN Unsaid = DOMAIN Detections
    OBVIOUS
  <2> HIDE DEF Unsaid
  <2>6. Evaluate(setup.policy, Unsaid) = Evaluate(setup.policy, Detections)
    BY <2>4, <2>5, LowDoesNotCount
  <2> QED
    BY <2>3, <2>6
<1> QED
  BY <1>1, RedactionInvariant, CallInvariant, PTL
-----------------------------------------------------------------------------
(* From what is handed to a constructor to what happens to a text *)

\* What stands in a sequence stands in what it is made a part of.
LEMMA PartOfConcat ==
  ASSUME NEW S, NEW s \in Seq(S), NEW t \in Seq(S)
  PROVE  ToSet(s) \subseteq ToSet(s \o t) /\ ToSet(t) \subseteq ToSet(s \o t)
<1>1. /\ Len(s) \in Nat /\ DOMAIN s = 1..Len(s)
      /\ Len(t) \in Nat /\ DOMAIN t = 1..Len(t)
  BY LenProperties
<1>2. /\ Len(s \o t) = Len(s) + Len(t)
      /\ \A j \in 1..Len(s) + Len(t) :
           (s \o t)[j] = IF j <= Len(s) THEN s[j] ELSE t[j - Len(s)]
      /\ s \o t \in Seq(S)
  BY ConcatProperties
<1>3. DOMAIN (s \o t) = 1..Len(s) + Len(t)
  BY <1>2, LenProperties
<1>4. ASSUME NEW i \in DOMAIN s
      PROVE  i \in DOMAIN (s \o t) /\ (s \o t)[i] = s[i]
  BY <1>1, <1>2, <1>3
<1>5. ASSUME NEW i \in DOMAIN t
      PROVE  i + Len(s) \in DOMAIN (s \o t) /\ (s \o t)[i + Len(s)] = t[i]
  <2>1. i + Len(s) \in 1..Len(s) + Len(t) /\ ~(i + Len(s) <= Len(s)) /\ i + Len(s) - Len(s) = i
    BY <1>1
  <2> QED
    BY <1>2, <1>3, <2>1
<1> QED
  BY <1>4, <1>5 DEF ToSet

\* The rules that are handed over are among those that are searched, whatever
\* else is configured, by either strategy (_resolve_rules).
LEMMA HandedOverIsInForce ==
  ASSUME NEW s \in Setups, NEW i \in DOMAIN s.options,
         Construct(s.options[i]).status = "built",
         Searches(s.options[i]), s.options[i].patterns # None
  PROVE  LET o == s.options[i]
         IN  /\ ToSet(o.patterns) \subseteq ToSet(Construct(o).rules)
             /\ ToSet(o.patterns) \subseteq Pattern
             /\ Construct(o).type = o.type
             /\ Construct(o).combine = o.combine
<1> DEFINE o == s.options[i]
           loaded == FlattenSeq(OrEmpty(o.paths))
           defaults == IF o.defaults = None THEN <<>> ELSE DefaultRulesOf[o.defaults]
<1>1. /\ OrEmpty(o.patterns) \in Seq(Pattern)
      /\ AllLoad(o) => loaded \in Seq(Pattern)
      /\ o.defaults \in RuleSet \cup {None}
      /\ o.ruleStrategy \in {"precedence", "extend"}
  BY SetupsAssumption
<1>2. defaults \in Seq(Pattern)
  BY <1>1, DefaultRulesAssumption
<1>3. /\ Searches(o) /\ o.patterns # None /\ AllLoad(o)
      /\ Construct(o).rules = ResolveRules(o)
      /\ Construct(o).type = o.type /\ Construct(o).combine = o.combine
  BY DEF Construct, Failed
<1> HIDE DEF o, loaded, defaults
<1>4. o.patterns \in Seq(Pattern) /\ OrEmpty(o.patterns) = o.patterns
  BY <1>1, <1>3 DEF OrEmpty
<1>5. \/ o.ruleStrategy = "precedence" /\ ResolveRules(o) = o.patterns
      \/ ResolveRules(o) = (defaults \o loaded) \o o.patterns
  BY <1>1, <1>3, <1>4 DEF ResolveRules, loaded, defaults
<1>6. ToSet(o.patterns) \subseteq ToSet((defaults \o loaded) \o o.patterns)
  <2>1. defaults \o loaded \in Seq(Pattern)
    BY <1>1, <1>2, <1>3, ConcatProperties
  <2> QED
    BY <1>4, <2>1, PartOfConcat
<1>7. ToSet(o.patterns) \subseteq Pattern
  <2>1. \A k \in DOMAIN o.patterns : o.patterns[k] \in Pattern
    BY <1>4, LenProperties, ElementOfSeq
  <2> QED
    BY <2>1 DEF ToSet
<1> QED
  BY <1>3, <1>5, <1>6, <1>7 DEF o

\* A detector that answers, and whose rules need nobody's agreement, reports the
\* severity of each rule that found something (inspect, _combine_results).
LEMMA FoundIsReported ==
  ASSUME Situated, AllBuilt, NEW i \in DOMAIN setup.options, Reply(i).status = "result",
         content.length # 0, Searches(Built(i)),
         Built(i).type = "mixed" => Built(i).combine \in {"any", "precedence"},
         NEW r \in ToSet(Built(i).rules), content.finds[r] # {}
  PROVE  Reply(i).matched /\ SeverityOf[r] \in Reply(i).matches
<1> DEFINE d == Built(i)
           hits == {q \in ToSet(d.rules) : content.finds[q] # {}}
           model == IF Asks(d) THEN Predict(d.model, content.raws[i]) ELSE None
           matched == Combine(d, hits # {}, model # None /\ model.detected)
<1>1. \/ model # None /\ model.status # "result" /\ Reply(i) = model
      \/ Reply(i) = Answer(matched, hits, model)
  BY DEF Reply, Inspect
<1>2. r \in hits
  OBVIOUS
<1>3. d.type \in {"regex", "mixed"} /\ (d.type = "mixed" => d.combine \in {"any", "precedence"})
  BY DEF Searches
<1> HIDE DEF d, hits, model
<1>4. matched
  <2>1. hits # {}
    BY <1>2
  <2> QED
    BY <1>3, <2>1, Zenon DEF Combine
<1> HIDE DEF matched
<1>5. Reply(i) = Answer(matched, hits, model)
  BY <1>1
<1>6. Reply(i).matched = matched /\ Reply(i).matches = {SeverityOf[q] : q \in hits}
  BY <1>5 DEF Answer
<1> QED
  BY <1>2, <1>4, <1>6

\* What a rule finds that was handed to a constructor does not go on, if its
\* severity is to be redacted or stopped and none that is severer is treated more
\* leniently (_resolve_rules, inspect, evaluate, apply_redactions).
THEOREM HandedOverIsHandled == Spec => []FoundIsHandled
<1>1. IInv /\ WInv => FoundIsHandled
  <2> SUFFICES ASSUME IInv, WInv, outcome = "passed", Monotone(setup.policy),
                      NEW i \in DOMAIN setup.options,
                      Searches(setup.options[i]), setup.options[i].patterns # None,
                      setup.options[i].type = "mixed" => setup.options[i].combine # "all",
                      Answered(i), i \notin spoiled,
                      NEW r \in ToSet(setup.options[i].patterns),
                      Strength[Decide(setup.policy, SeverityOf[r])] >= Strength["redact"],
                      NEW f \in content.finds[r]
               PROVE  ~Occurs(f, text)
    BY DEF FoundIsHandled
  <2> DEFINE o == setup.options[i]
  <2>1. /\ decision \notin {"none", "block", "quarantine"} /\ decision = Decided
        /\ AllBuilt /\ detectors = [j \in DOMAIN setup.options |-> Built(j)]
        /\ results = [j \in DOMAIN setup.options |-> Reply(j)]
        /\ decision = "redact" => turn \notin DOMAIN detectors
        /\ turn \in 1..Len(setup.options) + 1
    BY DEF WInv, Progress, Settled
  <2>2. Situated /\ setup \in Setups /\ content \in Contents
    BY DEF IInv, Situated
  <2>3. DOMAIN setup.options = 1..Len(setup.options) /\ Len(setup.options) \in Nat
    BY <2>2, LenProperties, SetupsAssumption
  <2>4. /\ r \in ToSet(Built(i).rules) /\ r \in Pattern
        /\ Built(i).type = o.type /\ Built(i).combine = o.combine
    BY <2>1, <2>2, HandedOverIsInForce DEF AllBuilt, Built
  <2>5. content.length # 0
    BY <2>2, <2>4, ContentsAssumption DEF Span
  <2>6. Reply(i).status = "result"
    BY <2>1 DEF Answered
  <2>7. Reply(i).matched /\ SeverityOf[r] \in Reply(i).matches
    <3>1. o.combine \in {"any", "all", "precedence"}
      BY <2>2, SetupsAssumption
    <3>2. /\ Searches(Built(i))
          /\ Built(i).type = "mixed" => Built(i).combine \in {"any", "precedence"}
      BY <2>4, <3>1 DEF Searches
    <3> HIDE DEF o
    <3> QED
      BY <2>1, <2>2, <2>4, <2>5, <2>6, <3>2, FoundIsReported
  <2>8. i \in DOMAIN Detections /\ Detections[i] = Reply(i)
    BY <2>1, <2>6, <2>7 DEF Detections, Restrict, Matched, Answered
  <2>9. decision = Evaluate(setup.policy, Detections)
    BY <2>1 DEF Decided
  <2>10. decision = "redact"
    <3>1. SeverityOf[r] \in Candidates(Detections[i])
      BY <2>7, <2>8 DEF Candidates
    <3>2. \A k \in DOMAIN Detections : Detections[k].matches \subseteq Severity
      BY <2>1, <2>2, <2>3, DetectionsLabelled
    <3>3. setup.policy \in SeverityPolicies
      BY <2>2, SetupsAssumption
    <3>4. Strength[Decide(setup.policy, SeverityOf[r])] <= Strength[decision]
      BY <2>8, <2>9, <3>1, <3>2, <3>3, EvaluateIsStrict
    <3>5. decision \in Action
      BY <2>9, <3>2, <3>3, EvaluateActs
    <3>6. Decide(setup.policy, SeverityOf[r]) \in Action
      BY <3>3, DecideTyped
    <3> QED
      BY <2>1, <3>4, <3>5, <3>6 DEF Strength, Action
  <2>11. i < turn /\ i \in DOMAIN detectors
    BY <2>1, <2>3, <2>10
  <2>12. f \in Finds(i)
    BY <2>1, <2>4 DEF Finds
  <2> QED
    BY <2>10, <2>11, <2>12 DEF IInv, GoneBehind, Redacted, Gone
<1> QED
  BY <1>1, RedactionInvariant, CallInvariant, PTL
-----------------------------------------------------------------------------
(* What is not lost *)

\* A replacement loses no character but those it takes the place of.
LEMMA SpliceLosesNoOther ==
  ASSUME NEW t \in Seq(Nat), NEW start \in Nat, NEW end \in Nat, start <= end,
         NEW marker \in Nat \ {0},
         NEW c \in ToSet(t), c \notin ToSet(Splice(t, start, end, marker))
  PROVE  \E p \in DOMAIN t : p \in start + 1..end /\ t[p] = c
<1> DEFINE front == FrontOf(t, start)
           back == BackOf(t, end)
           s == Splice(t, start, end, marker)
<1>1. Len(t) \in Nat /\ DOMAIN t = 1..Len(t)
  BY LenProperties
<1>2. /\ s \in Seq(Nat)
      /\ Len(s) = front + marker + back
      /\ \A j \in 1..front : s[j] = t[j]
      /\ \A j \in front + marker + 1..Len(s) : s[j] = t[j - front - marker + end]
  BY SpliceProperties
<1>3. front \in 0..Len(t) /\ back \in Nat
  BY <1>1 DEF FrontOf, BackOf
<1>4. DOMAIN s = 1..Len(s)
  BY <1>2, LenProperties
<1>5. PICK p \in DOMAIN t : t[p] = c
  BY DEF ToSet
<1> HIDE DEF front, back, s
<1>6. \A j \in DOMAIN s : s[j] # c
  BY DEF ToSet, s
<1>7. start < p
  <2> SUFFICES ASSUME p <= start
               PROVE  FALSE
    BY <1>1
  <2>1. p \in 1..front
    BY <1>1 DEF front, FrontOf
  <2>2. p \in DOMAIN s
    BY <1>2, <1>3, <1>4, <2>1
  <2> QED
    BY <1>2, <1>5, <1>6, <2>1, <2>2
<1>8. p <= end
  <2> SUFFICES ASSUME end < p
               PROVE  FALSE
    BY <1>1
  <2>0. p \in 1..Len(t) /\ p \in Nat /\ end < Len(t) /\ start < Len(t)
    BY <1>1
  <2>1. back = Len(t) - end /\ front = start /\ end < Len(t)
    BY <2>0 DEF back, front, FrontOf, BackOf
  <2> DEFINE j == p - end + front + marker
  <2>2. j \in front + marker + 1..Len(s) /\ j \in 1..Len(s) /\ j - front - marker + end = p
    <3>1. Len(s) = start + marker + (Len(t) - end) /\ front = start
      BY <1>2, <2>1
    <3>2. p \in Nat /\ p <= Len(t) /\ end < p /\ Len(t) \in Nat /\ j = p - end + start + marker
      BY <1>1, <2>0, <3>1
    <3> HIDE DEF j
    <3>3. start \in Nat /\ end \in Nat /\ marker \in Nat
      OBVIOUS
    <3>4. j \in Nat /\ start + marker + 1 <= j /\ j <= start + marker + (Len(t) - end)
      BY <3>2, <3>3
    <3>5. j - start - marker + end = p
      BY <3>2, <3>3
    <3> QED
      BY <3>1, <3>2, <3>3, <3>4, <3>5
  <2> HIDE DEF j
  <2> QED
    BY <1>2, <1>4, <1>5, <1>6, <2>2
<1> QED
  BY <1>1, <1>5, <1>7, <1>8

\* Entities are applied only to what their offsets refer to.
Exact == \A i \in DOMAIN detectors : DOMAIN EntitiesOf(i) = {} \/ OffsetsHold(i)

\* Every character is in the text or was found.
Accounted(t) ==
  \A c \in 1..content.length :
    c \in ToSet(t) \/ \E i \in DOMAIN detectors :
      c \in EntityCells(i) \/ \E f \in Finds(i) : c \in Cells(f)

NoneLost == Exact => Accounted(text) /\ Accounted(before)

LEMMA OriginalLosesNone ==
  ASSUME content \in Contents, text = Original, before = Original
  PROVE  NoneLost
BY OriginalLegible DEF NoneLost, Accounted

\* While a text is rewritten nothing else changes what is accounted for.
LEMMA AccountIfKept ==
  ASSUME UNCHANGED <<content, detectors, results>>,
         Exact => Accounted(text') /\ Accounted(before')
  PROVE  NoneLost'
<1>1. \A i : EntitiesOf(i)' = EntitiesOf(i) /\ Finds(i)' = Finds(i)
  BY DEF EntitiesOf, Matched, Answered, Finds
<1>2. Exact' = Exact
  BY <1>1 DEF Exact, OffsetsHold, ExactAt, Disjoint
<1>3. \A i : EntityCells(i)' = EntityCells(i)
  BY <1>1 DEF EntityCells
<1>4. Accounted(text)' = Accounted(text') /\ Accounted(before)' = Accounted(before')
  BY <1>1, <1>3 DEF Accounted
<1> QED
  BY <1>2, <1>4 DEF NoneLost

LEMMA ReplaceMatchLosesNone == IInv /\ NoneLost /\ ReplaceMatch => NoneLost'
<1> SUFFICES ASSUME IInv, NoneLost, ReplaceMatch
             PROVE  NoneLost'
  OBVIOUS
<1> DEFINE marker == MarkerLength[Rules[rule]]
<1>1. /\ phase = "rules" /\ Redacting /\ rule \in DOMAIN Rules
      /\ UNCHANGED <<content, detectors, results, before>>
  BY DEF ReplaceMatch, fixed, inspected
<1>2. Situated /\ text \in Seq(Nat) /\ Len(text) \in Nat /\ at \in Nat \ {0}
  BY LenProperties DEF IInv, Situated
<1>3. PICK k \in Starts, f \in content.finds[Rules[rule]] :
        /\ OccursAt(f, text, k)
        /\ text' = Splice(text, k - 1, k - 1 + Width(f), marker)
  BY DEF ReplaceMatch
<1>4. marker \in Nat \ {0} /\ f \in Span /\ f.start < f.end
  BY <1>1, <1>2, FindingsAreSpans DEF Redacting, Rules
<1>5. k \in Nat \ {0} /\ f.start \in Nat /\ f.end \in Nat
  BY <1>2, <1>4 DEF Starts, Span
<1>6. f \in Finds(turn)
  BY <1>1, <1>3 DEF Finds, Rules, ToSet
<1> SUFFICES ASSUME Exact
             PROVE  Accounted(text') /\ Accounted(before)
  BY <1>1, AccountIfKept
<1>7. Accounted(text) /\ Accounted(before)
  BY DEF NoneLost
<1>8. ASSUME NEW c \in ToSet(text), c \notin ToSet(text')
      PROVE  c \in Cells(f)
  <2> DEFINE start == k - 1
             end == k - 1 + Width(f)
  <2>1. start \in Nat /\ end \in Nat /\ start <= end
    BY <1>4, <1>5 DEF Width
  <2>2. PICK p \in DOMAIN text : p \in start + 1..end /\ text[p] = c
    <3> HIDE DEF start, end, marker
    <3>1. text' = Splice(text, start, end, marker)
      BY <1>3 DEF start, end, marker
    <3> QED
      BY <1>2, <1>4, <1>8, <2>1, <3>1, SpliceLosesNoOther
  <2>3. p - k \in 0..Width(f) - 1 /\ k + (p - k) = p
    BY <1>4, <1>5, <2>2 DEF Width
  <2>4. text[p] = f.start + 1 + (p - k)
    BY <1>3, <2>3 DEF OccursAt
  <2> QED
    BY <1>5, <2>2, <2>3, <2>4 DEF Cells, Width
<1>9. Accounted(text')
  BY <1>1, <1>6, <1>7, <1>8 DEF Accounted, Redacting
<1> QED
  BY <1>7, <1>9

\* An entity that is where its offsets say takes nothing else with it.
LEMMA EntityTakesItself ==
  ASSUME IInv, EInv, ReplaceEntity, Untouched(turn), Disjoint(EntitiesOf(turn))
  PROVE  \A c \in ToSet(text) \ {Mark} : c \in ToSet(text') \/ c \in EntityCells(turn)
<1> DEFINE E == EntitiesOf(turn)
           marker == MarkerLength[None]
<1>1. Situated /\ phase = "entities" /\ todo \subseteq DOMAIN E
  BY DEF IInv, EntitiesWait, ReplaceEntity
<1>2. text \in Seq(Nat) /\ marker \in Nat \ {0} /\ DOMAIN text = 1..Len(text)
  BY <1>1, MarkerAssumption, LenProperties DEF Situated
<1>3. PICK k \in todo :
        /\ E[k].start \in Nat /\ E[k].end \in Nat /\ E[k].start <= E[k].end
        /\ text' = Splice(text, E[k].start, E[k].end, marker)
  BY EntitiesHavePlaces
<1>4. InPlace(E[k].end, text)
  BY <1>1 DEF EInv, HalfWay
<1> HIDE DEF E, marker
<1> SUFFICES ASSUME NEW c \in ToSet(text), c # Mark, c \notin ToSet(text')
             PROVE  c \in EntityCells(turn)
  OBVIOUS
<1> DEFINE start == E[k].start
           end == E[k].end
<1>5. PICK p \in DOMAIN text : p \in start + 1..end /\ text[p] = c
  <2>1. start \in Nat /\ end \in Nat /\ start <= end /\ text' = Splice(text, start, end, marker)
    BY <1>3
  <2> HIDE DEF start, end
  <2> QED
    BY <1>2, <2>1, SpliceLosesNoOther
<1>6. p \in 1..Len(text) /\ p \in Nat /\ p <= end
  BY <1>2, <1>3, <1>5
<1>7. text[p] = p
  BY <1>3, <1>4, <1>5, <1>6 DEF InPlace
<1>8. c \in Cells(E[k])
  BY <1>5, <1>7 DEF Cells
<1> QED
  BY <1>1, <1>8 DEF EntityCells, E

LEMMA ReplaceEntityLosesNone == IInv /\ EInv /\ NoneLost /\ ReplaceEntity => NoneLost'
<1> SUFFICES ASSUME IInv, EInv, NoneLost, ReplaceEntity
             PROVE  NoneLost'
  OBVIOUS
<1>1. /\ phase = "entities" /\ Redacting
      /\ UNCHANGED <<content, detectors, results, before>>
  BY DEF IInv, EntitiesWait, ReplaceEntity, fixed, inspected
<1> SUFFICES ASSUME Exact
             PROVE  Accounted(text') /\ Accounted(before)
  BY <1>1, AccountIfKept
<1>2. Accounted(text) /\ Accounted(before)
  BY DEF NoneLost
<1>3. DOMAIN EntitiesOf(turn) = {} \/ OffsetsHold(turn)
  BY <1>1 DEF Exact, Redacting
<1>4. OffsetsHold(turn)
  BY <1>1, <1>3, EntitiesHavePlaces DEF IInv, EntitiesWait
<1>5. Untouched(turn) /\ Disjoint(EntitiesOf(turn))
  BY <1>4 DEF OffsetsHold, ExactAt, Untouched
<1>6. \A c \in ToSet(text) \ {Mark} : c \in ToSet(text') \/ c \in EntityCells(turn)
  BY <1>5, EntityTakesItself
<1>7. \A c \in 1..content.length : c # Mark
  BY DEF Mark
<1>8. Accounted(text')
  BY <1>1, <1>2, <1>6, <1>7 DEF Accounted, Redacting
<1> QED
  BY <1>2, <1>8

\* Redaction takes away what was found and nothing else, and leaves the rest in its
\* order, wherever entities are applied to the text their offsets refer to
\* (Detector.redact, apply_redactions).
THEOREM NothingElseIsLost == Spec => []NothingElseLost
<1>1. Init => NoneLost
  BY OriginalLosesNone DEF Init
<1>2. IInv /\ WInv /\ EInv /\ NoneLost /\ [Next]_vars => NoneLost'
  <2> SUFFICES ASSUME IInv, WInv, EInv, NoneLost, [Next]_vars
               PROVE  NoneLost'
    OBVIOUS
  <2>1. CASE BuildGuard \/ InspectNext \/ Enforce
    <3>1. /\ decision # "redact"
          /\ UNCHANGED <<content, text, before>>
      BY <2>1 DEF IInv, Situated, BuildGuard, InspectNext, Enforce, End, fixed
    <3>2. text' = Original /\ before' = Original /\ content \in Contents
      BY <3>1 DEF WInv, Writing, IInv, Situated
    <3>3. ToSet(Original) = 1..content.length
      BY <3>2, OriginalLegible
    <3> QED
      BY <3>1, <3>2, <3>3 DEF NoneLost, Accounted
  <2>2. CASE ReplaceMatch
    BY <2>2, ReplaceMatchLosesNone
  <2>3. CASE ReplaceEntity
    BY <2>3, ReplaceEntityLosesNone
  <2>4. CASE NextRule \/ CheckEntities \/ HandOn \/ UNCHANGED vars
    <3>1. UNCHANGED <<content, detectors, results, text, before>>
      BY <2>4 DEF NextRule, CheckEntities, HandOn, End, fixed, inspected, vars
    <3> QED
      BY <3>1, AccountIfKept DEF NoneLost
  <2>5. CASE RedactionFails
    <3>1. UNCHANGED <<content, detectors, results, before>> /\ text' = before
      BY <2>5 DEF RedactionFails, End, fixed, inspected
    <3> QED
      BY <3>1, AccountIfKept DEF NoneLost
  <2>6. CASE NextDetector
    <3>1. UNCHANGED <<content, detectors, results, text>> /\ before' = text
      BY <2>6 DEF NextDetector, fixed, inspected
    <3> QED
      BY <3>1, AccountIfKept DEF NoneLost
  <2> QED
    BY <2>1, <2>2, <2>3, <2>4, <2>5, <2>6 DEF Next, Terminated
<1>3. WInv /\ NoneLost => NothingElseLost
  BY DEF WInv, Writing, Legible, Ordered, NoneLost, Exact, Accounted, NothingElseLost
<1> QED
  BY <1>1, <1>2, <1>3, RedactionInvariant, CallInvariant, HidingInvariant, PTL DEF Spec
-----------------------------------------------------------------------------
(* The redaction as the masking of whole detectors *)

\* In a text whose characters stand in their order, all characters of a finding
\* stand side by side.
LEMMA AllThereIsOccurring ==
  ASSUME NEW t \in Seq(Nat), Ordered(t), NEW f \in Span, f.start < f.end,
         Cells(f) \subseteq ToSet(t)
  PROVE  Occurs(f, t)
<1>1. f.start \in Nat /\ f.end \in Nat
  BY DEF Span
<1>2. Len(t) \in Nat /\ DOMAIN t = 1..Len(t)
  BY LenProperties
<1>3. \A i \in 0..Width(f) - 1 : \E p \in 1..Len(t) : t[p] = f.start + 1 + i
  <2> SUFFICES ASSUME NEW i \in 0..Width(f) - 1
               PROVE  f.start + 1 + i \in Cells(f)
    BY <1>2 DEF ToSet
  <2> QED
    BY <1>1 DEF Cells, Width
<1>4. PICK k \in 1..Len(t) : t[k] = f.start + 1
  <2>1. 0 \in 0..Width(f) - 1 /\ f.start + 1 + 0 = f.start + 1
    BY <1>1 DEF Width
  <2> QED
    BY <1>3, <2>1
<1> DEFINE Stray == {i \in 0..Width(f) - 1 :
                       ~(k + i \in 1..Len(t) /\ t[k + i] = f.start + 1 + i)}
<1>5. Stray = {}
  <2> SUFFICES ASSUME Stray # {}
               PROVE  FALSE
    OBVIOUS
  <2>1. PICK i \in Stray : \A j \in Stray : i <= j
    <3>1. Stray \subseteq Nat
      OBVIOUS
    <3> HIDE DEF Stray
    <3> QED
      BY <3>1, LeastNumber
  <2>2. i \in Nat /\ i \in 0..Width(f) - 1 /\ i # 0 /\ Width(f) \in Nat
    <3>1. Width(f) \in Nat
      BY <1>1 DEF Width
    <3>2. 0 \notin Stray
      <4>1. k + 0 = k /\ f.start + 1 + 0 = f.start + 1
        BY <1>1, <1>2
      <4> QED
        BY <1>4, <4>1
    <3> QED
      BY <3>1, <3>2
  <2>3. i - 1 \in 0..Width(f) - 1 /\ i - 1 \notin Stray
    BY <2>1, <2>2
  <2>4. k + (i - 1) \in 1..Len(t) /\ t[k + (i - 1)] = f.start + 1 + (i - 1)
    BY <2>3
  <2> HIDE DEF Stray
  <2>5. PICK p \in 1..Len(t) : t[p] = f.start + 1 + i
    BY <1>3, <2>2
  <2> DEFINE q == k + (i - 1)
  <2>6. q \in 1..Len(t) /\ p \in 1..Len(t) /\ t[p] = t[q] + 1 /\ t[q] # Mark /\ t[p] # Mark
    <3>1. t[q] = f.start + i /\ t[p] = f.start + i + 1
      BY <1>1, <2>2, <2>4, <2>5
    <3>2. f.start + i \in Nat /\ f.start + i # 0 /\ f.start + i + 1 # 0
      BY <1>1, <2>2
    <3> QED
      BY <2>4, <3>1, <3>2 DEF Mark
  <2>7. q + 1 = k + i
    BY <1>4, <2>2
  <2> HIDE DEF q
  <2>8. t[q] \in Nat /\ t[p] \in Nat
    BY <2>6, ElementOfSeq
  <2>9. ~(p < q)
    <3>1. p < q => t[p] < t[q]
      BY <1>2, <2>6 DEF Ordered
    <3> QED
      BY <2>6, <2>8, <3>1
  <2>10. p # q
    BY <2>6, <2>8
  <2>11. p = q + 1
    <3>1. q < p
      BY <1>2, <2>6, <2>9, <2>10
    <3> QED
      BY <1>2, <2>6, <3>1 DEF Ordered
  <2>12. i \notin Stray
    BY <2>5, <2>7, <2>11 DEF Stray
  <2> QED
    BY <2>1, <2>12
<1>6. \A i \in 0..Width(f) - 1 : k + i \in 1..Len(t) /\ t[k + i] = f.start + 1 + i
  BY <1>5
<1>7. k + Width(f) <= Len(t) + 1
  <2>1. Width(f) - 1 \in 0..Width(f) - 1
    BY <1>1 DEF Width
  <2>2. k + (Width(f) - 1) <= Len(t)
    BY <1>6, <2>1
  <2> QED
    BY <1>1, <1>2, <1>4, <2>2 DEF Width
<1> QED
  BY <1>6, <1>7 DEF Occurs, OccursAt

\* While entities that are where their offsets say are replaced, nothing else of
\* what the detector was given is lost.
OnlyEntities ==
  phase = "entities" /\ Untouched(turn) /\ Disjoint(EntitiesOf(turn)) =>
    ToSet(before) \subseteq ToSet(text) \cup EntityCells(turn) \cup {Mark}

LEMMA OnlyEntitiesStep ==
  ASSUME IInv, EInv, WInv, OnlyEntities, [Next]_vars
  PROVE  OnlyEntities'
<1>1. ASSUME UNCHANGED <<content, detectors, results, turn>>
      PROVE  /\ Untouched(turn)' = Untouched(turn)
             /\ Disjoint(EntitiesOf(turn))' = Disjoint(EntitiesOf(turn))
             /\ EntityCells(turn)' = EntityCells(turn)
  <2>1. \A i : EntitiesOf(i)' = EntitiesOf(i) /\ Finds(i)' = Finds(i)
    BY <1>1 DEF EntitiesOf, Matched, Answered, Finds
  <2> QED
    BY <1>1, <2>1 DEF Untouched, Disjoint, EntityCells
<1>2. CASE CheckEntities
  <2>1. /\ phase = "rules" /\ Redacting
        /\ UNCHANGED <<content, detectors, results, turn, text, before>>
    BY <1>2 DEF CheckEntities, fixed, inspected
  <2>2. Untouched(turn) => text = Original
    BY <2>1 DEF EInv, NotYet
  <2>3. ToSet(Original) = 1..content.length
    BY OriginalLegible DEF IInv, Situated
  <2>4. ToSet(before) \subseteq 1..content.length \cup {Mark}
    <3>1. before \in Seq(0..content.length) /\ content.length \in Nat
      BY ContentsAssumption DEF WInv, Writing, Legible, IInv, Situated
    <3>2. \A p \in DOMAIN before : before[p] \in 0..content.length
      BY <3>1, LenProperties, ElementOfSeq
    <3>3. 0..content.length \subseteq 1..content.length \cup {Mark}
      BY <3>1 DEF Mark
    <3> QED
      BY <3>2, <3>3 DEF ToSet
  <2> QED
    BY <1>1, <2>1, <2>2, <2>3, <2>4 DEF OnlyEntities
<1>3. CASE ReplaceEntity
  <2>1. phase = "entities" /\ UNCHANGED <<content, detectors, results, turn, before, phase>>
    BY <1>3 DEF ReplaceEntity, fixed, inspected
  <2> SUFFICES ASSUME Untouched(turn), Disjoint(EntitiesOf(turn))
               PROVE  ToSet(before) \subseteq ToSet(text') \cup EntityCells(turn) \cup {Mark}
    BY <1>1, <2>1 DEF OnlyEntities
  <2>2. \A c \in ToSet(text) \ {Mark} : c \in ToSet(text') \/ c \in EntityCells(turn)
    BY <1>3, EntityTakesItself
  <2> QED
    BY <2>1, <2>2 DEF OnlyEntities
<1>4. CASE BuildGuard \/ InspectNext \/ Enforce \/ ReplaceMatch \/ NextRule \/ RedactionFails
           \/ NextDetector \/ HandOn
  <2>1. phase' # "entities"
    BY <1>4 DEF BuildGuard, InspectNext, Enforce, ReplaceMatch, NextRule, RedactionFails,
                NextDetector, HandOn, End
  <2> QED
    BY <2>1 DEF OnlyEntities
<1>5. CASE UNCHANGED vars
  <2>1. UNCHANGED <<content, detectors, results, turn, before, phase, text>>
    BY <1>5 DEF vars
  <2> QED
    BY <1>1, <2>1 DEF OnlyEntities
<1> QED
  BY <1>2, <1>3, <1>4, <1>5 DEF Next, Terminated

\* What the masking is told of the detectors is what they were built as and
\* answered.
LEMMA MaskedAsAnswered ==
  ASSUME IInv, WInv, decision # "none"
  PROVE  /\ Guarding = DOMAIN detectors
         /\ \A i \in DOMAIN detectors :
              /\ EntitiesOf(i) = ReplyEntities(i)
              /\ Finds(i) = ReplyFinds(i)
              /\ EntityCells(i) = ReplyCells(i)
<1>1. /\ AllBuilt /\ detectors = [i \in DOMAIN setup.options |-> Built(i)]
      /\ results = [i \in DOMAIN setup.options |-> Reply(i)]
  BY DEF WInv, Settled
<1>2. Guarding = DOMAIN detectors
  BY <1>1 DEF Guarding, AllBuilt
<1>3. ASSUME NEW i \in DOMAIN detectors
      PROVE  EntitiesOf(i) = ReplyEntities(i) /\ Finds(i) = ReplyFinds(i)
  <2>1. i \in DOMAIN results /\ results[i] = Reply(i) /\ detectors[i] = Built(i)
    BY <1>1
  <2> QED
    BY <2>1 DEF EntitiesOf, ReplyEntities, Matched, Answered, Finds, ReplyFinds
<1>4. \A i \in DOMAIN detectors : EntityCells(i) = ReplyCells(i)
  BY <1>3 DEF EntityCells, ReplyCells
<1> QED
  BY <1>2, <1>3, <1>4
-----------------------------------------------------------------------------
\* Nobody finds anything else on the way.
LEMMA SameFindings ==
  ASSUME UNCHANGED <<setup, content>>
  PROVE  UNCHANGED M!found
<1>1. Guarding' = Guarding
  BY DEF Guarding, Built
<1>2. \A i : /\ ReplyFinds(i)' = ReplyFinds(i)
             /\ ReplyEntities(i)' = ReplyEntities(i)
  BY DEF ReplyFinds, ReplyEntities, Reply, Built
<1>3. \A i : ReplyCells(i)' = ReplyCells(i)
  BY <1>2 DEF ReplyCells
<1>4. \A i : ExactAt(i, ReplyFinds, ReplyEntities)' <=> ExactAt(i, ReplyFinds, ReplyEntities)
  BY <1>2 DEF ExactAt, Disjoint
<1>5. {i \in Guarding : ExactAt(i, ReplyFinds, ReplyEntities)}'
        = {i \in Guarding : ExactAt(i, ReplyFinds, ReplyEntities)}
  BY <1>1, <1>4
<1>6. {i \in Guarding : ~Valid(ReplyEntities(i))}' = {i \in Guarding : ~Valid(ReplyEntities(i))}
  BY <1>1, <1>2 DEF Valid
<1>7. [i \in Guarding |-> {Cells(f) : f \in ReplyFinds(i)}]'
        = [i \in Guarding |-> {Cells(f) : f \in ReplyFinds(i)}]
  BY <1>1, <1>2
<1>8. [i \in Guarding |-> ReplyCells(i) \cap 1..content.length]'
        = [i \in Guarding |-> ReplyCells(i) \cap 1..content.length]
  BY <1>1, <1>3
<1> QED
  BY <1>5, <1>6, <1>7, <1>8 DEF M!found

\* The one detector whose turn it is breaks what its rules found, and hides what
\* its model reported if that is where the offsets say, and nothing else.
LEMMA DetectorMasks ==
  ASSUME IInv, EInv, WInv, OnlyEntities, NextDetector
  PROVE  M!MaskOne
<1>1. /\ phase = "entities" /\ todo = {} /\ before' = text /\ turn' = turn + 1
      /\ UNCHANGED <<setup, content, detectors, results, decision, outcome, text>>
  BY DEF NextDetector, fixed, inspected
<1>2. /\ Situated /\ content \in Contents /\ Redacting /\ Valid(EntitiesOf(turn))
      /\ decision = "redact" /\ outcome = "none"
  BY <1>1 DEF IInv, Situated, EntitiesWait, WInv, Progress
<1>3. /\ Guarding = DOMAIN detectors
      /\ \A i \in DOMAIN detectors :
           /\ EntitiesOf(i) = ReplyEntities(i)
           /\ Finds(i) = ReplyFinds(i)
           /\ EntityCells(i) = ReplyCells(i)
  BY <1>2, MaskedAsAnswered
<1>4. turn \in DOMAIN detectors
  BY <1>2 DEF Redacting
<1> DEFINE chars == 1..content.length
           hides == chars \ ToSet(before)
           hidden == chars \ ToSet(text)
<1>5. \A c \in chars : c # Mark
  BY DEF Mark
<1>6. hides \subseteq hidden
  BY <1>5 DEF WInv, Writing
<1>7. ASSUME NEW f \in ReplyFinds(turn)
      PROVE  Cells(f) \cap hidden # {}
  <2>1. ~Occurs(f, text) /\ f \in Finds(turn)
    BY <1>1, <1>3, <1>4, RulesAreThrough DEF Gone
  <2>2. f \in Span /\ f.start < f.end /\ f.end <= content.length
    <3>1. PICK r \in ToSet(detectors[turn].rules) : f \in content.finds[r]
      BY <2>1 DEF Finds
    <3>2. r \in Pattern
      <4>1. detectors[turn].rules \in Seq(Pattern)
        BY <1>1, <1>2, <1>4, FindingsAreSpans
      <4>2. \A q \in DOMAIN detectors[turn].rules : detectors[turn].rules[q] \in Pattern
        BY <4>1, LenProperties, ElementOfSeq
      <4> QED
        BY <4>2 DEF ToSet
    <3> QED
      BY <1>2, <3>1, <3>2, ContentsAssumption
  <2>3. Cells(f) \subseteq chars
    <3>1. f.start \in Nat /\ f.end \in Nat /\ content.length \in Nat
      BY <1>2, <2>2, ContentsAssumption DEF Span
    <3> QED
      BY <2>2, <3>1 DEF Cells
  <2>4. ~(Cells(f) \subseteq ToSet(text))
    BY <1>2, <2>1, <2>2, AllThereIsOccurring DEF WInv, Writing, Legible, Situated
  <2> QED
    BY <2>3, <2>4
<1>8. ASSUME ExactAt(turn, ReplyFinds, ReplyEntities)
      PROVE  /\ ReplyCells(turn) \cap chars \subseteq hidden
             /\ hidden \subseteq hides \cup (ReplyCells(turn) \cap chars)
  <2>1. Untouched(turn) /\ Disjoint(EntitiesOf(turn))
    <3>1. turn \in Nat /\ 1..turn \subseteq DOMAIN detectors /\ 1..turn - 1 \subseteq DOMAIN detectors
      <4>1. DOMAIN detectors = 1..Len(setup.options) /\ Len(setup.options) \in Nat
        BY <1>1, <1>2, LenProperties, SetupsAssumption DEF Situated
      <4> QED
        BY <1>4, <4>1
    <3> QED
      BY <1>3, <1>4, <1>8, <3>1 DEF ExactAt, Untouched
  <2>2. EntityCells(turn) \cap ToSet(text) = {}
    <3>1. \A k \in DOMAIN EntitiesOf(turn) : Cells(EntitiesOf(turn)[k]) \cap ToSet(text) = {}
      BY <1>1, <2>1 DEF EInv, HalfWay
    <3> QED
      BY <3>1 DEF EntityCells
  <2>3. ToSet(before) \subseteq ToSet(text) \cup EntityCells(turn) \cup {Mark}
    BY <1>1, <2>1 DEF OnlyEntities
  <2> QED
    BY <1>3, <1>4, <1>5, <2>2, <2>3
<1>9. UNCHANGED M!found
  BY <1>1, SameFindings
<1>10. turn \in Guarding \ {i \in Guarding : ~Valid(ReplyEntities(i))}
  BY <1>2, <1>3, <1>4
<1> DEFINE findings == [i \in Guarding |-> {Cells(f) : f \in ReplyFinds(i)}]
           entities == [i \in Guarding |-> ReplyCells(i) \cap chars]
           exact == {i \in Guarding : ExactAt(i, ReplyFinds, ReplyEntities)}
<1>11. turn \in DOMAIN findings \ {i \in Guarding : ~Valid(ReplyEntities(i))}
  BY <1>10
<1>12. \A f \in findings[turn] : f \cap hidden # {}
  BY <1>3, <1>4, <1>7
<1>13. turn \in exact => /\ entities[turn] \subseteq hidden
                         /\ hidden \subseteq hides \cup (UNION findings[turn]) \cup entities[turn]
  <2>1. entities[turn] = ReplyCells(turn) \cap chars
    BY <1>3, <1>4
  <2> HIDE DEF findings, entities, hidden, hides, chars
  <2> QED
    BY <1>8, <2>1
<1>14. (1..content.length \ ToSet(before))' = hidden
  BY <1>1
<1>15. /\ (IF decision = "redact" THEN turn ELSE 1) = turn
       /\ (IF decision = "redact" THEN turn ELSE 1)' = turn + 1
       /\ UNCHANGED <<outcome, decision>>
  BY <1>1, <1>2
<1> QED
  BY <1>2, <1>6, <1>9, <1>11, <1>12, <1>13, <1>14, <1>15 DEF M!MaskOne

\* A step of a call is one step of the masking, or none.
LEMMA MaskingStep ==
  ASSUME IInv, EInv, WInv, OnlyEntities, [Next]_vars
  PROVE  [M!MaskingNext]_(M!maskingVars)
<1>1. UNCHANGED <<setup, content>> /\ UNCHANGED M!found
  <2>1. UNCHANGED <<setup, content>>
    BY DEF Next, BuildGuard, InspectNext, Enforce, ReplaceMatch, NextRule, CheckEntities,
           RedactionFails, ReplaceEntity, NextDetector, HandOn, Terminated, fixed, vars
  <2> QED
    BY <2>1, SameFindings
<1>2. UNCHANGED M!found => \/ M!maskingVars' = M!maskingVars
                           \/ ~UNCHANGED <<outcome, decision, turn, content, before>>
  BY DEF M!maskingVars, M!found
<1>3. CASE BuildGuard \/ InspectNext
  <2>1. /\ decision = "none" /\ outcome = "none" /\ outcome' \in {"none", "refused"}
        /\ UNCHANGED <<decision, before>>
    BY <1>3 DEF IInv, Situated, WInv, Progress, BuildGuard, InspectNext, End
  <2>2. CASE outcome' = "none"
    BY <1>1, <2>1, <2>2 DEF M!maskingVars, M!found
  <2>3. CASE outcome' = "refused"
    BY <1>1, <2>1, <2>3 DEF M!MaskingNext, M!Decide
  <2> QED
    BY <2>1, <2>2, <2>3
<1>4. CASE Enforce
  <2>1. /\ decision = "none" /\ outcome = "none" /\ turn' = 1 /\ before' = before
        /\ \/ decision' = "redact" /\ outcome' = "none"
           \/ decision' # "redact" /\ outcome' \in {"stopped", "passed"}
    BY <1>4 DEF IInv, Situated, WInv, Progress, Enforce, End
  <2> QED
    BY <1>1, <2>1 DEF M!MaskingNext, M!Decide
<1>5. CASE ReplaceMatch \/ NextRule \/ CheckEntities \/ ReplaceEntity \/ UNCHANGED vars
  <2>1. UNCHANGED <<outcome, decision, turn, before>>
    BY <1>5 DEF ReplaceMatch, NextRule, CheckEntities, ReplaceEntity, inspected, vars
  <2> QED
    BY <1>1, <1>2, <2>1
<1>6. CASE RedactionFails
  <2>1. /\ phase = "rules" /\ Redacting /\ ~Valid(EntitiesOf(turn))
        /\ UNCHANGED <<decision, before>>
        /\ \/ turn' = turn + 1 /\ outcome' = outcome
           \/ turn' = turn /\ outcome' = "stopped"
    BY <1>6 DEF RedactionFails, End, inspected
  <2>2. decision = "redact" /\ outcome = "none"
    BY <2>1 DEF WInv, Progress
  <2>3. turn \in Guarding /\ ~Valid(ReplyEntities(turn))
    BY <2>1, <2>2, MaskedAsAnswered DEF Redacting
  <2>4. CASE turn' = turn + 1 /\ outcome' = outcome
    BY <1>1, <2>1, <2>2, <2>3, <2>4 DEF M!MaskingNext, M!Skip
  <2>5. CASE turn' = turn /\ outcome' = "stopped"
    BY <1>1, <2>1, <2>2, <2>3, <2>5 DEF M!MaskingNext, M!Refuse
  <2> QED
    BY <2>1, <2>4, <2>5
<1>7. CASE NextDetector
  BY <1>7, DetectorMasks DEF M!MaskingNext
<1>8. CASE HandOn
  <2>1. phase = "rules" /\ ~Redacting /\ outcome' = "passed" /\ UNCHANGED <<decision, before, turn>>
    BY <1>8 DEF HandOn, End, inspected
  <2>2. decision = "redact" /\ outcome = "none"
    BY <2>1 DEF WInv, Progress
  <2>3. turn \notin Guarding
    BY <2>1, <2>2, MaskedAsAnswered DEF Redacting
  <2> QED
    BY <1>1, <2>1, <2>2, <2>3 DEF M!MaskingNext, M!Finish
<1> QED
  BY <1>3, <1>4, <1>5, <1>6, <1>7, <1>8 DEF Next, Terminated

\* The rewriting, rule by rule and entity by entity, implements the masking of
\* whole detectors: each breaks all that its rules found, hides what its model
\* reported where the offsets hold and takes nothing else, leaves no trace if it
\* fails, and nothing comes back.
THEOREM RedactionMasks == Spec => MaskingRefined
<1>1. Init => M!MaskingInit /\ OnlyEntities
  <2> SUFFICES ASSUME Init
               PROVE  M!MaskingInit /\ OnlyEntities
    OBVIOUS
  <2>1. 1..content.length \ ToSet(before) = {}
    BY OriginalLegible DEF Init
  <2> QED
    BY <2>1 DEF Init, M!MaskingInit, OnlyEntities
<1>2. IInv /\ EInv /\ WInv /\ OnlyEntities /\ [Next]_vars => OnlyEntities'
  BY OnlyEntitiesStep
<1>3. IInv /\ EInv /\ WInv /\ OnlyEntities /\ [Next]_vars => [M!MaskingNext]_(M!maskingVars)
  BY MaskingStep
<1> QED
  BY <1>1, <1>2, <1>3, RedactionInvariant, HidingInvariant, CallInvariant, PTL
     DEF Spec, MaskingRefined, M!MaskingSpec
=============================================================================
