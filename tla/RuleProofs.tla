----------------------------- MODULE RuleProofs -----------------------------
(***************************************************************************)
(* Proofs about the rules an operator sets: module Policy, for any         *)
(* engines, artifacts and number of overlapping evaluations that           *)
(* PolicyAssumption allows; and module Retention, for every catalog and    *)
(* every retention rule that RetentionAssumption allows.                   *)
(***************************************************************************)
EXTENDS Policy, Retention, SequenceTheorems, FiniteSetTheorems, WellFoundedInduction,
        TLAPS

Reasons == [rule : {"license", "vulnerability", "age", "waiver", "none"}, decision : 0..2]

\* The reasons that belong to a verdict on a at time t.
Story(a, t, waived) == Opinions(a, t) \o (IF waived THEN <<Reason("waiver", Allow)>> ELSE <<>>)

\* The verdict agrees with what the rules forbid and the waivers excuse.
Just(a, t, decision, waived) ==
    /\ waived <=> Forbidden(a, t) /\ InForce(a, t)
    /\ decision = Allow <=> ~Forbidden(a, t) \/ waived

Call == [pc : {"record", "returned"}, artifact : Artifacts, now : Nat, waived : BOOLEAN,
         decision : 0..2]
Entry == [artifact : Artifacts, time : Nat, decision : 0..2, waived : BOOLEAN,
          reasons : {"entry"} \X (1..Cardinality(PolicyCallers))]

Shape ==
    /\ engine \in Engines
    /\ policyClock \in Nat
    /\ calls \in [PolicyCallers -> Call \cup {NoCall}]
    /\ DOMAIN arrays = References
    /\ auditLog \in Seq(Entry)
    /\ listed \subseteq {"copy"} \X Nat

Returned == {c \in PolicyCallers : calls[c].pc = "returned"}

\* A call that has begun had usable findings and its verdict is just; until it
\* records it, its reasons are the whole story.
CallInv(c) ==
    calls[c] # NoCall =>
        /\ Scan(calls[c].artifact.answer) # ScanError
        /\ Just(calls[c].artifact, calls[c].now, calls[c].decision, calls[c].waived)
        /\ calls[c].pc = "record" =>
              arrays[<<"call", c>>] = Story(calls[c].artifact, calls[c].now, calls[c].waived)

\* Every entry has an array that no call and no reader has, and it is the whole
\* story.
EntryInv(i) ==
    LET e == auditLog[i] IN
    /\ e.reasons = <<"entry", i>>
    /\ Just(e.artifact, e.time, e.decision, e.waived)
    /\ arrays[<<"entry", i>>] = Story(e.artifact, e.time, e.waived)

\* There are as many arrays for entries as calls can need.
IndInv ==
    /\ Shape
    /\ Len(auditLog) <= Cardinality(Returned)
    /\ \A c \in PolicyCallers : CallInv(c)
    /\ \A i \in DOMAIN auditLog : EntryInv(i)
-----------------------------------------------------------------------------
\* A set of severities or decisions has a maximum.
LEMMA MaxOf ==
    ASSUME NEW D \in SUBSET (0..4), D # {}
    PROVE  Max(D) \in D /\ \A d \in D : Max(D) >= d
<1>1. \E x \in D : \A y \in D : x >= y
  <2>1. CASE 4 \in D
    BY <2>1
  <2>2. CASE 4 \notin D /\ 3 \in D
    BY <2>2
  <2>3. CASE 4 \notin D /\ 3 \notin D /\ 2 \in D
    BY <2>3
  <2>4. CASE 4 \notin D /\ 3 \notin D /\ 2 \notin D /\ 1 \in D
    BY <2>4
  <2>5. CASE 4 \notin D /\ 3 \notin D /\ 2 \notin D /\ 1 \notin D
    <3>1. PICK x \in D : TRUE
      OBVIOUS
    <3>2. \A y \in D : y = 0
      BY <2>5
    <3> QED
      BY <3>1, <3>2
  <2> QED
    BY <2>1, <2>2, <2>3, <2>4, <2>5
<1> QED
  BY <1>1 DEF Max

\* Usable findings are severities.
LEMMA ScanFacts ==
    ASSUME NEW a, Scan(a.answer) # ScanError
    PROVE  Scan(a.answer) \in SUBSET (0..4)
<1>1. \A raw : parseOSVSeverity(raw) \in 0..4
  BY DEF parseOSVSeverity, Low, Medium, High, Critical, Unknown
<1> QED
  BY <1>1 DEF Scan

\* MaxSeverity is the worst finding, and Unknown without findings.
LEMMA WorstFacts ==
    ASSUME NEW F \in SUBSET (0..4)
    PROVE  /\ MaxSeverity(F) \in 0..4
           /\ \A f \in F : MaxSeverity(F) >= f
           /\ F # {} => MaxSeverity(F) \in F
<1>1. F \cup {0} \in SUBSET (0..4) /\ F \cup {0} # {}
  OBVIOUS
<1>2. Max(F \cup {0}) \in F \cup {0} /\ \A d \in F \cup {0} : Max(F \cup {0}) >= d
  BY <1>1, MaxOf
<1>3. MaxSeverity(F) = Max(F \cup {0})
  BY DEF MaxSeverity, Unknown
<1>4. F # {} => MaxSeverity(F) \in F
  <2>1. SUFFICES ASSUME NEW f \in F, MaxSeverity(F) = 0
                 PROVE  0 \in F
    BY <1>2, <1>3
  <2>2. f \in 0..4 /\ 0 >= f
    BY <2>1, <1>2, <1>3
  <2> QED
    BY <2>2
<1>5. MaxSeverity(F) \in 0..4
  BY <1>1, <1>2, <1>3
<1>6. \A f \in F : MaxSeverity(F) >= f
  BY <1>2, <1>3
<1> QED
  BY <1>4, <1>5, <1>6

\* The vote of the vulnerability rule.
Vote(a) == evaluateVulnerabilities(a)[1].decision

\* It is one vote, against exactly the artifacts with a finding above a threshold.
LEMMA VoteFacts ==
    ASSUME engine \in Engines, NEW a, Scan(a.answer) # ScanError
    PROVE  /\ evaluateVulnerabilities(a) = <<Reason("vulnerability", Vote(a))>>
           /\ Vote(a) \in 0..2
           /\ Vote(a) # Allow <=>
                 \E s \in Scan(a.answer) : s > engine.rules.max \/ s > engine.rules.quarantine
           /\ Vote(a) = Deny <=> \E s \in Scan(a.answer) : s > engine.rules.max
<1> DEFINE F == Scan(a.answer)
           W == MaxSeverity(F)
           m == engine.rules.max
           q == engine.rules.quarantine
           d == CASE F = {} -> Allow
                  [] F # {} /\ W > m -> Deny
                  [] F # {} /\ W <= m /\ W > q -> Quarantine
                  [] OTHER -> Allow
<1>1. evaluateVulnerabilities(a) = <<Reason("vulnerability", d)>>
  BY DEF evaluateVulnerabilities
<1>2. Vote(a) = d
  BY <1>1 DEF Vote, Reason
<1>3. F \in SUBSET (0..4)
  BY ScanFacts
<1>4. W \in 0..4 /\ (\A f \in F : W >= f) /\ (F # {} => W \in F)
  BY <1>3, WorstFacts
<1>5. m \in 0..4 /\ q \in 0..4
  BY PolicyAssumption
<1>6. d \in 0..2 /\ (d # 0 <=> \E s \in F : s > m \/ s > q) /\ (d = 2 <=> \E s \in F : s > m)
  <2> HIDE DEF F, W, m, q
  <2>1. CASE F = {}
    BY <2>1 DEF Allow
  <2>2. CASE F # {} /\ W > m
    <3>1. d = 2
      BY <2>2, <1>4, <1>5 DEF Deny
    <3> QED
      BY <3>1, <2>2, <1>4, <1>5
  <2>3. CASE F # {} /\ W <= m /\ W > q
    <3>1. ~(W > m)
      BY <2>3, <1>4, <1>5
    <3>2. d = 1
      BY <2>3, <3>1 DEF Quarantine
    <3>3. \A s \in F : ~(s > m)
      BY <2>3, <1>3, <1>4, <1>5
    <3> QED
      BY <3>2, <3>3, <2>3, <1>4
  <2>4. CASE F # {} /\ W <= m /\ W <= q
    <3>1. ~(W > m) /\ ~(W > q)
      BY <2>4, <1>4, <1>5
    <3>2. d = 0
      BY <2>4, <3>1 DEF Allow
    <3>3. \A s \in F : ~(s > m) /\ ~(s > q)
      BY <2>4, <1>3, <1>4, <1>5
    <3> QED
      BY <3>2, <3>3
  <2>5. W > m \/ (W <= m /\ W > q) \/ (W <= m /\ W <= q)
    BY <1>4, <1>5
  <2> QED
    BY <2>1, <2>2, <2>3, <2>4, <2>5
<1> QED
  BY <1>1, <1>2, <1>6 DEF Allow, Deny

\* The license rule: no opinion, or one vote.
LEMMA LicenseFacts ==
    ASSUME engine \in Engines, NEW a
    PROVE  \/ /\ evaluateLicense(a) = <<>>
              /\ a.license \notin engine.rules.denied
           \/ \E d \in 0..2 :
                 /\ evaluateLicense(a) = <<Reason("license", d)>>
                 /\ d # Allow <=> a.license \in engine.rules.denied
<1>1. CASE a.license = NotNormalized
  <2>1. NotNormalized \notin engine.rules.denied
    BY PolicyAssumption
  <2> QED
    BY <1>1, <2>1 DEF evaluateLicense
<1>2. CASE a.license # NotNormalized /\ a.license \in engine.rules.denied
  <2>1. evaluateLicense(a) = <<Reason("license", 2)>>
    BY <1>2 DEF evaluateLicense, Deny
  <2> QED
    BY <2>1, <1>2 DEF Allow
<1>3. CASE a.license # NotNormalized /\ a.license \notin engine.rules.denied
  <2>1. evaluateLicense(a) = <<Reason("license", 0)>>
    BY <1>3 DEF evaluateLicense, Allow
  <2> QED
    BY <2>1, <1>3 DEF Allow
<1> QED
  BY <1>1, <1>2, <1>3

\* What the age rule holds back.
Young(a, t) ==
    engine.rules.minAge > 0 /\ a.published # 0 /\ t < a.published + engine.rules.minAge

\* The age rule: no opinion, or one vote.
LEMMA AgeFacts ==
    ASSUME engine \in Engines, NEW a \in Artifacts, NEW t \in Nat
    PROVE  \/ evaluateAge(a, t) = <<>> /\ ~Young(a, t)
           \/ \E d \in 0..2 :
                 /\ evaluateAge(a, t) = <<Reason("age", d)>>
                 /\ d # Allow <=> Young(a, t)
<1>1. engine.rules.minAge \in Nat /\ a.published \in Nat
  BY PolicyAssumption
<1>2. CASE a.published = 0 \/ engine.rules.minAge = 0
  <2>1. evaluateAge(a, t) = <<>>
    BY <1>2 DEF evaluateAge
  <2> QED
    BY <2>1, <1>1, <1>2 DEF Young
<1>3. CASE ~(a.published = 0 \/ engine.rules.minAge = 0) /\ t < a.published + engine.rules.minAge
  <2>1. evaluateAge(a, t) = <<Reason("age", 1)>>
    BY <1>3 DEF evaluateAge, Quarantine
  <2>2. Young(a, t)
    BY <1>1, <1>3 DEF Young
  <2> QED
    BY <2>1, <2>2 DEF Allow
<1>4. CASE /\ ~(a.published = 0 \/ engine.rules.minAge = 0)
           /\ ~(t < a.published + engine.rules.minAge)
  <2>1. evaluateAge(a, t) = <<Reason("age", 0)>>
    BY <1>4 DEF evaluateAge, Allow
  <2>2. ~Young(a, t)
    BY <1>4 DEF Young
  <2> QED
    BY <2>1, <2>2 DEF Allow
<1> QED
  BY <1>2, <1>3, <1>4

Votes(s) == {s[i].decision : i \in DOMAIN s}

\* The votes of two lists of reasons are those of their concatenation.
LEMMA VotesOfConcat ==
    ASSUME NEW s \in Seq(Reasons), NEW u \in Seq(Reasons)
    PROVE  s \o u \in Seq(Reasons) /\ Votes(s \o u) = Votes(s) \cup Votes(u)
<1>1. /\ s \o u \in Seq(Reasons)
      /\ Len(s \o u) = Len(s) + Len(u)
      /\ \A i \in 1..(Len(s) + Len(u)) :
            (s \o u)[i] = IF i <= Len(s) THEN s[i] ELSE u[i - Len(s)]
  BY ConcatProperties
<1>2. /\ DOMAIN s = 1..Len(s) /\ DOMAIN u = 1..Len(u)
      /\ DOMAIN (s \o u) = 1..(Len(s) + Len(u))
      /\ Len(s) \in Nat /\ Len(u) \in Nat
  BY <1>1, LenProperties
<1>3. ASSUME NEW v \in Votes(s \o u) PROVE v \in Votes(s) \cup Votes(u)
  <2>1. PICK i \in 1..(Len(s) + Len(u)) : v = (s \o u)[i].decision
    BY <1>2, <1>3 DEF Votes
  <2>2. CASE i <= Len(s)
    <3>1. i \in DOMAIN s /\ (s \o u)[i] = s[i]
      BY <1>1, <1>2, <2>1, <2>2
    <3> QED
      BY <2>1, <3>1 DEF Votes
  <2>3. CASE ~(i <= Len(s))
    <3>1. i - Len(s) \in DOMAIN u /\ (s \o u)[i] = u[i - Len(s)]
      BY <1>1, <1>2, <2>1, <2>3
    <3> QED
      BY <2>1, <3>1 DEF Votes
  <2> QED
    BY <2>2, <2>3
<1>4. ASSUME NEW v \in Votes(s) PROVE v \in Votes(s \o u)
  <2>1. PICK i \in 1..Len(s) : v = s[i].decision
    BY <1>2, <1>4 DEF Votes
  <2>2. i \in DOMAIN (s \o u) /\ (s \o u)[i] = s[i]
    BY <1>1, <1>2, <2>1
  <2> QED
    BY <2>1, <2>2 DEF Votes
<1>5. ASSUME NEW v \in Votes(u) PROVE v \in Votes(s \o u)
  <2>1. PICK i \in 1..Len(u) : v = u[i].decision
    BY <1>2, <1>5 DEF Votes
  <2>2. Len(s) + i \in DOMAIN (s \o u) /\ (s \o u)[Len(s) + i] = u[i]
    BY <1>1, <1>2, <2>1
  <2> QED
    BY <2>1, <2>2 DEF Votes
<1> QED
  BY <1>1, <1>3, <1>4, <1>5

\* A list of one reason has one vote.
LEMMA OneVote ==
    ASSUME NEW r \in {"license", "vulnerability", "age", "waiver", "none"}, NEW d \in 0..2
    PROVE  <<Reason(r, d)>> \in Seq(Reasons) /\ Votes(<<Reason(r, d)>>) = {d}
<1>1. Reason(r, d) \in Reasons /\ Reason(r, d).decision = d
  BY DEF Reason, Reasons
<1>2. <<Reason(r, d)>> \in Seq(Reasons) /\ DOMAIN <<Reason(r, d)>> = {1}
  BY <1>1
<1>3. <<Reason(r, d)>>[1] = Reason(r, d)
  OBVIOUS
<1> QED
  BY <1>1, <1>2, <1>3 DEF Votes

\* The empty list has none.
LEMMA NoVote == <<>> \in Seq(Reasons) /\ Votes(<<>>) = {}
<1>1. <<>> \in Seq(Reasons)
  BY EmptySeq
<1>2. \A s : s = <<>> => DOMAIN s = {}
  BY SMT
<1> QED
  BY <1>1, <1>2 DEF Votes

\* The ruleset's verdict is not Allow exactly if some rule forbids the artifact.
LEMMA VerdictFacts ==
    ASSUME engine \in Engines, NEW a \in Artifacts, NEW t \in Nat, Scan(a.answer) # ScanError
    PROVE  /\ Opinions(a, t) \in Seq(Reasons)
           /\ merge(Opinions(a, t)) \in 0..2
           /\ merge(Opinions(a, t)) # Allow <=> Forbidden(a, t)
<1> DEFINE L == evaluateLicense(a)
           V == evaluateVulnerabilities(a)
           G == evaluateAge(a, t)
           LicenseVotes ==
               /\ L \in Seq(Reasons) /\ Votes(L) \subseteq 0..2
               /\ (\E d \in Votes(L) : d # 0) <=> a.license \in engine.rules.denied
           AgeVotes ==
               /\ G \in Seq(Reasons) /\ Votes(G) \subseteq 0..2
               /\ (\E d \in Votes(G) : d # 0) <=> Young(a, t)
<1>1. LicenseVotes
  <2>1. CASE L = <<>> /\ a.license \notin engine.rules.denied
    BY <2>1, NoVote
  <2>2. ASSUME NEW d \in 0..2, L = <<Reason("license", d)>>,
               d # Allow <=> a.license \in engine.rules.denied
        PROVE  LicenseVotes
    BY <2>2, OneVote DEF Allow
  <2> QED
    BY <2>1, <2>2, LicenseFacts
<1>2. V \in Seq(Reasons) /\ Votes(V) = {Vote(a)} /\ Vote(a) \in 0..2
  <2>1. V = <<Reason("vulnerability", Vote(a))>> /\ Vote(a) \in 0..2
    BY VoteFacts
  <2> HIDE DEF V
  <2> QED
    BY <2>1, OneVote
<1>3. AgeVotes
  <2>1. CASE G = <<>> /\ ~Young(a, t)
    BY <2>1, NoVote
  <2>2. ASSUME NEW d \in 0..2, G = <<Reason("age", d)>>, d # Allow <=> Young(a, t)
        PROVE  AgeVotes
    BY <2>2, OneVote DEF Allow
  <2> QED
    BY <2>1, <2>2, AgeFacts
<1>4. /\ L \o V \o G \in Seq(Reasons)
      /\ Votes(L \o V \o G) = Votes(L) \cup {Vote(a)} \cup Votes(G)
  <2> HIDE DEF L, V, G
  <2>1. L \o V \in Seq(Reasons) /\ Votes(L \o V) = Votes(L) \cup {Vote(a)}
    BY <1>1, <1>2, VotesOfConcat
  <2> QED
    BY <2>1, <1>3, VotesOfConcat
<1>5. Opinions(a, t) = L \o V \o G
  BY DEF Opinions
<1> DEFINE D == Votes(Opinions(a, t))
<1>6. /\ D \in SUBSET (0..2) /\ D # {}
      /\ (\E d \in D : d # 0) <=> Forbidden(a, t)
  <2>1. Vote(a) # 0 <=>
          \E s \in Scan(a.answer) : s > engine.rules.max \/ s > engine.rules.quarantine
    BY VoteFacts DEF Allow
  <2>2. Forbidden(a, t) <=> a.license \in engine.rules.denied \/ Vote(a) # 0 \/ Young(a, t)
    BY <2>1 DEF Forbidden, Young
  <2> HIDE DEF L, V, G
  <2> QED
    BY <2>2, <1>1, <1>2, <1>3, <1>4, <1>5
<1>7. merge(Opinions(a, t)) = Max(D)
  BY DEF merge, Votes
<1>8. Max(D) \in D /\ \A d \in D : Max(D) >= d
  <2>1. D \in SUBSET (0..4)
    BY <1>6
  <2> QED
    BY <2>1, <1>6, MaxOf
<1>9. Max(D) # 0 <=> \E d \in D : d # 0
  <2> HIDE DEF D
  <2>1. \A d \in D : d \in 0..2
    BY <1>6
  <2> QED
    BY <1>8, <2>1
<1> QED
  BY <1>4, <1>5, <1>6, <1>7, <1>8, <1>9 DEF Allow
-----------------------------------------------------------------------------
\* A waiver excuses an artifact exactly while it is in force.
LEMMA WaiverFacts ==
    ASSUME engine \in Engines, NEW a, NEW t \in Nat
    PROVE  findWaiver(a, t) <=> InForce(a, t)
<1>1. \A i \in DOMAIN engine.waivers : engine.waivers[i].expires \in Nat
  BY PolicyAssumption
<1>2. ASSUME NEW i \in DOMAIN engine.waivers
      PROVE  engine.waivers[i].expires = 0 \/ t <= engine.waivers[i].expires
                <=> ~(engine.waivers[i].expires \in 1..(t - 1))
  BY <1>1
<1> QED
  BY <1>2 DEF findWaiver, InForce, matches

\* What an evaluation of a at time t decides is just, and its reasons are the
\* whole story.
LEMMA EvaluateFacts ==
    ASSUME engine \in Engines, NEW a \in Artifacts, NEW t \in Nat, Scan(a.answer) # ScanError,
           NEW waived, waived = (merge(Opinions(a, t)) # Allow /\ findWaiver(a, t))
    PROVE  /\ waived \in BOOLEAN
           /\ merge(Opinions(a, t)) \in 0..2
           /\ Just(a, t, IF waived THEN Allow ELSE merge(Opinions(a, t)), waived)
           /\ (IF waived THEN Append(Opinions(a, t), Reason("waiver", Allow)) ELSE Opinions(a, t))
                 = Story(a, t, waived)
<1> DEFINE m == merge(Opinions(a, t))
           O == Opinions(a, t)
<1>1. O \in Seq(Reasons) /\ m \in 0..2 /\ (m # Allow <=> Forbidden(a, t))
  BY VerdictFacts
<1>2. findWaiver(a, t) <=> InForce(a, t)
  BY WaiverFacts
<1>3. waived \in BOOLEAN /\ (waived <=> m # Allow /\ InForce(a, t))
  BY <1>2
<1>4. Just(a, t, IF waived THEN Allow ELSE m, waived)
  <2> HIDE DEF m
  <2> QED
    BY <1>1, <1>3 DEF Just
<1>5. (IF waived THEN Append(O, Reason("waiver", Allow)) ELSE O) = Story(a, t, waived)
  <2>1. Reason("waiver", Allow) \in Reasons
    BY DEF Reason, Reasons, Allow
  <2>2. Append(O, Reason("waiver", Allow)) = O \o <<Reason("waiver", Allow)>> /\ O \o <<>> = O
    <3> HIDE DEF O
    <3> QED
      BY <1>1, <2>1, AppendIsConcat, ConcatEmptySeq
  <2> QED
    BY <2>2 DEF Story
<1> QED
  BY <1>1, <1>3, <1>4, <1>5

\* Rules and waivers are fixed: what they say of an artifact stays said.
LEMMA RulesStay ==
    ASSUME engine' = engine
    PROVE  /\ \A a, t, d, w : Just(a, t, d, w)' <=> Just(a, t, d, w)
           /\ \A a, t, w : Story(a, t, w)' = Story(a, t, w)
  BY DEF Just, Forbidden, InForce, Story, Opinions, evaluateLicense, evaluateVulnerabilities,
         evaluateAge

\* A step that changes no call and no entry, and writes to no array of an entry and
\* to none of a call that is still to be recorded, keeps the invariant.
LEMMA Frame ==
    ASSUME IndInv, engine' = engine, policyClock' \in Nat, calls' = calls, auditLog' = auditLog,
           DOMAIN arrays' = References, listed' \subseteq {"copy"} \X Nat,
           \A c \in PolicyCallers :
               calls[c].pc = "record" => arrays'[<<"call", c>>] = arrays[<<"call", c>>],
           \A i \in DOMAIN auditLog : arrays'[<<"entry", i>>] = arrays[<<"entry", i>>]
    PROVE  IndInv'
<1>1. Shape'
  BY DEF IndInv, Shape
<1>2. (Len(auditLog) <= Cardinality(Returned))'
  BY DEF IndInv, Returned
<1>3. ASSUME NEW c \in PolicyCallers PROVE CallInv(c)'
  BY <1>3, RulesStay DEF IndInv, CallInv
<1>4. ASSUME NEW i \in DOMAIN auditLog PROVE EntryInv(i)'
  BY <1>4, RulesStay DEF IndInv, EntryInv
<1> QED
  BY <1>1, <1>2, <1>3, <1>4 DEF IndInv
-----------------------------------------------------------------------------
\* References of calls, entries and copies are different, and every entry has one.
LEMMA ReferenceFacts ==
    ASSUME IndInv
    PROVE  /\ \A c \in PolicyCallers : <<"call", c>> \in References
           /\ \A i \in DOMAIN auditLog : <<"entry", i>> \in References
           /\ DOMAIN auditLog = 1..Len(auditLog) /\ Len(auditLog) \in Nat
           /\ IsFiniteSet(Returned) /\ Cardinality(PolicyCallers) \in Nat
           /\ Cardinality(Returned) \in Nat
<1>1. IsFiniteSet(PolicyCallers) /\ Cardinality(PolicyCallers) \in Nat
  BY PolicyAssumption, FS_CardinalityType
<1>2. Returned \subseteq PolicyCallers
  BY DEF Returned
<1>3. IsFiniteSet(Returned) /\ Cardinality(Returned) \in Nat
  BY <1>1, <1>2, FS_Subset, FS_CardinalityType
<1>4. DOMAIN auditLog = 1..Len(auditLog) /\ Len(auditLog) \in Nat
  BY LenProperties DEF IndInv, Shape
<1>5. Cardinality(Returned) <= Cardinality(PolicyCallers)
  BY <1>1, <1>2, FS_Subset
<1>6. \A i \in DOMAIN auditLog : i \in 1..Cardinality(PolicyCallers)
  BY <1>1, <1>3, <1>4, <1>5 DEF IndInv
<1> QED
  BY <1>1, <1>3, <1>4, <1>6 DEF References

\* Engine.Evaluate gives its caller a just verdict and the whole story.
LEMMA EvaluateStep ==
    ASSUME IndInv, NEW c \in PolicyCallers, NEW a \in Artifacts, Evaluate(c, a)
    PROVE  IndInv'
<1> DEFINE t == policyClock
           waived == merge(Opinions(a, t)) # Allow /\ findWaiver(a, t)
           d == IF waived THEN Allow ELSE merge(Opinions(a, t))
           text == IF waived THEN Append(Opinions(a, t), Reason("waiver", Allow))
                   ELSE Opinions(a, t)
           new == [pc |-> IF engine.audit THEN "record" ELSE "returned", artifact |-> a,
                   now |-> t, waived |-> waived, decision |-> d]
<1>1. /\ calls[c] = NoCall /\ Scan(a.answer) # ScanError
      /\ calls' = [calls EXCEPT ![c] = new]
      /\ arrays' = [arrays EXCEPT ![<<"call", c>>] = text]
      /\ UNCHANGED <<engine, policyClock, auditLog, listed>>
  BY DEF Evaluate
<1>2. engine \in Engines /\ t \in Nat /\ calls \in [PolicyCallers -> Call \cup {NoCall}]
      /\ DOMAIN arrays = References
  BY DEF IndInv, Shape
<1>3. waived \in BOOLEAN /\ d \in 0..2 /\ Just(a, t, d, waived) /\ text = Story(a, t, waived)
  <2>1. merge(Opinions(a, t)) \in 0..2 /\ Just(a, t, d, waived)
        /\ text = Story(a, t, waived)
    BY <1>1, <1>2, EvaluateFacts
  <2> QED
    BY <2>1 DEF Allow
<1> HIDE DEF t, waived, d, text
<1>4. new \in Call /\ new.pc \in {"record", "returned"} /\ new.artifact = a /\ new.now = t
      /\ new.waived = waived /\ new.decision = d
  BY <1>2, <1>3 DEF Call
<1> HIDE DEF new
<1>5. calls' \in [PolicyCallers -> Call \cup {NoCall}] /\ calls'[c] = new
      /\ \A k \in PolicyCallers : k # c => calls'[k] = calls[k]
  BY <1>1, <1>2, <1>4
<1>6. /\ arrays'[<<"call", c>>] = text /\ DOMAIN arrays' = References
      /\ \A ref \in References : ref # <<"call", c>> => arrays'[ref] = arrays[ref]
  BY <1>1, <1>2, ReferenceFacts
<1>7. Shape'
  BY <1>1, <1>5, <1>6 DEF IndInv, Shape
<1>8. (Len(auditLog) <= Cardinality(Returned))'
  <2>1. Returned \subseteq Returned' /\ Returned' \subseteq PolicyCallers
    BY <1>1, <1>5 DEF Returned, NoCall
  <2>2. IsFiniteSet(Returned') /\ Cardinality(Returned') \in Nat
    BY <2>1, PolicyAssumption, FS_Subset, FS_CardinalityType
  <2>3. Cardinality(Returned) <= Cardinality(Returned')
    BY <2>1, <2>2, FS_Subset
  <2> QED
    BY <1>1, <2>2, <2>3, ReferenceFacts DEF IndInv
<1>9. ASSUME NEW k \in PolicyCallers PROVE CallInv(k)'
  <2>1. CASE k = c
    BY <2>1, <1>1, <1>3, <1>4, <1>5, <1>6, RulesStay DEF CallInv
  <2>2. CASE k # c
    <3>1. arrays'[<<"call", k>>] = arrays[<<"call", k>>]
      BY <2>2, <1>6, ReferenceFacts
    <3>2. CallInv(k)
      BY DEF IndInv
    <3> QED
      BY <3>1, <3>2, <2>2, <1>1, <1>5, RulesStay DEF CallInv
  <2> QED
    BY <2>1, <2>2
<1>10. ASSUME NEW i \in DOMAIN auditLog PROVE EntryInv(i)'
  <2>1. arrays'[<<"entry", i>>] = arrays[<<"entry", i>>]
    BY <1>6, ReferenceFacts
  <2>2. EntryInv(i)
    BY DEF IndInv
  <2> QED
    BY <2>1, <2>2, <1>1, RulesStay DEF EntryInv
<1> QED
  BY <1>1, <1>7, <1>8, <1>9, <1>10 DEF IndInv

\* AuditLog.Record copies the story into an array of its own.
LEMMA RecordStep ==
    ASSUME IndInv, NEW c \in PolicyCallers, Record(c)
    PROVE  IndInv'
<1> DEFINE n == Len(auditLog) + 1
           ref == <<"entry", n>>
           e == [artifact |-> calls[c].artifact, time |-> calls[c].now,
                 decision |-> calls[c].decision, waived |-> calls[c].waived, reasons |-> ref]
<1>1. /\ calls[c].pc = "record"
      /\ calls' = [calls EXCEPT ![c].pc = "returned"]
      /\ arrays' = [arrays EXCEPT ![ref] = arrays[<<"call", c>>]]
      /\ auditLog' = Append(auditLog, e)
      /\ UNCHANGED <<engine, policyClock, listed>>
  BY DEF Record, recordWith
<1>2. calls \in [PolicyCallers -> Call \cup {NoCall}] /\ DOMAIN arrays = References
      /\ auditLog \in Seq(Entry)
  BY DEF IndInv, Shape
<1>3. calls[c] \in Call /\ calls[c] # NoCall
  BY <1>1, <1>2 DEF NoCall
<1>4. /\ calls' \in [PolicyCallers -> Call \cup {NoCall}]
      /\ calls'[c] \in Call /\ calls'[c] # NoCall /\ calls'[c].pc = "returned"
      /\ calls'[c].artifact = calls[c].artifact /\ calls'[c].now = calls[c].now
      /\ calls'[c].decision = calls[c].decision /\ calls'[c].waived = calls[c].waived
      /\ \A k \in PolicyCallers : k # c => calls'[k] = calls[k]
  <2>1. calls' = [calls EXCEPT ![c] = [calls[c] EXCEPT !.pc = "returned"]]
    BY <1>1
  <2>2. [calls[c] EXCEPT !.pc = "returned"] \in Call
    BY <1>3 DEF Call
  <2>3. calls'[c] = [calls[c] EXCEPT !.pc = "returned"]
    BY <2>1, <1>2
  <2>4. calls'[c].pc = "returned" /\ calls'[c] \in Call
      /\ calls'[c].artifact = calls[c].artifact /\ calls'[c].now = calls[c].now
      /\ calls'[c].decision = calls[c].decision /\ calls'[c].waived = calls[c].waived
    BY <2>2, <2>3, <1>3 DEF Call
  <2> QED
    BY <2>1, <2>2, <2>4, <1>2 DEF NoCall
<1>5. /\ Returned' = Returned \cup {c} /\ c \notin Returned
      /\ Cardinality(Returned') = Cardinality(Returned) + 1
  <2>1. Returned' = Returned \cup {c} /\ c \notin Returned
    BY <1>1, <1>4 DEF Returned
  <2> QED
    BY <2>1, ReferenceFacts, FS_AddElement
<1>6. n \in 1..Cardinality(PolicyCallers) /\ n <= Cardinality(Returned')
  <2>1. Returned' \subseteq PolicyCallers
    BY DEF Returned
  <2>2. Cardinality(Returned') <= Cardinality(PolicyCallers)
    BY <2>1, PolicyAssumption, FS_Subset
  <2>3. Len(auditLog) <= Cardinality(Returned)
    BY DEF IndInv
  <2> QED
    BY <2>2, <2>3, <1>5, ReferenceFacts
<1>7. ref \in References
  BY <1>6 DEF References
<1>8. e \in Entry /\ e.artifact = calls[c].artifact /\ e.time = calls[c].now
      /\ e.decision = calls[c].decision /\ e.waived = calls[c].waived /\ e.reasons = ref
  BY <1>3, <1>6 DEF Call, Entry
<1> HIDE DEF e
<1>9. auditLog' \in Seq(Entry) /\ Len(auditLog') = n /\ auditLog'[n] = e
      /\ DOMAIN auditLog' = 1..n
      /\ \A i \in 1..Len(auditLog) : auditLog'[i] = auditLog[i]
  BY <1>1, <1>2, <1>8, AppendProperties, LenProperties
<1>10. /\ arrays'[ref] = arrays[<<"call", c>>] /\ DOMAIN arrays' = References
       /\ \A r \in References : r # ref => arrays'[r] = arrays[r]
  BY <1>1, <1>2, <1>7
<1>11. Shape'
  BY <1>1, <1>4, <1>9, <1>10 DEF IndInv, Shape
<1>12. (Len(auditLog) <= Cardinality(Returned))'
  BY <1>6, <1>9
<1>13. ASSUME NEW k \in PolicyCallers PROVE CallInv(k)'
  <2>1. arrays'[<<"call", k>>] = arrays[<<"call", k>>]
    BY <1>10, ReferenceFacts
  <2>2. CallInv(k)
    BY DEF IndInv
  <2>3. CASE k = c
    BY <2>2, <2>3, <1>1, <1>3, <1>4, RulesStay DEF CallInv
  <2>4. CASE k # c
    BY <2>1, <2>2, <2>4, <1>1, <1>4, RulesStay DEF CallInv
  <2> QED
    BY <2>3, <2>4
<1>14. ASSUME NEW i \in DOMAIN auditLog' PROVE EntryInv(i)'
  <2>1. CASE i = n
    <3>1. CallInv(c)
      BY DEF IndInv
    <3>2. /\ Just(e.artifact, e.time, e.decision, e.waived)
          /\ arrays'[ref] = Story(e.artifact, e.time, e.waived)
      BY <3>1, <1>1, <1>3, <1>8, <1>10 DEF CallInv
    <3> HIDE DEF n, ref
    <3>3. ref = <<"entry", n>>
      BY DEF ref
    <3> QED
      BY <3>2, <3>3, <2>1, <1>1, <1>8, <1>9, RulesStay DEF EntryInv
  <2>2. CASE i # n
    <3>1. i \in DOMAIN auditLog /\ auditLog'[i] = auditLog[i]
      BY <2>2, <1>9, ReferenceFacts
    <3>2. arrays'[<<"entry", i>>] = arrays[<<"entry", i>>]
      BY <2>2, <3>1, <1>10, ReferenceFacts
    <3>3. EntryInv(i)
      BY <3>1 DEF IndInv
    <3> QED
      BY <3>1, <3>2, <3>3, <1>1, RulesStay DEF EntryInv
  <2> QED
    BY <2>1, <2>2
<1> QED
  BY <1>11, <1>12, <1>13, <1>14 DEF IndInv

\* AuditLog.Entries copies the arrays of the entries and shares none.
LEMMA EntriesStep ==
    ASSUME IndInv, Entries
    PROVE  IndInv'
<1>1. listed' = {<<"copy", i>> : i \in DOMAIN auditLog}
      /\ arrays' = [ref \in DOMAIN arrays |->
             IF ref \in listed' THEN arrays[auditLog[ref[2]].reasons] ELSE arrays[ref]]
      /\ UNCHANGED <<engine, policyClock, calls, auditLog>>
  BY DEF Entries
<1>2. DOMAIN arrays = References /\ policyClock \in Nat
  BY DEF IndInv, Shape
<1>3. listed' \subseteq {"copy"} \X Nat
  BY <1>1, ReferenceFacts
<1>4. \A r \in References : r \notin listed' => arrays'[r] = arrays[r]
  BY <1>1, <1>2
<1>5. \A c \in PolicyCallers : <<"call", c>> \notin listed'
  BY <1>1
<1>6. \A i \in DOMAIN auditLog : <<"entry", i>> \notin listed'
  BY <1>1
<1>7. /\ \A c \in PolicyCallers : arrays'[<<"call", c>>] = arrays[<<"call", c>>]
      /\ \A i \in DOMAIN auditLog : arrays'[<<"entry", i>>] = arrays[<<"entry", i>>]
  BY <1>4, <1>5, <1>6, ReferenceFacts
<1>8. DOMAIN arrays' = References
  BY <1>1, <1>2
<1> QED
  BY <1>1, <1>2, <1>3, <1>7, <1>8, Frame

\* Nobody who writes to what he was given writes to the array of an entry.
LEMMA ScribbleStep ==
    ASSUME IndInv, NEW refs, Scribble(refs),
           refs \subseteq {"copy"} \X Nat
             \/ \E c \in PolicyCallers : calls[c].pc = "returned" /\ refs = {<<"call", c>>}
    PROVE  IndInv'
<1>1. /\ arrays' = [ref \in DOMAIN arrays |-> IF ref \in refs THEN Scribbled ELSE arrays[ref]]
      /\ UNCHANGED <<engine, policyClock, calls, auditLog, listed>>
  BY DEF Scribble
<1>2. DOMAIN arrays = References /\ policyClock \in Nat /\ listed \subseteq {"copy"} \X Nat
  BY DEF IndInv, Shape
<1>3. \A r \in References : r \notin refs => arrays'[r] = arrays[r]
  BY <1>1, <1>2
<1>4. /\ \A c \in PolicyCallers : calls[c].pc = "record" => <<"call", c>> \notin refs
      /\ \A i \in DOMAIN auditLog : <<"entry", i>> \notin refs
  OBVIOUS
<1>5. /\ \A c \in PolicyCallers :
            calls[c].pc = "record" => arrays'[<<"call", c>>] = arrays[<<"call", c>>]
      /\ \A i \in DOMAIN auditLog : arrays'[<<"entry", i>>] = arrays[<<"entry", i>>]
  BY <1>3, <1>4, ReferenceFacts
<1>6. DOMAIN arrays' = References
  BY <1>1, <1>2
<1> QED
  BY <1>1, <1>2, <1>5, <1>6, Frame

\* Time passes without effect on what was decided.
LEMMA TickStep ==
    ASSUME IndInv, PolicyTick
    PROVE  IndInv'
<1>1. policyClock' \in Nat /\ UNCHANGED <<engine, calls, arrays, auditLog, listed>>
  BY DEF PolicyTick, IndInv, Shape
<1>2. DOMAIN arrays = References /\ listed \subseteq {"copy"} \X Nat
  BY DEF IndInv, Shape
<1> QED
  BY <1>1, <1>2, Frame

\* The invariant holds of a new engine.
LEMMA InitInd == PolicyInit => IndInv
<1> SUFFICES ASSUME PolicyInit PROVE IndInv
  OBVIOUS
<1>1. /\ engine \in Engines /\ policyClock = 1 /\ auditLog = <<>> /\ listed = {}
      /\ calls = [c \in PolicyCallers |-> NoCall] /\ DOMAIN arrays = References
  BY DEF PolicyInit
<1>2. auditLog \in Seq(Entry) /\ Len(auditLog) = 0
  BY <1>1, EmptySeq
<1>3. DOMAIN auditLog = {}
  BY <1>2, LenProperties
<1>4. Shape
  BY <1>1, <1>2 DEF Shape
<1>5. \A c \in PolicyCallers : calls[c] = NoCall
  BY <1>1
<1>6. Len(auditLog) <= Cardinality(Returned)
  <2>1. IsFiniteSet(Returned)
    BY PolicyAssumption, FS_Subset DEF Returned
  <2> QED
    BY <2>1, <1>2, FS_CardinalityType
<1> QED
  BY <1>3, <1>4, <1>5, <1>6 DEF IndInv, CallInv

\* Every step keeps it.
LEMMA NextInd == IndInv /\ [PolicyNext]_policyVars => IndInv'
<1> SUFFICES ASSUME IndInv, [PolicyNext]_policyVars PROVE IndInv'
  OBVIOUS
<1>1. ASSUME NEW c \in PolicyCallers, NEW a \in Artifacts, Evaluate(c, a) PROVE IndInv'
  BY <1>1, EvaluateStep
<1>2. ASSUME NEW c \in PolicyCallers, Record(c) PROVE IndInv'
  BY <1>2, RecordStep
<1>3. ASSUME NEW c \in PolicyCallers, calls[c].pc = "returned", Scribble({<<"call", c>>})
      PROVE  IndInv'
  <2>1. PICK refs : refs = {<<"call", c>>}
    OBVIOUS
  <2> QED
    BY <1>3, <2>1, ScribbleStep
<1>4. CASE Entries
  BY <1>4, EntriesStep
<1>5. CASE Scribble(listed)
  <2>1. PICK refs : refs = listed
    OBVIOUS
  <2>2. refs \subseteq {"copy"} \X Nat
    BY <2>1 DEF IndInv, Shape
  <2> QED
    BY <1>5, <2>1, <2>2, ScribbleStep
<1>6. CASE PolicyTick
  BY <1>6, TickStep
<1>7. CASE UNCHANGED policyVars
  <2>1. policyClock \in Nat /\ DOMAIN arrays = References /\ listed \subseteq {"copy"} \X Nat
    BY DEF IndInv, Shape
  <2> QED
    BY <1>7, <2>1, Frame DEF policyVars
<1> QED
  BY <1>1, <1>2, <1>3, <1>4, <1>5, <1>6, <1>7 DEF PolicyNext
-----------------------------------------------------------------------------
\* AuditTruthful, for every engine and every number of calls: whatever overlaps and
\* whoever writes to the slices of AuditLog.Entries and Engine.Evaluate, the entries
\* tell for ever what was decided and why.
THEOREM AuditIsTruthful == PolicySpec => []AuditTruthful
<1>1. IndInv => AuditTruthful
  <2> SUFFICES ASSUME IndInv, NEW i \in DOMAIN auditLog
               PROVE  AuditTruthful!(i)
    BY DEF AuditTruthful
  <2>1. EntryInv(i)
    BY DEF IndInv
  <2> QED
    BY <2>1 DEF EntryInv, Just, Story
<1> QED
  BY <1>1, InitInd, NextInd, PTL DEF PolicySpec

\* BinaryLikeScan, for every ruleset: with the quarantine threshold at or above the
\* maximum, Ruleset.Evaluate judges findings as scan.Policy does.
THEOREM RulesetIsBinary == PolicySpec => []BinaryLikeScan
<1>1. IndInv => BinaryLikeScan
  <2> SUFFICES ASSUME IndInv, NEW c \in PolicyCallers, calls[c] # NoCall,
                      engine.rules.quarantine >= engine.rules.max,
                      NEW a, a = calls[c].artifact
               PROVE  merge(evaluateVulnerabilities(a)) =
                          IF ScanAllowed(Scan(a.answer), engine.rules.max) THEN Allow ELSE Deny
    BY DEF BinaryLikeScan
  <2>1. engine \in Engines /\ Scan(a.answer) # ScanError
    BY DEF IndInv, Shape, CallInv
  <2> DEFINE F == Scan(a.answer)
             m == engine.rules.max
             q == engine.rules.quarantine
  <2>2. /\ evaluateVulnerabilities(a) = <<Reason("vulnerability", Vote(a))>>
        /\ Vote(a) \in 0..2
        /\ Vote(a) # Allow <=> \E s \in F : s > m \/ s > q
        /\ Vote(a) = Deny <=> \E s \in F : s > m
    BY <2>1, VoteFacts
  <2>3. F \in SUBSET (0..4) /\ m \in 0..4 /\ q \in 0..4 /\ q >= m
    BY <2>1, ScanFacts, PolicyAssumption
  <2>4. MaxSeverity(F) \in 0..4 /\ (\A f \in F : MaxSeverity(F) >= f)
        /\ (F # {} => MaxSeverity(F) \in F)
    BY <2>3, WorstFacts
  <2>5. merge(evaluateVulnerabilities(a)) = Vote(a)
    <3>1. Votes(<<Reason("vulnerability", Vote(a))>>) = {Vote(a)}
      BY <2>2, OneVote
    <3>2. merge(evaluateVulnerabilities(a)) = Max({Vote(a)})
      BY <3>1, <2>2 DEF merge, Votes
    <3>3. Max({Vote(a)}) \in {Vote(a)}
      BY <2>2, MaxOf
    <3> QED
      BY <3>2, <3>3
  <2> HIDE DEF F, m, q
  <2>6. (\E s \in F : s > m \/ s > q) <=> (\E s \in F : s > m)
    BY <2>3
  <2>7. ScanAllowed(F, m) <=> ~\E s \in F : s > m
    <3>1. CASE F = {}
      BY <3>1 DEF ScanAllowed
    <3>2. CASE F # {}
      BY <3>2, <2>3, <2>4 DEF ScanAllowed
    <3> QED
      BY <3>1, <3>2
  <2>8. Vote(a) = IF ScanAllowed(F, m) THEN Allow ELSE Deny
    BY <2>2, <2>6, <2>7
  <2> QED
    BY <2>5, <2>8 DEF F, m
<1> QED
  BY <1>1, InitInd, NextInd, PTL DEF PolicySpec

(***************************************************************************)
(* Retention: sums.  The sizes of the keys in S, laid out as blocks of     *)
(* bytes: the total size of S is the number of these bytes, so that the    *)
(* facts about finite sets apply to it.                                    *)
(***************************************************************************)
Block(k) == {k} \X (1..entries[k].size)
Bytes(S) == UNION {Block(k) : k \in S}

Sized(S) == IsFiniteSet(S) /\ \A k \in S : entries[k].size \in Nat

LEMMA BlockFacts ==
    ASSUME NEW k, entries[k].size \in Nat
    PROVE  IsFiniteSet(Block(k)) /\ Cardinality(Block(k)) = entries[k].size
  <1> DEFINE n == entries[k].size
  <1> HIDE DEF n
  <1>1. IsFiniteSet({k}) /\ Cardinality({k}) = 1
    BY FS_Singleton
  <1>2. n \in Nat
    BY DEF n
  <1>3. IsFiniteSet(1..n) /\ Cardinality(1..n) = n
    BY <1>2, FS_Interval
  <1>4. IsFiniteSet({k} \X (1..n)) /\ Cardinality({k} \X (1..n)) = 1 * n
    <2>1. Cardinality({k} \X (1..n)) = Cardinality({k}) * Cardinality(1..n)
      BY <1>1, <1>3, FS_Product
    <2>2. IsFiniteSet({k} \X (1..n))
      BY <1>1, <1>3, FS_Product
    <2> QED BY <1>1, <1>3, <2>1, <2>2
  <1> QED BY <1>2, <1>4 DEF Block, n

\* Taking a key out takes its block out.
LEMMA BytesStep ==
    ASSUME NEW S, NEW x \in S, Sized(S), IsFiniteSet(Bytes(S \ {x}))
    PROVE  /\ IsFiniteSet(Bytes(S))
           /\ Cardinality(Bytes(S)) = entries[x].size + Cardinality(Bytes(S \ {x}))
  <1> DEFINE R == Bytes(S \ {x})
             n == entries[x].size
  <1>1. n \in Nat /\ IsFiniteSet(Block(x)) /\ Cardinality(Block(x)) = n
    BY BlockFacts DEF Sized
  <1>2. Bytes(S) = Block(x) \cup R
    BY DEF Bytes
  <1>3. Block(x) \cap R = {}
    BY DEF Bytes, Block
  <1> HIDE DEF R, n
  <1>4. /\ IsFiniteSet(Block(x) \cup R)
        /\ Cardinality(Block(x) \cup R) =
              Cardinality(Block(x)) + Cardinality(R) - Cardinality(Block(x) \cap R)
    BY <1>1, FS_Union DEF R
  <1>5. Cardinality(R) \in Nat /\ Cardinality({}) = 0
    BY FS_CardinalityType, FS_EmptySet DEF R
  <1>6. Cardinality(Bytes(S)) = n + Cardinality(R)
    <2>1. Cardinality(Block(x) \cap R) = 0
      BY <1>3, <1>5
    <2>2. Cardinality(Bytes(S)) = Cardinality(Block(x)) + Cardinality(R) - 0
      BY <1>2, <1>4, <2>1
    <2> QED BY <1>1, <1>5, <2>2
  <1> QED BY <1>2, <1>4, <1>6 DEF R, n

\* By a minimal counterexample among the subsets of S.
LEMMA BytesFinite ==
    ASSUME NEW S, Sized(S)
    PROVE  \A T \in SUBSET S : IsFiniteSet(Bytes(T))
  <1> DEFINE Bad == {T \in SUBSET S : ~IsFiniteSet(Bytes(T))}
             O == StrictSubsetOrdering(S)
  <1> SUFFICES ASSUME Bad # {} PROVE FALSE
    OBVIOUS
  <1>1. FiniteSubsetsOf(S) = SUBSET S
    BY FS_FiniteSubsetsOfFinite DEF Sized
  <1>2. IsWellFoundedOn(O, SUBSET S)
    BY <1>1, FS_StrictSubsetOrderingWellFounded
  <1>3. PICK T \in Bad : \A U \in Bad : ~(<<U, T>> \in O)
    BY <1>2, WFMin
  <1>4. CASE T = {}
    BY <1>4, FS_EmptySet DEF Bytes
  <1>5. CASE T # {}
    <2>1. PICK x \in T : TRUE
      BY <1>5
    <2>2. T \in SUBSET S /\ Sized(T)
      BY FS_Subset DEF Sized
    <2>3. T \ {x} \in SUBSET S /\ <<T \ {x}, T>> \in O
      BY <2>1, <2>2 DEF StrictSubsetOrdering
    <2>4. IsFiniteSet(Bytes(T \ {x}))
      BY <1>3, <2>3
    <2>5. IsFiniteSet(Bytes(T))
      BY <2>1, <2>2, <2>4, BytesStep
    <2> QED BY <2>5
  <1> QED BY <1>4, <1>5

\* TotalSize counts the bytes.
LEMMA TotalSizeCounts ==
    ASSUME NEW S, Sized(S)
    PROVE  TotalSize(S) = Cardinality(Bytes(S))
  <1> DEFINE Def(f) == [s \in SUBSET S |->
                           IF s = {} THEN 0
                           ELSE entries[CHOOSE x \in s : TRUE].size
                                    + f[s \ {CHOOSE x \in s : TRUE}]]
             F == CHOOSE f : f = Def(f)
             B == [s \in SUBSET S |-> Cardinality(Bytes(s))]
             O == StrictSubsetOrdering(S)
  <1>1. TotalSize(S) = F[S]
    BY DEF TotalSize, MapThenSumSet, MapThenFoldSet
  <1>2. \A s \in SUBSET S : s # {} =>
           LET c == CHOOSE x \in s : TRUE IN
           /\ c \in s /\ s \ {c} \in SUBSET S
           /\ Cardinality(Bytes(s)) = entries[c].size + Cardinality(Bytes(s \ {c}))
    <2> SUFFICES ASSUME NEW s \in SUBSET S, s # {}
                 PROVE  LET c == CHOOSE x \in s : TRUE IN
                        /\ c \in s /\ s \ {c} \in SUBSET S
                        /\ Cardinality(Bytes(s)) = entries[c].size + Cardinality(Bytes(s \ {c}))
      OBVIOUS
    <2> DEFINE c == CHOOSE x \in s : TRUE
    <2>1. c \in s
      OBVIOUS
    <2> HIDE DEF c
    <2>2. Sized(s) /\ s \ {c} \in SUBSET S
      BY FS_Subset DEF Sized
    <2>3. IsFiniteSet(Bytes(s \ {c}))
      BY <2>2, BytesFinite
    <2>4. Cardinality(Bytes(s)) = entries[c].size + Cardinality(Bytes(s \ {c}))
      BY <2>1, <2>2, <2>3, BytesStep
    <2> QED BY <2>1, <2>2, <2>4 DEF c
  <1>3. Bytes({}) = {} /\ Cardinality({}) = 0
    BY FS_EmptySet DEF Bytes
  <1>4. B = Def(B)
    <2>1. \A s \in SUBSET S : B[s] = Def(B)[s]
      <3> TAKE s \in SUBSET S
      <3>1. CASE s = {}
        BY <1>3, <3>1
      <3>2. CASE s # {}
        BY <1>2, <3>2
      <3> QED BY <3>1, <3>2
    <2> QED BY <2>1
  <1>5. F = Def(F)
    BY <1>4
  <1> HIDE DEF F
  <1>6. \A s \in SUBSET S : F[s] = Cardinality(Bytes(s))
    <2> DEFINE Bad == {s \in SUBSET S : F[s] # Cardinality(Bytes(s))}
    <2> SUFFICES ASSUME Bad # {} PROVE FALSE
      OBVIOUS
    <2>1. FiniteSubsetsOf(S) = SUBSET S
      BY FS_FiniteSubsetsOfFinite DEF Sized
    <2>2. IsWellFoundedOn(O, SUBSET S)
      BY <2>1, FS_StrictSubsetOrderingWellFounded
    <2>3. PICK s \in Bad : \A u \in Bad : ~(<<u, s>> \in O)
      BY <2>2, WFMin
    <2>4. s # {}
      BY <1>3, <1>5
    <2> DEFINE c == CHOOSE x \in s : TRUE
    <2>5. F[s] = entries[c].size + F[s \ {c}]
      BY <1>5, <2>4
    <2>6. /\ c \in s /\ s \ {c} \in SUBSET S
          /\ Cardinality(Bytes(s)) = entries[c].size + Cardinality(Bytes(s \ {c}))
      BY <1>2, <2>4
    <2> HIDE DEF c
    <2>7. <<s \ {c}, s>> \in O
      BY <2>6 DEF StrictSubsetOrdering
    <2>8. F[s \ {c}] = Cardinality(Bytes(s \ {c}))
      BY <2>3, <2>6, <2>7
    <2> QED BY <2>5, <2>6, <2>8
  <1> QED BY <1>1, <1>6

(***************************************************************************)
(* The inductive invariant.  Walked is what the loop under way sorts (no   *)
(* key if the rule is not set), Past what it has evicted.                  *)
(***************************************************************************)
Walked ==
    IF walk.group # NoGroup THEN Group(walk.group)
    ELSE IF rule.maxTotalSize > 0 THEN DOMAIN entries ELSE {}

Past == (Walked \ walk.sorted) \cap Aged

WeightOf(S) == IF walk.group = NoGroup THEN TotalSize(S) ELSE Cardinality(S)

\* Over(k): what is left without the keys older than k is still too much.
Over(k) == WeightOf(Walked \ OlderThan(k, Walked)) > walk.limit

WalkOK ==
    /\ walk \in [group : Groups \cup {NoGroup}, sorted : SUBSET Walked, total : Int, limit : Int]
    /\ walk.limit = IF walk.group = NoGroup THEN rule.maxTotalSize ELSE rule.maxVersionCount
    /\ Walked # {} => walk.total = WeightOf(Walked \ Past)
    /\ \A i \in Past : \A j \in walk.sorted : Older(i, j)
    /\ \A k \in Past : Over(k)

GroupsOK ==
    /\ groups \in SUBSET Groups /\ walk.group \notin groups
    /\ rule.maxVersionCount > 0 /\ walk.group = NoGroup => groups = Groups
    /\ ~(rule.maxVersionCount > 0) => groups = {} /\ walk.group = NoGroup

\* Decided(k): a rule that has been applied in full evicts k.
Decided(k) ==
    \/ Expired(k)
    \/ walk.group # NoGroup /\ Oversize(k)
    \/ Superseded(k) /\ entries[k].group \notin groups \cup {walk.group}

MarkedOK == marked = {k \in Aged : Decided(k)} \cup Past

RetentionInv ==
    /\ entries \in Catalogues /\ rule \in Rules
    /\ PlanExact
    /\ walk # NoPlan => WalkOK /\ GroupsOK /\ MarkedOK

(***************************************************************************)
(* Facts about the state.                                                  *)
(***************************************************************************)
LEMMA EntriesFacts ==
    ASSUME entries \in Catalogues
    PROVE  /\ IsFiniteSet(DOMAIN entries) /\ DOMAIN entries \in SUBSET Nat
           /\ Aged \in SUBSET DOMAIN entries
           /\ \A k \in DOMAIN entries : entries[k].size \in Nat /\ entries[k].time \in Nat
  BY RetentionAssumption DEF Aged

LEMMA RuleFacts ==
    ASSUME rule \in Rules
    PROVE  /\ rule.now \in Int /\ rule.maxAge \in Int
           /\ rule.maxTotalSize \in Int /\ rule.maxVersionCount \in Int
  BY RetentionAssumption

\* The total size: a number, less by its size without a key, and monotonic.
LEMMA TotalSizeFacts ==
    ASSUME entries \in Catalogues, NEW S \in SUBSET DOMAIN entries
    PROVE  /\ TotalSize(S) \in Nat
           /\ \A x \in S : TotalSize(S \ {x}) = TotalSize(S) - entries[x].size
           /\ \A T \in SUBSET S : TotalSize(T) <= TotalSize(S)
  <1>1. \A T \in SUBSET S : Sized(T)
    BY EntriesFacts, FS_Subset DEF Sized
  <1>2. \A T \in SUBSET S :
           /\ TotalSize(T) = Cardinality(Bytes(T)) /\ IsFiniteSet(Bytes(T))
           /\ Cardinality(Bytes(T)) \in Nat
    BY <1>1, TotalSizeCounts, BytesFinite, FS_CardinalityType
  <1>3. ASSUME NEW x \in S
        PROVE  TotalSize(S \ {x}) = TotalSize(S) - entries[x].size
    <2> DEFINE n == entries[x].size
    <2>1. n \in Nat
      BY EntriesFacts
    <2>2. S \ {x} \in SUBSET S
      OBVIOUS
    <2>3. Cardinality(Bytes(S)) = n + Cardinality(Bytes(S \ {x}))
      BY <1>1, <1>2, <2>2, BytesStep
    <2> HIDE DEF n
    <2>4. TotalSize(S) = n + TotalSize(S \ {x}) /\ TotalSize(S \ {x}) \in Nat
      BY <1>2, <2>2, <2>3
    <2>5. TotalSize(S \ {x}) = TotalSize(S) - n
      BY <2>1, <2>4
    <2> QED BY <2>5 DEF n
  <1>4. ASSUME NEW T \in SUBSET S
        PROVE  TotalSize(T) <= TotalSize(S)
    <2>1. Bytes(T) \in SUBSET Bytes(S)
      BY DEF Bytes
    <2>2. Cardinality(Bytes(T)) <= Cardinality(Bytes(S))
      BY <1>2, <2>1, FS_Subset
    <2> QED BY <1>2, <2>2
  <1> QED BY <1>2, <1>3, <1>4

\* The same for what a walk counts.
LEMMA WeightFacts ==
    ASSUME entries \in Catalogues, NEW S \in SUBSET DOMAIN entries
    PROVE  /\ WeightOf(S) \in Nat
           /\ \A x \in S : WeightOf(S \ {x}) = WeightOf(S) - Weight(x)
           /\ \A T \in SUBSET S : WeightOf(T) <= WeightOf(S)
  <1>1. CASE walk.group = NoGroup
    BY <1>1, TotalSizeFacts DEF WeightOf, Weight
  <1>2. CASE walk.group # NoGroup
    <2>1. IsFiniteSet(S) /\ Cardinality(S) \in Nat
      BY EntriesFacts, FS_Subset, FS_CardinalityType
    <2>2. \A x \in S : Cardinality(S \ {x}) = Cardinality(S) - 1
      BY <2>1, FS_RemoveElement
    <2>3. \A T \in SUBSET S : Cardinality(T) <= Cardinality(S)
      BY <2>1, FS_Subset
    <2> QED BY <1>2, <2>1, <2>2, <2>3 DEF WeightOf, Weight
  <1> QED BY <1>1, <1>2

\* The order of the sort: strict, total on the keys with a time, and those
\* before all others.
LEMMA OlderFacts ==
    ASSUME entries \in Catalogues
    PROVE  /\ \A i \in Aged : ~Older(i, i)
           /\ \A i \in Aged : \A j \in DOMAIN entries : j \notin Aged => Older(i, j)
           /\ \A i, j \in Aged : i # j => Older(i, j) \/ Older(j, i)
           /\ \A i, j, k \in Aged : Older(i, j) /\ Older(j, k) => Older(i, k)
  <1>1. \A i \in Aged : i \in Nat /\ entries[i].time \in Nat
    BY EntriesFacts
  <1>2. \A i, j \in Aged : Older(i, j) <=> \/ entries[i].time < entries[j].time
                                           \/ entries[i].time = entries[j].time /\ i < j
    BY DEF Older
  <1>3. \A i \in Aged : ~Older(i, i)
    BY <1>1, <1>2
  <1>4. \A i \in Aged : \A j \in DOMAIN entries : j \notin Aged => Older(i, j)
    BY DEF Older
  <1>5. \A i, j \in Aged : i # j => Older(i, j) \/ Older(j, i)
    BY <1>1, <1>2
  <1>6. \A i, j, k \in Aged : Older(i, j) /\ Older(j, k) => Older(i, k)
    BY <1>1, <1>2
  <1> QED BY <1>3, <1>4, <1>5, <1>6

LEMMA WalkedFacts ==
    ASSUME entries \in Catalogues, WalkOK
    PROVE  /\ Walked \in SUBSET DOMAIN entries /\ walk.sorted \in SUBSET Walked
           /\ Past \in SUBSET Walked /\ Past \in SUBSET Aged /\ Past \cap walk.sorted = {}
           /\ \A k \in Walked \cap Aged : k \in Past \/ k \in walk.sorted
           /\ walk.total \in Int /\ walk.limit \in Int
           /\ walk.group \in Groups \cup {NoGroup}
  <1>1. Walked \in SUBSET DOMAIN entries
    BY DEF Walked, Group
  <1>2. /\ walk.sorted \in SUBSET Walked /\ walk.total \in Int /\ walk.limit \in Int
        /\ walk.group \in Groups \cup {NoGroup}
    BY DEF WalkOK
  <1> QED BY <1>1, <1>2 DEF Past

(***************************************************************************)
(* When a walk ends it has evicted exactly what is over.                   *)
(***************************************************************************)
LEMMA FinishedWalk ==
    ASSUME entries \in Catalogues, WalkOK, ~Walking
    PROVE  \A k \in Walked \cap Aged : k \in Past <=> Over(k)
  <1> SUFFICES ASSUME NEW k \in Walked \cap Aged, k \notin Past
               PROVE  ~Over(k)
    BY DEF WalkOK
  <1>1. k \in walk.sorted
    BY WalkedFacts
  <1>2. ~(walk.total > walk.limit)
    BY <1>1 DEF Walking
  <1>3. Past \in SUBSET OlderThan(k, Walked)
    BY <1>1, WalkedFacts DEF WalkOK, OlderThan
  <1>4. Walked \ OlderThan(k, Walked) \in SUBSET (Walked \ Past)
    BY <1>3
  <1>5. Walked \ Past \in SUBSET DOMAIN entries /\ Walked # {}
    BY WalkedFacts
  <1>6. /\ WeightOf(Walked \ Past) \in Nat /\ WeightOf(Walked \ OlderThan(k, Walked)) \in Nat
        /\ WeightOf(Walked \ OlderThan(k, Walked)) <= WeightOf(Walked \ Past)
    BY <1>4, <1>5, WeightFacts
  <1>7. walk.total = WeightOf(Walked \ Past)
    BY <1>5 DEF WalkOK
  <1> QED BY <1>2, <1>6, <1>7, WalkedFacts DEF Over

\* What being over means for the rule that the walk applies.
LEMMA OverMeans ==
    ASSUME entries \in Catalogues, WalkOK, GroupsOK
    PROVE  /\ walk.group = NoGroup => \A k \in Aged : Oversize(k) <=> k \in Walked /\ Over(k)
           /\ walk.group # NoGroup =>
                 \A k \in Aged : Superseded(k) /\ entries[k].group = walk.group
                                     <=> k \in Walked /\ Over(k)
  <1>1. ASSUME walk.group = NoGroup, NEW k \in Aged
        PROVE  Oversize(k) <=> k \in Walked /\ Over(k)
    <2>1. k \in DOMAIN entries
      BY DEF Aged
    <2>2. CASE rule.maxTotalSize > 0
      <3>1. Walked = DOMAIN entries /\ walk.limit = rule.maxTotalSize
        BY <1>1, <2>2 DEF Walked, WalkOK
      <3> QED BY <1>1, <2>1, <2>2, <3>1 DEF Oversize, Over, WeightOf
    <2>3. CASE ~(rule.maxTotalSize > 0)
      <3>1. Walked = {}
        BY <1>1, <2>3 DEF Walked
      <3> QED BY <2>3, <3>1 DEF Oversize
    <2> QED BY <2>2, <2>3
  <1>2. ASSUME walk.group # NoGroup, NEW k \in Aged
        PROVE  Superseded(k) /\ entries[k].group = walk.group <=> k \in Walked /\ Over(k)
    <2>1. k \in DOMAIN entries
      BY DEF Aged
    <2>2. /\ Walked = Group(walk.group) /\ walk.limit = rule.maxVersionCount
          /\ rule.maxVersionCount > 0
      BY <1>2 DEF Walked, WalkOK, GroupsOK
    <2>3. k \in Walked <=> entries[k].group = walk.group
      BY <2>1, <2>2 DEF Group
    <2>4. entries[k].group = walk.group => (Superseded(k) <=> Over(k))
      BY <1>2, <2>2 DEF Superseded, Over, WeightOf
    <2> QED BY <2>3, <2>4
  <1> QED BY <1>1, <1>2

LEMMA FinishedMarks ==
    ASSUME entries \in Catalogues, WalkOK, GroupsOK, MarkedOK, ~Walking
    PROVE  marked = {k \in Aged : \/ Expired(k) \/ Oversize(k)
                                  \/ Superseded(k) /\ entries[k].group \notin groups}
  <1>1. Past \in SUBSET Aged
    BY WalkedFacts
  <1>2. CASE walk.group = NoGroup
    <2>1. \A k \in Aged : k \in Past <=> Oversize(k)
      BY <1>2, FinishedWalk, OverMeans, WalkedFacts
    <2>2. \A k \in Aged : Decided(k) <=>
             Expired(k) \/ (Superseded(k) /\ entries[k].group \notin groups)
      BY <1>2 DEF Decided, Superseded
    <2> QED BY <1>1, <2>1, <2>2 DEF MarkedOK
  <1>3. CASE walk.group # NoGroup
    <2>1. \A k \in Aged : k \in Past <=> Superseded(k) /\ entries[k].group = walk.group
      BY <1>3, FinishedWalk, OverMeans, WalkedFacts
    <2>2. \A k \in Aged : Decided(k) <=>
             \/ Expired(k) \/ Oversize(k)
             \/ Superseded(k) /\ entries[k].group \notin groups \cup {walk.group}
      BY <1>3 DEF Decided
    <2>3. walk.group \notin groups
      BY DEF GroupsOK
    <2> QED BY <1>1, <2>1, <2>2, <2>3 DEF MarkedOK
  <1> QED BY <1>2, <1>3

(***************************************************************************)
(* The steps.                                                              *)
(***************************************************************************)
\* The meaning of the rules does not depend on the progress of the walk.
LEMMA RulesUnchanged ==
    ASSUME entries' = entries, rule' = rule
    PROVE  /\ Aged' = Aged /\ Groups' = Groups
           /\ \A i, j : Older(i, j)' = Older(i, j)
           /\ \A S : TotalSize(S)' = TotalSize(S)
           /\ \A k, S : OlderThan(k, S)' = OlderThan(k, S)
           /\ \A g : Group(g)' = Group(g)
           /\ \A k : /\ Expired(k)' = Expired(k)
                     /\ Oversize(k)' = Oversize(k)
                     /\ Superseded(k)' = Superseded(k)
  <1>1. Aged' = Aged /\ Groups' = Groups
    BY DEF Aged, Groups
  <1>2. \A i, j : Older(i, j)' = Older(i, j)
    BY <1>1 DEF Older
  <1>3. \A S : TotalSize(S)' = TotalSize(S)
    BY DEF TotalSize, MapThenSumSet, MapThenFoldSet
  <1>4. \A k, S : OlderThan(k, S)' = OlderThan(k, S)
    BY <1>1, <1>2 DEF OlderThan
  <1>5. \A g : Group(g)' = Group(g)
    BY DEF Group
  <1>6. \A k : Expired(k)' = Expired(k)
    BY DEF Expired
  <1>7. \A k : Oversize(k)' = Oversize(k)
    BY <1>3, <1>4 DEF Oversize
  <1>8. \A k : Superseded(k)' = Superseded(k)
    BY <1>4, <1>5 DEF Superseded
  <1> QED BY <1>1, <1>2, <1>3, <1>4, <1>5, <1>6, <1>7, <1>8

LEMMA WalkUnchanged ==
    ASSUME entries' = entries, rule' = rule, marked' = marked, walk' = walk,
           groups' = groups, WalkOK, GroupsOK, MarkedOK
    PROVE  (WalkOK /\ GroupsOK /\ MarkedOK)'
  <1>1. Walked' = Walked /\ \A S : WeightOf(S)' = WeightOf(S)
    BY RulesUnchanged DEF Walked, WeightOf
  <1>2. Past' = Past
    BY <1>1, RulesUnchanged DEF Past
  <1>3. \A j : Over(j)' = Over(j) /\ Decided(j)' = Decided(j)
    BY <1>1, RulesUnchanged DEF Over, Decided
  <1>4. WalkOK'
    BY <1>1, <1>2, <1>3, RulesUnchanged DEF WalkOK
  <1>5. GroupsOK'
    BY RulesUnchanged DEF GroupsOK
  <1>6. MarkedOK'
    BY <1>2, <1>3, RulesUnchanged DEF MarkedOK
  <1> QED BY <1>4, <1>5, <1>6

LEMMA PlanStep ==
    ASSUME entries \in Catalogues, rule \in Rules, Plan
    PROVE  (WalkOK /\ GroupsOK /\ MarkedOK)'
  <1>1. entries' = entries /\ rule' = rule
    BY DEF Plan
  <1>2. /\ walk'.group = NoGroup /\ walk'.limit = rule.maxTotalSize
        /\ walk'.total = TotalSize(DOMAIN entries)
        /\ walk'.sorted = (IF rule.maxTotalSize > 0 THEN DOMAIN entries ELSE {})
        /\ walk' = [group |-> walk'.group, sorted |-> walk'.sorted, total |-> walk'.total,
                    limit |-> walk'.limit]
    BY DEF Plan, oldestFirst
  <1>3. Walked' = walk'.sorted
    BY <1>1, <1>2 DEF Walked
  <1>4. Past' = {}
    BY <1>3 DEF Past
  <1>5. TotalSize(DOMAIN entries) \in Nat /\ rule.maxTotalSize \in Int
        /\ rule.maxVersionCount \in Int
    BY TotalSizeFacts, RuleFacts
  <1>6. WalkOK'
    <2>1. walk' \in [group : Groups' \cup {NoGroup}, sorted : SUBSET Walked', total : Int,
                     limit : Int]
      BY <1>2, <1>3, <1>5
    <2>2. Walked' # {} => walk'.total = WeightOf(Walked \ Past)'
      <3>1. Walked' # {} => Walked' \ Past' = DOMAIN entries
        BY <1>2, <1>3, <1>4
      <3>2. WeightOf(DOMAIN entries)' = TotalSize(DOMAIN entries)
        BY <1>1, <1>2, RulesUnchanged DEF WeightOf
      <3> QED BY <1>1, <1>2, <3>1, <3>2
    <2> QED BY <1>1, <1>2, <1>4, <2>1, <2>2 DEF WalkOK
  <1>7. GroupsOK'
    <2>1. groups' = (IF rule.maxVersionCount > 0 THEN Groups ELSE {}) /\ NoGroup \notin Groups
      BY DEF Plan, Groups
    <2> QED BY <1>1, <1>2, <2>1, RulesUnchanged DEF GroupsOK
  <1>8. MarkedOK'
    <2>1. \A k \in Aged : Decided(k)' <=> Expired(k)
      <3> TAKE k \in Aged
      <3>1. groups' = IF rule.maxVersionCount > 0 THEN Groups ELSE {}
        BY DEF Plan
      <3>2. Superseded(k) => entries[k].group \in groups'
        BY <3>1 DEF Superseded, Groups, Aged
      <3> QED BY <1>1, <1>2, <3>2, RulesUnchanged DEF Decided
    <2>2. marked' = {k \in Aged : Expired(k)}
      BY DEF Plan, Expired
    <2> QED BY <1>1, <1>4, <2>1, <2>2, RulesUnchanged DEF MarkedOK
  <1> QED BY <1>6, <1>7, <1>8

LEMMA VisitStep ==
    ASSUME entries \in Catalogues, WalkOK, GroupsOK, MarkedOK, NEW k, Visit(k)
    PROVE  (WalkOK /\ GroupsOK /\ MarkedOK)'
  <1>1. entries' = entries /\ rule' = rule /\ groups' = groups
    BY DEF Visit
  <1>2. /\ walk.total \in Int /\ walk.limit \in Int /\ walk.total > walk.limit
        /\ k \in walk.sorted /\ \A j \in walk.sorted : ~Older(j, k)
        /\ k \in Walked /\ k \in DOMAIN entries /\ k \notin Past
    BY WalkedFacts DEF Visit, Walking
  <1> DEFINE t == IF k \in Aged THEN walk.total - Weight(k) ELSE walk.total
  <1>3. /\ walk'.group = walk.group /\ walk'.limit = walk.limit
        /\ walk'.sorted = walk.sorted \ {k} /\ walk'.total = t
        /\ walk' = [group |-> walk'.group, sorted |-> walk'.sorted, total |-> walk'.total,
                    limit |-> walk'.limit]
    BY DEF Visit, WalkOK
  <1>4. marked' = IF k \in Aged THEN marked \cup {k} ELSE marked
    BY DEF Visit
  <1>5. /\ Walked' = Walked
        /\ \A S : WeightOf(S)' = WeightOf(S)
        /\ \A j : Over(j)' = Over(j)
        /\ \A j : Decided(j)' = Decided(j)
    <2>1. Walked' = Walked
      BY <1>1, <1>3, RulesUnchanged DEF Walked
    <2>2. \A S : WeightOf(S)' = WeightOf(S)
      BY <1>1, <1>3, RulesUnchanged DEF WeightOf
    <2>3. \A j : Over(j)' = Over(j)
      BY <1>1, <1>3, <2>1, <2>2, RulesUnchanged DEF Over
    <2>4. \A j : Decided(j)' = Decided(j)
      BY <1>1, <1>3, RulesUnchanged DEF Decided
    <2> QED BY <2>1, <2>2, <2>3, <2>4
  <1>6. Past' = IF k \in Aged THEN Past \cup {k} ELSE Past
    BY <1>1, <1>2, <1>3, <1>5, RulesUnchanged DEF Past
  <1>7. t \in Int /\ t = WeightOf(Walked \ Past')
    <2>1. walk.total = WeightOf(Walked \ Past)
      BY <1>2 DEF WalkOK
    <2>2. Walked \ Past \in SUBSET DOMAIN entries /\ k \in Walked \ Past
      BY <1>2, WalkedFacts
    <2>3. WeightOf((Walked \ Past) \ {k}) = WeightOf(Walked \ Past) - Weight(k)
      BY <2>2, WeightFacts
    <2>4. (Walked \ Past) \ {k} \in SUBSET DOMAIN entries
      BY <2>2
    <2>5. WeightOf((Walked \ Past) \ {k}) \in Nat
      BY <2>4, WeightFacts
    <2>6. CASE k \in Aged
      <3>1. Walked \ Past' = (Walked \ Past) \ {k}
        BY <1>6, <2>6
      <3> QED BY <2>1, <2>3, <2>5, <2>6, <3>1
    <2>7. CASE k \notin Aged
      BY <1>2, <1>6, <2>1, <2>7
    <2> QED BY <2>6, <2>7
  <1>8. k \in Aged => Over(k)
    <2> SUFFICES ASSUME k \in Aged PROVE Over(k)
      OBVIOUS
    <2>1. OlderThan(k, Walked) = Past
      <3>1. \A i \in Past : i \in OlderThan(k, Walked)
        BY <1>2, WalkedFacts DEF WalkOK, OlderThan
      <3>2. \A i \in OlderThan(k, Walked) : i \in Past
        BY <1>2, WalkedFacts DEF OlderThan
      <3>3. OlderThan(k, Walked) \subseteq Walked
        BY DEF OlderThan
      <3> QED BY <3>1, <3>2
    <2>2. walk.total = WeightOf(Walked \ Past)
      BY <1>2 DEF WalkOK
    <2> QED BY <1>2, <2>1, <2>2 DEF Over
  <1>9. \A i \in Past' : \A j \in walk'.sorted : Older(i, j)
    <2> SUFFICES ASSUME NEW i \in Past', NEW j \in walk'.sorted
                 PROVE  Older(i, j)
      OBVIOUS
    <2>1. j \in walk.sorted /\ j # k /\ j \in DOMAIN entries
      BY <1>3, WalkedFacts
    <2>2. CASE i \in Past
      BY <2>1, <2>2 DEF WalkOK
    <2>3. CASE i \notin Past
      <3>1. i = k /\ k \in Aged
        BY <1>6, <2>3
      <3> QED BY <1>2, <2>1, <3>1, OlderFacts
    <2> QED BY <2>2, <2>3
  <1>10. WalkOK'
    <2>1. walk' \in [group : Groups' \cup {NoGroup}, sorted : SUBSET Walked', total : Int,
                     limit : Int]
      <3>1. walk'.sorted \in SUBSET Walked' /\ walk'.total \in Int /\ walk'.limit \in Int
            /\ walk'.group \in Groups' \cup {NoGroup}
        BY <1>1, <1>2, <1>3, <1>5, <1>7, WalkedFacts, RulesUnchanged
      <3> QED BY <1>3, <3>1
    <2>2. walk'.limit = IF walk'.group = NoGroup THEN rule'.maxTotalSize
                        ELSE rule'.maxVersionCount
      BY <1>1, <1>3 DEF WalkOK
    <2>3. walk'.total = WeightOf(Walked \ Past)'
      BY <1>3, <1>5, <1>7
    <2>4. \A i \in Past' : \A j \in walk'.sorted : Older(i, j)'
      BY <1>1, <1>9, RulesUnchanged
    <2>5. \A j \in Past' : Over(j)'
      BY <1>5, <1>6, <1>8 DEF WalkOK
    <2> QED BY <2>1, <2>2, <2>3, <2>4, <2>5 DEF WalkOK
  <1>11. GroupsOK'
    BY <1>1, <1>3, RulesUnchanged DEF GroupsOK
  <1>12. MarkedOK'
    <2>1. Aged' = Aged
      BY <1>1, RulesUnchanged
    <2> QED BY <1>4, <1>5, <1>6, <2>1 DEF MarkedOK
  <1> QED BY <1>10, <1>11, <1>12

LEMMA NextGroupStep ==
    ASSUME entries \in Catalogues, rule \in Rules, WalkOK, GroupsOK, MarkedOK,
           NEW g \in groups, NextGroup(g)
    PROVE  (WalkOK /\ GroupsOK /\ MarkedOK)'
  <1>1. entries' = entries /\ rule' = rule /\ groups' = groups \ {g} /\ marked' = marked
    BY DEF NextGroup
  <1>2. /\ walk'.group = g /\ walk'.limit = rule.maxVersionCount
        /\ walk'.sorted = Group(g) /\ walk'.total = Cardinality(Group(g))
        /\ walk' = [group |-> walk'.group, sorted |-> walk'.sorted, total |-> walk'.total,
                    limit |-> walk'.limit]
    BY DEF NextGroup, versionOverflow
  <1>3. g \in Groups /\ g # NoGroup
    BY DEF GroupsOK, Groups
  <1>4. Walked' = Group(g) /\ Past' = {}
    BY <1>1, <1>2, <1>3, RulesUnchanged DEF Walked, Past
  <1>5. Cardinality(Group(g)) \in Nat /\ rule.maxVersionCount \in Int
    <2>1. Group(g) \in SUBSET DOMAIN entries
      BY DEF Group
    <2>2. IsFiniteSet(Group(g))
      BY <2>1, EntriesFacts, FS_Subset
    <2> QED BY <2>2, FS_CardinalityType, RuleFacts
  <1>6. WalkOK'
    <2>1. walk' \in [group : Groups' \cup {NoGroup}, sorted : SUBSET Walked', total : Int,
                     limit : Int]
      BY <1>1, <1>2, <1>3, <1>4, <1>5, RulesUnchanged
    <2>2. walk'.total = WeightOf(Walked \ Past)'
      BY <1>2, <1>3, <1>4 DEF WeightOf
    <2> QED BY <1>1, <1>2, <1>3, <1>4, <2>1, <2>2 DEF WalkOK
  <1>7. GroupsOK'
    <2>1. groups' \in SUBSET Groups' /\ walk'.group \notin groups'
      BY <1>1, <1>2, RulesUnchanged DEF GroupsOK
    <2>2. rule'.maxVersionCount > 0
      BY <1>1 DEF GroupsOK
    <2> QED BY <1>2, <1>3, <2>1, <2>2 DEF GroupsOK
  <1>8. MarkedOK'
    <2>1. marked = {k \in Aged : \/ Expired(k) \/ Oversize(k)
                                 \/ Superseded(k) /\ entries[k].group \notin groups}
      BY FinishedMarks DEF NextGroup
    <2>2. \A k \in Aged : Decided(k)' <=>
             Expired(k) \/ Oversize(k) \/ (Superseded(k) /\ entries[k].group \notin groups)
      BY <1>1, <1>2, <1>3, RulesUnchanged DEF Decided
    <2>3. Aged' = Aged
      BY <1>1, RulesUnchanged
    <2> QED BY <1>1, <1>4, <2>1, <2>2, <2>3 DEF MarkedOK
  <1> QED BY <1>6, <1>7, <1>8

\* Among keys with a time one is the oldest.
LEMMA OldestExists ==
    ASSUME entries \in Catalogues, NEW S \in SUBSET Aged, S # {}
    PROVE  \E k \in S : \A j \in S : ~Older(j, k)
  <1> DEFINE R == OpToRel(<, Nat)
             T == {entries[k].time : k \in S}
  <1>1. \A k \in S : k \in Aged /\ k \in Nat /\ entries[k].time \in Nat
    BY EntriesFacts
  <1>2. T \in SUBSET Nat /\ T # {}
    BY <1>1
  <1>3. PICK t \in T : \A u \in T : ~(<<u, t>> \in R)
    BY <1>2, NatLessThanWellFounded, WFMin
  <1>4. t \in Nat /\ \A u \in T : ~(u < t)
    BY <1>2, <1>3 DEF OpToRel
  <1> DEFINE U == {k \in S : entries[k].time = t}
  <1>5. U \in SUBSET Nat /\ U # {}
    BY <1>1
  <1>6. PICK k \in U : \A j \in U : ~(<<j, k>> \in R)
    BY <1>5, NatLessThanWellFounded, WFMin
  <1>7. \A j \in U : ~(j < k)
    BY <1>5, <1>6 DEF OpToRel
  <1>8. \A j \in S : ~Older(j, k)
    <2> TAKE j \in S
    <2>1. ~(entries[j].time < t)
      BY <1>4
    <2>2. entries[j].time = t => ~(j < k)
      BY <1>7
    <2>3. k \in S /\ entries[k].time = t
      OBVIOUS
    <2> QED BY <1>1, <2>1, <2>2, <2>3 DEF Older
  <1> QED BY <1>8

\* PlanExact leaves the budgets met: of the survivors with a time the oldest is
\* not over, and nothing older than it is left.
LEMMA ExactMeetsBudgets ==
    ASSUME entries \in Catalogues, rule \in Rules, PlanExact
    PROVE  BudgetMet
  <1> SUFFICES ASSUME victims # NoPlan PROVE BudgetMet
    BY DEF BudgetMet
  <1>1. victims = {k \in Aged : Expired(k) \/ Oversize(k) \/ Superseded(k)}
    BY DEF PlanExact
  <1>2. Survivors \in SUBSET DOMAIN entries
    BY DEF Survivors
  <1>3. ASSUME rule.maxTotalSize > 0, Survivors \cap Aged # {}
        PROVE  TotalSize(Survivors) <= rule.maxTotalSize
    <2>1. Survivors \cap Aged \in SUBSET Aged
      OBVIOUS
    <2>2. PICK k \in Survivors \cap Aged : \A j \in Survivors \cap Aged : ~Older(j, k)
      BY <1>3, <2>1, OldestExists
    <2> DEFINE rest == DOMAIN entries \ OlderThan(k, DOMAIN entries)
    <2>3. Survivors \in SUBSET rest /\ rest \in SUBSET DOMAIN entries
      BY <1>2, <2>2 DEF OlderThan
    <2>4. ~Oversize(k)
      BY <1>1, <2>2 DEF Survivors
    <2>5. ~(TotalSize(rest) > rule.maxTotalSize)
      BY <1>3, <2>4 DEF Oversize
    <2> HIDE DEF rest
    <2>6. /\ TotalSize(Survivors) \in Nat /\ TotalSize(rest) \in Nat
          /\ TotalSize(Survivors) <= TotalSize(rest)
      BY <1>2, <2>3, TotalSizeFacts
    <2> QED BY <2>5, <2>6, RuleFacts
  <1>4. ASSUME rule.maxVersionCount > 0, NEW g \in Groups,
               Group(g) \cap Survivors \cap Aged # {}
        PROVE  Cardinality(Group(g) \cap Survivors) <= rule.maxVersionCount
    <2> DEFINE S == Group(g) \cap Survivors
    <2>1. S \cap Aged \in SUBSET Aged
      OBVIOUS
    <2>2. PICK k \in S \cap Aged : \A j \in S \cap Aged : ~Older(j, k)
      BY <1>4, <2>1, OldestExists
    <2> DEFINE rest == Group(g) \ OlderThan(k, Group(g))
    <2>3. S \in SUBSET rest /\ rest \in SUBSET DOMAIN entries
      BY <2>2 DEF OlderThan, Group
    <2>4. ~Superseded(k) /\ entries[k].group = g /\ g # NoGroup
      BY <1>1, <2>2 DEF Survivors, Group, Groups
    <2>5. ~(Cardinality(rest) > rule.maxVersionCount)
      BY <1>4, <2>4 DEF Superseded
    <2> HIDE DEF rest, S
    <2>6. IsFiniteSet(rest)
      BY <2>3, EntriesFacts, FS_Subset
    <2>7. /\ Cardinality(S) <= Cardinality(rest) /\ IsFiniteSet(S)
      BY <2>3, <2>6, FS_Subset
    <2>8. Cardinality(S) \in Nat /\ Cardinality(rest) \in Nat
      BY <2>6, <2>7, FS_CardinalityType
    <2>9. Cardinality(S) <= rule.maxVersionCount
      BY <2>5, <2>7, <2>8, RuleFacts
    <2> QED BY <2>9 DEF S
  <1>5. ~(rule.maxTotalSize > 0) => rule.maxTotalSize <= 0
    BY RuleFacts
  <1> QED BY <1>3, <1>4, <1>5 DEF BudgetMet
-----------------------------------------------------------------------------
\* However the walks go, what they have marked is what the rules decide:
\* RetentionInv is inductive.
THEOREM RetentionCorrect == RetentionSpec => []RetentionInv
  <1>1. RetentionInit => RetentionInv
    BY DEF RetentionInit, RetentionInv, PlanExact
  <1>2. RetentionInv /\ [RetentionNext]_retentionVars => RetentionInv'
    <2> SUFFICES ASSUME RetentionInv, [RetentionNext]_retentionVars
                 PROVE  RetentionInv'
      OBVIOUS
    <2>1. entries \in Catalogues /\ rule \in Rules /\ PlanExact
      BY DEF RetentionInv
    <2>2. ASSUME entries' = entries, rule' = rule, victims' = victims
          PROVE  PlanExact'
      BY <2>1, <2>2, RulesUnchanged DEF PlanExact
    <2>3. CASE Plan
      <3>1. entries' = entries /\ rule' = rule /\ victims' = victims
        BY <2>3 DEF Plan
      <3> QED BY <2>1, <2>2, <2>3, <3>1, PlanStep DEF RetentionInv
    <2>4. CASE PlanReturns
      <3>1. /\ entries' = entries /\ rule' = rule /\ marked' = marked /\ walk' = walk
            /\ groups' = groups /\ groups = {} /\ walk # NoPlan /\ ~Walking /\ victims' = marked
        BY <2>4 DEF PlanReturns
      <3>2. WalkOK /\ GroupsOK /\ MarkedOK
        BY <3>1 DEF RetentionInv
      <3>3. marked = {k \in Aged : Expired(k) \/ Oversize(k) \/ Superseded(k)}
        BY <2>1, <3>1, <3>2, FinishedMarks
      <3>4. PlanExact'
        BY <3>1, <3>3, RulesUnchanged DEF PlanExact
      <3>5. (WalkOK /\ GroupsOK /\ MarkedOK)'
        BY <3>1, <3>2, WalkUnchanged
      <3> QED BY <2>1, <3>1, <3>4, <3>5 DEF RetentionInv
    <2>5. CASE \E k \in DOMAIN entries : Visit(k)
      <3>1. PICK k \in DOMAIN entries : Visit(k)
        BY <2>5
      <3>2. entries' = entries /\ rule' = rule /\ victims' = victims /\ walk # NoPlan
        BY <3>1 DEF Visit
      <3>3. WalkOK /\ GroupsOK /\ MarkedOK
        BY <3>2 DEF RetentionInv
      <3> QED BY <2>1, <2>2, <3>1, <3>2, <3>3, VisitStep DEF RetentionInv
    <2>6. CASE \E g \in groups : NextGroup(g)
      <3>1. PICK g \in groups : NextGroup(g)
        BY <2>6
      <3>2. entries' = entries /\ rule' = rule /\ victims' = victims /\ walk # NoPlan
        BY <3>1 DEF NextGroup
      <3>3. WalkOK /\ GroupsOK /\ MarkedOK
        BY <3>2 DEF RetentionInv
      <3> QED BY <2>1, <2>2, <3>1, <3>2, <3>3, NextGroupStep DEF RetentionInv
    <2>7. CASE UNCHANGED retentionVars
      <3>1. /\ entries' = entries /\ rule' = rule /\ marked' = marked /\ walk' = walk
            /\ groups' = groups /\ victims' = victims
        BY <2>7 DEF retentionVars
      <3>2. walk # NoPlan => (WalkOK /\ GroupsOK /\ MarkedOK)'
        BY <3>1, WalkUnchanged DEF RetentionInv
      <3> QED BY <2>1, <2>2, <3>1, <3>2 DEF RetentionInv
    <2> QED BY <2>3, <2>4, <2>5, <2>6, <2>7 DEF RetentionNext
  <1> QED BY <1>1, <1>2, PTL DEF RetentionSpec

\* Plan returns exactly the entries that one of the rules decides to delete.
THEOREM PlanAlwaysExact == RetentionSpec => []PlanExact
  <1>1. RetentionInv => PlanExact
    BY DEF RetentionInv
  <1> QED BY <1>1, RetentionCorrect, PTL

\* What survives a plan is within the budgets, or only entries without a time
\* are left to delete.
THEOREM BudgetsAlwaysMet == RetentionSpec => []BudgetMet
  <1>1. RetentionInv => BudgetMet
    BY ExactMeetsBudgets DEF RetentionInv
  <1> QED BY <1>1, RetentionCorrect, PTL
=============================================================================
