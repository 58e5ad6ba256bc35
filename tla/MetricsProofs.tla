---------------------------- MODULE MetricsProofs ----------------------------
(***************************************************************************)
(* Proof that a scrape tells the truth, for any number of overlapping      *)
(* scrapes of any finite catalog.                                          *)
(***************************************************************************)
EXTENDS Metrics, FiniteSetTheorems, TLAPS

Labels == {label(e) : e \in FileEntries}
Listings == UNION {[F -> FileEntries] : F \in SUBSET Files}
Volumes == UNION {[D -> Nat] : D \in SUBSET Labels}
Values == [volumes : Volumes, scalars : [Scalars -> Nat]]

Steps ==
    {"none", "count", "reset", "label", "set", "detached", "uploadsPerWeek",
     "uploadsPerMonth", "gather"}

ScrapeState ==
    [pc : Steps, entries : Listings, values : Values,
     todo : SUBSET (Labels \cup {"volumes", "scalars"}),
     at : Labels \cup {NoBucketName}, shown : Values]

Shape ==
    /\ catalogue \in [Files -> FileEntries \cup {Unlisted}]
    /\ duplicateCount \in {0, 1}
    /\ volumeFiles \in Volumes
    /\ scalars \in [Scalars -> Nat]
    /\ scrape \in [Scrapers -> ScrapeState]
    /\ \A s \in Scrapers : scrape[s].pc = "none" => scrape[s] = NoScrape
    /\ DOMAIN company = Scrapers

\* What the labels that a scrape has still to set, and the one it is about to
\* set, come from.
LabelInv(s) ==
    LET p == scrape[s] IN
    /\ p.pc \in {"label", "set", "detached"} => p.todo \subseteq DOMAIN p.values.volumes
    /\ p.pc \in {"set", "detached"} => p.at \in DOMAIN p.values.volumes

\* A scrape under way knows of the values of every scrape that is under way.
CompanyInv(s) ==
    scrape[s].pc # "none" =>
        \A t \in Scrapers : scrape[t].pc \notin {"none", "count"} => scrape[t].values \in company[s]

\* Every value of these was computed by the scrape or by one that overlaps it.
MixedVolumes(s, volumes) ==
    \A l \in DOMAIN volumes :
        \E v \in company[s] : l \in DOMAIN v.volumes /\ volumes[l] \in {0, v.volumes[l]}
MixedScalar(s, values, g) == \E v \in company[s] : values[g] = v.scalars[g]

\* From its Reset on, a scrape finds nothing older than the scrapes it overlaps
\* under a label, and from its Set on in a gauge without labels.
MixInv(s) ==
    LET p == scrape[s] IN
    /\ p.pc \in Steps \ {"none", "count", "reset"} => MixedVolumes(s, volumeFiles)
    /\ p.pc \in {"uploadsPerWeek", "uploadsPerMonth", "gather"} =>
          MixedScalar(s, scalars, "duplicateFiles")
    /\ p.pc \in {"uploadsPerMonth", "gather"} => MixedScalar(s, scalars, "uploadsPerWeek")
    /\ p.pc = "gather" => MixedScalar(s, scalars, "uploadsPerMonth")
    /\ p.pc = "gather" /\ "volumes" \notin p.todo => MixedVolumes(s, p.shown.volumes)
    /\ p.pc = "gather" /\ "scalars" \notin p.todo =>
          \A g \in Scalars : MixedScalar(s, p.shown.scalars, g)

\* A scrape that has met no other finds exactly what it has set so far.
AloneInv(s) ==
    LET p == scrape[s] IN
    s \in alone =>
    /\ p.pc \notin {"none", "detached"}
    /\ \A t \in Scrapers \ {s} : scrape[t].pc = "none"
    /\ p.pc \in {"label", "set"} =>
          /\ DOMAIN volumeFiles = DOMAIN p.values.volumes \ p.todo
          /\ \A l \in DOMAIN volumeFiles :
                ~(p.pc = "set" /\ l = p.at) => volumeFiles[l] = p.values.volumes[l]
    /\ p.pc \in {"uploadsPerWeek", "uploadsPerMonth", "gather"} =>
          /\ volumeFiles = p.values.volumes
          /\ scalars["duplicateFiles"] = p.values.scalars["duplicateFiles"]
    /\ p.pc \in {"uploadsPerMonth", "gather"} =>
          scalars["uploadsPerWeek"] = p.values.scalars["uploadsPerWeek"]
    /\ p.pc = "gather" => scalars["uploadsPerMonth"] = p.values.scalars["uploadsPerMonth"]
    /\ p.pc = "gather" /\ "volumes" \notin p.todo => p.shown.volumes = p.values.volumes
    /\ p.pc = "gather" /\ "scalars" \notin p.todo => p.shown.scalars = p.values.scalars

ScrapeInv(s) == LabelInv(s) /\ CompanyInv(s) /\ MixInv(s) /\ AloneInv(s)

IndInv == Shape /\ \A s \in Scrapers : ScrapeInv(s)
-----------------------------------------------------------------------------
\* A map from labels to numbers is one of Volumes.
LEMMA VolumesDef ==
    /\ \A f : f \in Volumes <=> f \in [DOMAIN f -> Nat] /\ DOMAIN f \subseteq Labels
    /\ << >> \in Volumes /\ << >> \in Listings /\ DOMAIN << >> = {}
    /\ \A f \in Listings : DOMAIN f \subseteq Files /\ f \in [DOMAIN f -> FileEntries]
  <1>1. DOMAIN << >> = {}
    BY SMT
  <1>2. ASSUME NEW S PROVE << >> \in [{} -> S]
    BY SMT
  <1>3. ASSUME NEW f PROVE f \in Volumes <=> f \in [DOMAIN f -> Nat] /\ DOMAIN f \subseteq Labels
    BY DEF Volumes
  <1>4. << >> \in Volumes
    BY <1>2 DEF Volumes
  <1>5. << >> \in Listings
    BY <1>2 DEF Listings
  <1>6. \A f \in Listings : DOMAIN f \subseteq Files /\ f \in [DOMAIN f -> FileEntries]
    BY DEF Listings
  <1> QED BY <1>1, <1>3, <1>4, <1>5, <1>6

\* What Update computes has a value for every gauge, and a volume per label.
LEMMA ComputedType ==
    ASSUME NEW es \in Listings, NEW n \in Nat
    PROVE  Computed(es, n) \in Values
  <1>1. DOMAIN es \subseteq Files /\ es \in [DOMAIN es -> FileEntries]
    BY VolumesDef
  <1>2. \A S \in SUBSET DOMAIN es : Cardinality(S) \in Nat
    BY <1>1, MetricsAssumption, FS_Subset, FS_CardinalityType
  <1>3. \A days : Within(es, days) \in Nat
    BY <1>2 DEF Within
  <1>4. Computed(es, n).scalars \in [Scalars -> Nat]
    BY <1>3 DEF Computed, Scalars
  <1>5. Computed(es, n).volumes \in Volumes
    <2> DEFINE D == {label(es[f]) : f \in DOMAIN es}
    <2>1. \A l : Cardinality({f \in DOMAIN es : label(es[f]) = l}) \in Nat
      BY <1>2
    <2>2. D \subseteq Labels
      BY <1>1 DEF Labels
    <2>3. Computed(es, n).volumes \in [D -> Nat]
      BY <2>1 DEF Computed
    <2> QED BY <2>2, <2>3 DEF Volumes
  <1> QED BY <1>4, <1>5 DEF Computed, Values

\* A scrape that has not begun.
LEMMA NoScrapeType == NoScrape \in ScrapeState /\ NoScrape.pc = "none"
  <1>1. NoValues \in Values
    BY VolumesDef DEF NoValues, Values
  <1> QED BY <1>1, VolumesDef DEF NoScrape, ScrapeState, Steps
-----------------------------------------------------------------------------
\* No scrape has begun at the start.
LEMMA InitIndInv == MetricsInit => IndInv
  <1> SUFFICES ASSUME MetricsInit PROVE IndInv
    OBVIOUS
  <1>1. scrape \in [Scrapers -> ScrapeState] /\ \A s \in Scrapers : scrape[s] = NoScrape
    BY NoScrapeType DEF MetricsInit
  <1>2. scalars \in [Scalars -> Nat] /\ volumeFiles \in Volumes
    BY VolumesDef DEF MetricsInit, NoValues
  <1>3. Shape
    BY <1>1, <1>2 DEF MetricsInit, Shape
  <1>4. ASSUME NEW s \in Scrapers PROVE ScrapeInv(s)
    <2>1. scrape[s].pc = "none" /\ s \notin alone
      BY <1>1, NoScrapeType DEF MetricsInit
    <2> QED BY <2>1 DEF ScrapeInv, LabelInv, CompanyInv, MixInv, AloneInv, Steps
  <1> QED BY <1>3, <1>4 DEF IndInv

\* A scrape that begins learns the values of the scrapes under way, and none of
\* them is alone from then on.
LEMMA ListAllKeeps ==
    ASSUME IndInv, NEW s \in Scrapers, ListAll(s)
    PROVE  IndInv'
  <1> DEFINE others == {t \in Scrapers \ {s} : scrape[t] # NoScrape}
             es == Restrict(catalogue, {f \in Files : catalogue[f] # Unlisted})
             p == [NoScrape EXCEPT !.pc = "count", !.entries = es]
  <1>1. /\ scrape[s] = NoScrape
        /\ scrape' = [scrape EXCEPT ![s] = p]
        /\ alone' = IF others = {} THEN alone \cup {s} ELSE alone \ others
        /\ company' = [company EXCEPT ![s] =
               {scrape[t].values : t \in {u \in others : scrape[u].pc # "count"}}]
        /\ UNCHANGED <<catalogue, duplicateCount, volumeFiles, scalars>>
    BY DEF ListAll
  <1>2. es \in Listings
    <2> DEFINE F == {f \in Files : catalogue[f] # Unlisted}
    <2>1. es \in [F -> FileEntries]
      BY DEF IndInv, Shape, Restrict
    <2>2. F \in SUBSET Files
      OBVIOUS
    <2> QED BY <2>1, <2>2 DEF Listings
  <1>3. p \in ScrapeState /\ p.pc = "count"
    BY <1>2, NoScrapeType DEF ScrapeState, Steps
  <1> HIDE DEF p, es
  <1>4. /\ scrape' \in [Scrapers -> ScrapeState]
        /\ \A t \in Scrapers : scrape'[t] = IF t = s THEN p ELSE scrape[t]
    BY <1>1, <1>3 DEF IndInv, Shape
  <1>5. \A t \in Scrapers \ {s} : t \in others <=> scrape[t].pc # "none"
    BY NoScrapeType DEF IndInv, Shape
  <1> HIDE DEF others
  <1>6. /\ DOMAIN company' = Scrapers
        /\ company'[s] = {scrape[t].values : t \in {u \in others : scrape[u].pc # "count"}}
        /\ \A t \in Scrapers \ {s} : company'[t] = company[t]
    BY <1>1 DEF IndInv, Shape
  <1>7. Shape'
    BY <1>1, <1>3, <1>4, <1>6 DEF IndInv, Shape
  <1>8. s \notin alone
    BY <1>1, NoScrapeType DEF IndInv, ScrapeInv, AloneInv
  <1>9. ScrapeInv(s)'
    <2>1. LabelInv(s)' /\ MixInv(s)'
      BY <1>3, <1>4 DEF LabelInv, MixInv, Steps
    <2>2. CompanyInv(s)'
      BY <1>3, <1>4, <1>5, <1>6 DEF CompanyInv
    <2>3. AloneInv(s)'
      BY <1>1, <1>3, <1>4, <1>5, <1>8 DEF AloneInv
    <2> QED BY <2>1, <2>2, <2>3 DEF ScrapeInv
  <1>10. ASSUME NEW t \in Scrapers \ {s} PROVE ScrapeInv(t)'
    <2>1. scrape'[t] = scrape[t] /\ company'[t] = company[t] /\ ScrapeInv(t)
      BY <1>4, <1>6 DEF IndInv
    <2>2. LabelInv(t)' /\ MixInv(t)'
      BY <1>1, <2>1 DEF ScrapeInv, LabelInv, MixInv, MixedVolumes, MixedScalar
    <2>3. CompanyInv(t)'
      BY <1>3, <1>4, <2>1 DEF ScrapeInv, CompanyInv
    <2>4. t \notin alone'
      <3>1. CASE t \in others
        BY <1>1, <3>1
      <3>2. CASE t \notin others
        BY <1>1, <1>5, <2>1, <3>2 DEF ScrapeInv, AloneInv
      <3> QED BY <3>1, <3>2
    <2> QED BY <2>2, <2>3, <2>4 DEF ScrapeInv, AloneInv
  <1> QED BY <1>7, <1>9, <1>10 DEF IndInv

\* The values a scrape computes join the company of all scrapes under way.
LEMMA DuplicateCountKeeps ==
    ASSUME IndInv, NEW s \in Scrapers, DuplicateCount(s)
    PROVE  IndInv'
  <1> DEFINE values == Computed(scrape[s].entries, duplicateCount)
             p == [scrape[s] EXCEPT !.pc = "reset", !.entries = << >>, !.values = values]
  <1>1. /\ scrape[s].pc = "count"
        /\ scrape' = [scrape EXCEPT ![s] = p]
        /\ company' = [t \in Scrapers |->
               IF scrape[t] # NoScrape THEN company[t] \cup {values} ELSE company[t]]
        /\ UNCHANGED <<catalogue, duplicateCount, volumeFiles, scalars, alone>>
    BY DEF DuplicateCount
  <1>2. values \in Values
    BY ComputedType DEF IndInv, Shape, ScrapeState
  <1> HIDE DEF values
  <1>3. p \in ScrapeState /\ p.pc = "reset" /\ p.values = values
    BY <1>2, VolumesDef DEF IndInv, Shape, ScrapeState, Steps
  <1> HIDE DEF p
  <1>4. /\ scrape' \in [Scrapers -> ScrapeState]
        /\ \A t \in Scrapers : scrape'[t] = IF t = s THEN p ELSE scrape[t]
    BY <1>1, <1>3 DEF IndInv, Shape
  <1>5. /\ DOMAIN company' = Scrapers
        /\ \A t \in Scrapers : company[t] \subseteq company'[t]
        /\ \A t \in Scrapers : scrape[t].pc # "none" => values \in company'[t]
    BY <1>1, NoScrapeType
  <1>6. Shape'
    BY <1>1, <1>3, <1>4, <1>5 DEF IndInv, Shape
  <1>7. ASSUME NEW t \in Scrapers PROVE ScrapeInv(t)'
    <2>1. ScrapeInv(t)
      BY DEF IndInv
    <2>2. CompanyInv(t)'
      BY <1>1, <1>3, <1>4, <1>5, <2>1 DEF ScrapeInv, CompanyInv
    <2>3. LabelInv(t)'
      BY <1>3, <1>4, <2>1 DEF ScrapeInv, LabelInv
    <2>4. MixInv(t)'
      <3>1. CASE t = s
        BY <1>3, <1>4, <3>1 DEF MixInv, Steps
      <3>2. CASE t # s
        BY <1>1, <1>4, <1>5, <2>1, <3>2 DEF ScrapeInv, MixInv, MixedVolumes, MixedScalar
      <3> QED BY <3>1, <3>2
    <2>5. AloneInv(t)'
      <3>1. CASE t = s
        BY <1>1, <1>3, <1>4, <2>1, <3>1 DEF ScrapeInv, AloneInv
      <3>2. CASE t # s
        BY <1>1, <2>1, <3>2 DEF ScrapeInv, AloneInv
      <3> QED BY <3>1, <3>2
    <2> QED BY <2>2, <2>3, <2>4, <2>5 DEF ScrapeInv
  <1> QED BY <1>6, <1>7 DEF IndInv

\* Reset leaves no label, so none that is older than the scrapes under way.
LEMMA ResetKeeps ==
    ASSUME IndInv, NEW s \in Scrapers, Reset(s)
    PROVE  IndInv'
  <1> DEFINE p == [scrape[s] EXCEPT !.pc = "label", !.todo = DOMAIN scrape[s].values.volumes]
             q(t) == IF t = s THEN p
                     ELSE IF scrape[t].pc = "set" THEN [scrape[t] EXCEPT !.pc = "detached"]
                     ELSE scrape[t]
  <1>1. /\ scrape[s].pc = "reset"
        /\ volumeFiles' = Restrict(volumeFiles, {})
        /\ scrape' = [t \in Scrapers |-> q(t)]
        /\ UNCHANGED <<catalogue, duplicateCount, scalars, alone, company>>
    BY DEF Reset, resetThen, metricsHistory
  <1>2. volumeFiles' \in Volumes /\ DOMAIN volumeFiles' = {}
    BY <1>1, VolumesDef DEF Restrict
  <1>3. /\ p \in ScrapeState /\ p.pc = "label" /\ p.values = scrape[s].values
        /\ p.todo = DOMAIN p.values.volumes
    <2>1. DOMAIN scrape[s].values.volumes \subseteq Labels
      BY VolumesDef DEF IndInv, Shape, ScrapeState, Values
    <2> QED BY <2>1 DEF IndInv, Shape, ScrapeState, Steps
  <1>4. ASSUME NEW t \in Scrapers \ {s}
        PROVE  /\ q(t) \in ScrapeState /\ q(t).values = scrape[t].values
               /\ q(t).todo = scrape[t].todo /\ q(t).at = scrape[t].at
               /\ q(t).shown = scrape[t].shown
               /\ q(t).pc = IF scrape[t].pc = "set" THEN "detached" ELSE scrape[t].pc
               /\ q(t).pc = "none" => q(t) = scrape[t]
    BY DEF IndInv, Shape, ScrapeState, Steps
  <1> HIDE DEF p
  <1>5. /\ \A t \in Scrapers : scrape'[t] = q(t)
        /\ scrape'[s] = p
        /\ scrape' \in [Scrapers -> ScrapeState]
    BY <1>1, <1>3, <1>4
  <1> HIDE DEF q
  <1>6. Shape'
    BY <1>1, <1>2, <1>3, <1>4, <1>5 DEF IndInv, Shape
  <1>7. \A t \in Scrapers : CompanyInv(t)'
    BY <1>1, <1>3, <1>4, <1>5 DEF IndInv, ScrapeInv, CompanyInv
  <1>8. ASSUME NEW t \in Scrapers PROVE LabelInv(t)'
    BY <1>3, <1>4, <1>5 DEF IndInv, ScrapeInv, LabelInv
  <1>9. ASSUME NEW t \in Scrapers PROVE MixInv(t)'
    <2>1. MixedVolumes(t, volumeFiles)'
      BY <1>2 DEF MixedVolumes
    <2>2. CASE t = s
      BY <1>3, <1>5, <2>1, <2>2 DEF MixInv
    <2>3. CASE t # s
      BY <1>1, <1>4, <1>5, <2>1, <2>3 DEF IndInv, ScrapeInv, MixInv, MixedVolumes, MixedScalar
    <2> QED BY <2>2, <2>3
  <1>10. ASSUME NEW t \in Scrapers PROVE AloneInv(t)'
    <2>1. CASE t = s
      <3>1. ASSUME NEW u \in Scrapers \ {s}, s \in alone PROVE scrape'[u].pc = "none"
        <4>1. scrape[u].pc = "none"
          BY <3>1 DEF IndInv, ScrapeInv, AloneInv
        <4> QED BY <1>4, <1>5, <4>1
      <3> QED BY <1>1, <1>2, <1>3, <1>5, <2>1, <3>1 DEF AloneInv
    <2>2. CASE t # s
      BY <1>1, <2>2 DEF IndInv, ScrapeInv, AloneInv
    <2> QED BY <2>1, <2>2
  <1> QED BY <1>6, <1>7, <1>8, <1>9, <1>10 DEF IndInv, ScrapeInv

\* WithLabelValues adds at most a label of the scrape's own values, at 0.
LEMMA WithLabelKeeps ==
    ASSUME IndInv, NEW s \in Scrapers, NEW l \in scrape[s].todo, WithLabelValues(s, l)
    PROVE  IndInv'
  <1> DEFINE p == [scrape[s] EXCEPT !.pc = "set", !.todo = @ \ {l}, !.at = l]
  <1>1. /\ scrape[s].pc = "label"
        /\ volumeFiles' = [x \in DOMAIN volumeFiles \cup {l} |->
               IF x \in DOMAIN volumeFiles THEN volumeFiles[x] ELSE 0]
        /\ scrape' = [scrape EXCEPT ![s] = p]
        /\ UNCHANGED <<catalogue, duplicateCount, scalars, alone, company>>
    BY DEF WithLabelValues, metricsHistory
  <1>2. l \in DOMAIN scrape[s].values.volumes /\ l \in Labels
    <2>1. l \in DOMAIN scrape[s].values.volumes
      BY <1>1 DEF IndInv, ScrapeInv, LabelInv
    <2> QED BY <2>1, VolumesDef DEF IndInv, Shape, ScrapeState, Values
  <1>3. /\ p \in ScrapeState /\ p.pc = "set" /\ p.values = scrape[s].values
        /\ p.todo = scrape[s].todo \ {l} /\ p.at = l
    BY <1>2 DEF IndInv, Shape, ScrapeState, Steps
  <1> HIDE DEF p
  <1>4. /\ scrape' \in [Scrapers -> ScrapeState]
        /\ \A t \in Scrapers : scrape'[t] = IF t = s THEN p ELSE scrape[t]
    BY <1>1, <1>3 DEF IndInv, Shape
  <1>5. /\ DOMAIN volumeFiles' = DOMAIN volumeFiles \cup {l}
        /\ \A x \in DOMAIN volumeFiles : volumeFiles'[x] = volumeFiles[x]
        /\ l \notin DOMAIN volumeFiles => volumeFiles'[l] = 0
    BY <1>1
  <1>6. volumeFiles' \in Volumes
    <2>1. volumeFiles \in [DOMAIN volumeFiles -> Nat] /\ DOMAIN volumeFiles \subseteq Labels
      BY VolumesDef DEF IndInv, Shape
    <2>2. volumeFiles' \in [DOMAIN volumeFiles' -> Nat]
      BY <1>1, <2>1
    <2> QED BY <1>2, <1>5, <2>1, <2>2, VolumesDef
  <1>7. Shape'
    BY <1>1, <1>3, <1>4, <1>6 DEF IndInv, Shape
  <1>8. ASSUME NEW t \in Scrapers PROVE LabelInv(t)' /\ CompanyInv(t)'
    <2>1. LabelInv(t)'
      BY <1>1, <1>2, <1>3, <1>4 DEF IndInv, ScrapeInv, LabelInv
    <2>2. CompanyInv(t)'
      BY <1>1, <1>3, <1>4 DEF IndInv, ScrapeInv, CompanyInv
    <2> QED BY <2>1, <2>2
  <1>9. ASSUME NEW t \in Scrapers PROVE MixInv(t)'
    <2>1. scrape[t].pc # "none" => scrape[s].values \in company[t]
      BY <1>1 DEF IndInv, ScrapeInv, CompanyInv
    <2>2. scrape[t].pc \in Steps \ {"none", "count", "reset"} => MixedVolumes(t, volumeFiles)'
      BY <1>1, <1>2, <1>5, <2>1 DEF IndInv, ScrapeInv, MixInv, MixedVolumes
    <2>3. CASE t = s
      BY <1>1, <1>3, <1>4, <2>2, <2>3 DEF MixInv, Steps
    <2>4. CASE t # s
      <3>1. scrape'[t] = scrape[t] /\ company'[t] = company[t] /\ MixInv(t) /\ scalars' = scalars
        BY <1>1, <1>4, <2>4 DEF IndInv, ScrapeInv
      <3>2. MixedVolumes(t, scrape[t].shown.volumes) => MixedVolumes(t, scrape[t].shown.volumes)'
        BY <3>1 DEF MixedVolumes
      <3> QED BY <2>2, <3>1, <3>2 DEF MixInv, MixedScalar
    <2> QED BY <2>3, <2>4
  <1>10. ASSUME NEW t \in Scrapers PROVE AloneInv(t)'
    <2>1. CASE t = s
      <3>1. ASSUME s \in alone
            PROVE  /\ \A u \in Scrapers \ {s} : scrape[u].pc = "none"
                   /\ DOMAIN volumeFiles = DOMAIN p.values.volumes \ scrape[s].todo
                   /\ \A x \in DOMAIN volumeFiles : volumeFiles[x] = p.values.volumes[x]
        <4>1. AloneInv(s)
          BY DEF IndInv, ScrapeInv
        <4> QED BY <1>1, <1>3, <3>1, <4>1 DEF AloneInv
      <3>2. ASSUME s \in alone
            PROVE  /\ DOMAIN volumeFiles' = DOMAIN p.values.volumes \ p.todo
                   /\ \A x \in DOMAIN volumeFiles' :
                         x # l => volumeFiles'[x] = p.values.volumes[x]
        BY <1>2, <1>3, <1>5, <3>1, <3>2
      <3> QED BY <1>1, <1>3, <1>4, <2>1, <3>1, <3>2 DEF AloneInv
    <2>2. CASE t # s
      BY <1>1, <2>2 DEF IndInv, ScrapeInv, AloneInv
    <2> QED BY <2>1, <2>2
  <1> QED BY <1>7, <1>8, <1>9, <1>10 DEF IndInv, ScrapeInv

\* Set writes a value that its scrape has computed.
LEMMA SetVolumeKeeps ==
    ASSUME IndInv, NEW s \in Scrapers, SetVolume(s)
    PROVE  IndInv'
  <1> DEFINE l == scrape[s].at
             p == [scrape[s] EXCEPT !.pc = "label", !.at = NoBucketName]
  <1>1. /\ scrape[s].pc \in {"set", "detached"}
        /\ volumeFiles' = IF scrape[s].pc = "set"
                          THEN [volumeFiles EXCEPT ![l] = scrape[s].values.volumes[l]]
                          ELSE volumeFiles
        /\ scrape' = [scrape EXCEPT ![s] = p]
        /\ UNCHANGED <<catalogue, duplicateCount, scalars, alone, company>>
    BY DEF SetVolume, metricsHistory
  <1>2. /\ l \in DOMAIN scrape[s].values.volumes
        /\ scrape[s].values.volumes[l] \in Nat
    <2>1. l \in DOMAIN scrape[s].values.volumes
      BY <1>1 DEF IndInv, ScrapeInv, LabelInv
    <2>2. scrape[s].values.volumes \in Volumes
      BY DEF IndInv, Shape, ScrapeState, Values
    <2> QED BY <2>1, <2>2, VolumesDef
  <1>3. /\ p \in ScrapeState /\ p.pc = "label" /\ p.values = scrape[s].values
        /\ p.todo = scrape[s].todo
    BY DEF IndInv, Shape, ScrapeState, Steps
  <1> HIDE DEF p, l
  <1>4. /\ scrape' \in [Scrapers -> ScrapeState]
        /\ \A t \in Scrapers : scrape'[t] = IF t = s THEN p ELSE scrape[t]
    BY <1>1, <1>3 DEF IndInv, Shape
  <1>5. /\ DOMAIN volumeFiles' = DOMAIN volumeFiles
        /\ \A x \in DOMAIN volumeFiles :
              volumeFiles'[x] = IF scrape[s].pc = "set" /\ x = l
                                THEN scrape[s].values.volumes[l] ELSE volumeFiles[x]
    <2>1. volumeFiles \in [DOMAIN volumeFiles -> Nat]
      BY VolumesDef DEF IndInv, Shape
    <2> QED BY <1>1, <2>1
  <1>6. volumeFiles' \in Volumes
    <2>1. volumeFiles \in [DOMAIN volumeFiles -> Nat] /\ DOMAIN volumeFiles \subseteq Labels
      BY VolumesDef DEF IndInv, Shape
    <2>2. volumeFiles' \in [DOMAIN volumeFiles' -> Nat]
      BY <1>1, <1>2, <2>1
    <2> QED BY <1>5, <2>1, <2>2, VolumesDef
  <1>7. Shape'
    BY <1>1, <1>3, <1>4, <1>6 DEF IndInv, Shape
  <1>8. ASSUME NEW t \in Scrapers PROVE LabelInv(t)' /\ CompanyInv(t)'
    <2>1. LabelInv(t)'
      BY <1>1, <1>3, <1>4 DEF IndInv, ScrapeInv, LabelInv
    <2>2. CompanyInv(t)'
      BY <1>1, <1>3, <1>4 DEF IndInv, ScrapeInv, CompanyInv
    <2> QED BY <2>1, <2>2
  <1>9. ASSUME NEW t \in Scrapers PROVE MixInv(t)'
    <2>1. scrape[t].pc # "none" => scrape[s].values \in company[t]
      BY <1>1 DEF IndInv, ScrapeInv, CompanyInv
    <2>2. scrape[t].pc \in Steps \ {"none", "count", "reset"} => MixedVolumes(t, volumeFiles)'
      BY <1>1, <1>2, <1>5, <2>1 DEF IndInv, ScrapeInv, MixInv, MixedVolumes
    <2>3. CASE t = s
      BY <1>1, <1>3, <1>4, <2>2, <2>3 DEF MixInv, Steps
    <2>4. CASE t # s
      <3>1. scrape'[t] = scrape[t] /\ company'[t] = company[t] /\ MixInv(t) /\ scalars' = scalars
        BY <1>1, <1>4, <2>4 DEF IndInv, ScrapeInv
      <3>2. MixedVolumes(t, scrape[t].shown.volumes) => MixedVolumes(t, scrape[t].shown.volumes)'
        BY <3>1 DEF MixedVolumes
      <3> QED BY <2>2, <3>1, <3>2 DEF MixInv, MixedScalar
    <2> QED BY <2>3, <2>4
  <1>10. ASSUME NEW t \in Scrapers PROVE AloneInv(t)'
    <2>1. CASE t = s
      <3>1. ASSUME s \in alone
            PROVE  /\ scrape[s].pc = "set"
                   /\ \A u \in Scrapers \ {s} : scrape[u].pc = "none"
                   /\ DOMAIN volumeFiles = DOMAIN p.values.volumes \ p.todo
                   /\ \A x \in DOMAIN volumeFiles :
                         x # l => volumeFiles[x] = p.values.volumes[x]
        <4>1. AloneInv(s)
          BY DEF IndInv, ScrapeInv
        <4> QED BY <1>1, <1>3, <3>1, <4>1 DEF AloneInv, l
      <3>2. ASSUME s \in alone
            PROVE  /\ DOMAIN volumeFiles' = DOMAIN p.values.volumes \ p.todo
                   /\ \A x \in DOMAIN volumeFiles' : volumeFiles'[x] = p.values.volumes[x]
        BY <1>3, <1>5, <3>1, <3>2
      <3> QED BY <1>1, <1>3, <1>4, <2>1, <3>1, <3>2 DEF AloneInv
    <2>2. CASE t # s
      BY <1>1, <2>2 DEF IndInv, ScrapeInv, AloneInv
    <2> QED BY <2>1, <2>2
  <1> QED BY <1>7, <1>8, <1>9, <1>10 DEF IndInv, ScrapeInv

\* So does Set on a gauge without labels.
LEMMA SetScalarKeeps ==
    ASSUME IndInv, NEW s \in Scrapers, SetScalar(s)
    PROVE  IndInv'
  <1> DEFINE o == scrape[s]
             g == IF o.pc = "label" THEN "duplicateFiles" ELSE o.pc
             next == IF g = "duplicateFiles" THEN "uploadsPerWeek"
                     ELSE IF g = "uploadsPerWeek" THEN "uploadsPerMonth" ELSE "gather"
             todo == IF g = "uploadsPerMonth" THEN {"volumes", "scalars"} ELSE {}
             p == [o EXCEPT !.pc = next, !.todo = todo]
  <1>1. /\ o.todo = {} /\ o.pc \in {"label", "uploadsPerWeek", "uploadsPerMonth"}
        /\ g \in Scalars
    BY DEF SetScalar, IndInv, Shape, ScrapeState, Steps, Scalars
  <1>2. /\ scalars' = [scalars EXCEPT ![g] = o.values.scalars[g]]
        /\ scrape' = [scrape EXCEPT ![s] = p]
        /\ UNCHANGED <<catalogue, duplicateCount, volumeFiles, alone, company>>
    <2> DEFINE after == [duplicateFiles |-> "uploadsPerWeek",
                         uploadsPerWeek |-> "uploadsPerMonth", uploadsPerMonth |-> "gather"]
    <2>1. after[g] = next
      BY <1>1
    <2>2. /\ scalars' = [scalars EXCEPT ![g] = o.values.scalars[g]]
          /\ scrape' = [scrape EXCEPT ![s].pc = after[g], ![s].todo = todo]
          /\ UNCHANGED <<catalogue, duplicateCount, volumeFiles, alone, company>>
      BY DEF SetScalar, metricsHistory
    <2> QED BY <2>1, <2>2 DEF IndInv, Shape
  <1>3. p \in ScrapeState /\ p.pc = next /\ p.values = o.values /\ p.todo = todo
    BY DEF IndInv, Shape, ScrapeState, Steps
  <1> HIDE DEF p
  <1>4. /\ scrape' \in [Scrapers -> ScrapeState]
        /\ \A t \in Scrapers : scrape'[t] = IF t = s THEN p ELSE scrape[t]
    BY <1>2, <1>3 DEF IndInv, Shape
  <1>5. /\ scalars' \in [Scalars -> Nat]
        /\ \A h \in Scalars : scalars'[h] = IF h = g THEN o.values.scalars[g] ELSE scalars[h]
    <2>1. o.values.scalars \in [Scalars -> Nat]
      BY DEF IndInv, Shape, ScrapeState, Values
    <2> QED BY <1>1, <1>2, <2>1 DEF IndInv, Shape
  <1>6. Shape'
    BY <1>2, <1>3, <1>4, <1>5 DEF IndInv, Shape
  <1>7. ASSUME NEW t \in Scrapers PROVE LabelInv(t)' /\ CompanyInv(t)'
    <2>1. LabelInv(t)'
      BY <1>3, <1>4 DEF IndInv, ScrapeInv, LabelInv
    <2>2. CompanyInv(t)'
      BY <1>1, <1>2, <1>3, <1>4 DEF IndInv, ScrapeInv, CompanyInv
    <2> QED BY <2>1, <2>2
  <1>8. ASSUME NEW t \in Scrapers PROVE MixInv(t)'
    <2>1. scrape[t].pc # "none" => o.values \in company[t]
      BY <1>1 DEF IndInv, ScrapeInv, CompanyInv
    <2>2. ASSUME NEW h \in Scalars, scrape[t].pc # "none",
                 h = g \/ MixedScalar(t, scalars, h)
          PROVE  MixedScalar(t, scalars, h)'
      BY <1>2, <1>5, <2>1, <2>2 DEF MixedScalar
    <2>3. MixedVolumes(t, volumeFiles) => MixedVolumes(t, volumeFiles)'
      BY <1>2 DEF MixedVolumes
    <2>4. MixInv(t)
      BY DEF IndInv, ScrapeInv
    <2>5. CASE t = s
      BY <1>1, <1>3, <1>4, <2>2, <2>3, <2>4, <2>5 DEF MixInv, Steps, Scalars
    <2>6. CASE t # s
      <3>1. MixedVolumes(t, scrape[t].shown.volumes) => MixedVolumes(t, scrape[t].shown.volumes)'
        BY <1>2, <1>4, <2>6 DEF MixedVolumes
      <3>2. (\A h \in Scalars : MixedScalar(t, scrape[t].shown.scalars, h)) =>
                (\A h \in Scalars : MixedScalar(t, scrape[t].shown.scalars, h)')
        BY <1>2, <1>4, <2>6 DEF MixedScalar
      <3>3. scrape'[t] = scrape[t]
        BY <1>4, <2>6
      <3> QED BY <2>2, <2>3, <2>4, <3>1, <3>2, <3>3 DEF MixInv, Steps, Scalars
    <2> QED BY <2>5, <2>6
  <1>9. ASSUME NEW t \in Scrapers PROVE AloneInv(t)'
    <2>1. CASE t = s
      <3>1. ASSUME s \in alone PROVE volumeFiles = o.values.volumes
        <4>1. CASE o.pc = "label"
          <5>1. /\ DOMAIN volumeFiles = DOMAIN o.values.volumes
                /\ \A l \in DOMAIN volumeFiles : volumeFiles[l] = o.values.volumes[l]
            BY <1>1, <3>1, <4>1 DEF IndInv, ScrapeInv, AloneInv
          <5>2. /\ volumeFiles \in [DOMAIN volumeFiles -> Nat]
                /\ o.values.volumes \in [DOMAIN o.values.volumes -> Nat]
            BY VolumesDef DEF IndInv, Shape, ScrapeState, Values
          <5> QED BY <5>1, <5>2
        <4>2. CASE o.pc # "label"
          BY <1>1, <3>1, <4>2 DEF IndInv, ScrapeInv, AloneInv
        <4> QED BY <4>1, <4>2
      <3>2. AloneInv(s)
        BY DEF IndInv, ScrapeInv
      <3> QED BY <1>1, <1>2, <1>3, <1>4, <1>5, <2>1, <3>1, <3>2 DEF AloneInv, Scalars
    <2>2. CASE t # s
      BY <1>1, <1>2, <2>2 DEF IndInv, ScrapeInv, AloneInv
    <2> QED BY <2>1, <2>2
  <1> QED BY <1>6, <1>7, <1>8, <1>9 DEF IndInv, ScrapeInv

\* The registry shows what the gauges hold.
LEMMA GatherKeeps ==
    ASSUME IndInv, NEW s \in Scrapers, NEW g \in scrape[s].todo, Gather(s, g)
    PROVE  IndInv'
  <1> DEFINE o == scrape[s]
             shown == IF g = "volumes" THEN [o.shown EXCEPT !.volumes = volumeFiles]
                      ELSE [o.shown EXCEPT !.scalars = scalars]
             p == [o EXCEPT !.todo = @ \ {g}, !.shown = shown]
  <1>1. /\ o.pc = "gather"
        /\ scrape' = [scrape EXCEPT ![s] = p]
        /\ UNCHANGED <<catalogue, duplicateCount, volumeFiles, scalars, alone, company>>
    BY DEF Gather, metricsHistory, IndInv, Shape
  <1>2. /\ shown \in Values
        /\ shown.volumes = IF g = "volumes" THEN volumeFiles ELSE o.shown.volumes
        /\ shown.scalars = IF g = "volumes" THEN o.shown.scalars ELSE scalars
    BY DEF IndInv, Shape, ScrapeState, Values
  <1> HIDE DEF shown
  <1>3. /\ p \in ScrapeState /\ p.pc = "gather" /\ p.values = o.values
        /\ p.todo = o.todo \ {g} /\ p.shown = shown
    BY <1>1, <1>2 DEF IndInv, Shape, ScrapeState
  <1> HIDE DEF p
  <1>4. /\ scrape' \in [Scrapers -> ScrapeState]
        /\ \A t \in Scrapers : scrape'[t] = IF t = s THEN p ELSE scrape[t]
    BY <1>1, <1>3 DEF IndInv, Shape
  <1>5. Shape'
    BY <1>1, <1>3, <1>4 DEF IndInv, Shape
  <1>6. ASSUME NEW t \in Scrapers PROVE LabelInv(t)' /\ CompanyInv(t)'
    <2>1. LabelInv(t)'
      BY <1>3, <1>4 DEF IndInv, ScrapeInv, LabelInv
    <2>2. CompanyInv(t)'
      BY <1>1, <1>3, <1>4 DEF IndInv, ScrapeInv, CompanyInv
    <2> QED BY <2>1, <2>2
  <1>7. ASSUME NEW t \in Scrapers PROVE MixInv(t)'
    <2>1. MixInv(t)
      BY DEF IndInv, ScrapeInv
    <2>2. /\ MixedVolumes(t, volumeFiles) => MixedVolumes(t, volumeFiles)'
          /\ \A h \in Scalars : MixedScalar(t, scalars, h) => MixedScalar(t, scalars, h)'
      BY <1>1 DEF MixedVolumes, MixedScalar
    <2>3. CASE t = s
      <3>1. scrape'[s].shown = shown /\ scrape'[s].todo = o.todo \ {g} /\ scrape'[s].pc = "gather"
        BY <1>3, <1>4
      <3>2. "volumes" \notin scrape'[s].todo => MixedVolumes(s, scrape[s].shown.volumes)'
        <4>1. CASE g = "volumes"
          BY <1>1, <1>2, <2>1, <2>3, <3>1, <4>1 DEF MixInv, MixedVolumes, Steps
        <4>2. CASE g # "volumes"
          BY <1>1, <1>2, <2>1, <2>3, <3>1, <4>2 DEF MixInv, MixedVolumes
        <4> QED BY <4>1, <4>2
      <3>3. "scalars" \notin scrape'[s].todo =>
                \A h \in Scalars : MixedScalar(s, scrape[s].shown.scalars, h)'
        <4>1. CASE g = "volumes"
          BY <1>1, <1>2, <2>1, <2>3, <3>1, <4>1 DEF MixInv, MixedScalar
        <4>2. CASE g # "volumes"
          BY <1>1, <1>2, <2>1, <2>3, <3>1, <4>2 DEF MixInv, MixedScalar, Scalars
        <4> QED BY <4>1, <4>2
      <3> QED BY <1>1, <2>1, <2>2, <2>3, <3>1, <3>2, <3>3 DEF MixInv, Steps, Scalars
    <2>4. CASE t # s
      <3>1. MixedVolumes(t, scrape[t].shown.volumes) => MixedVolumes(t, scrape[t].shown.volumes)'
        BY <1>1, <1>4, <2>4 DEF MixedVolumes
      <3>2. (\A h \in Scalars : MixedScalar(t, scrape[t].shown.scalars, h)) =>
                (\A h \in Scalars : MixedScalar(t, scrape[t].shown.scalars, h)')
        BY <1>1, <1>4, <2>4 DEF MixedScalar
      <3>3. scrape'[t] = scrape[t]
        BY <1>4, <2>4
      <3> QED BY <2>1, <2>2, <3>1, <3>2, <3>3 DEF MixInv, Steps, Scalars
    <2> QED BY <2>3, <2>4
  <1>8. ASSUME NEW t \in Scrapers PROVE AloneInv(t)'
    <2>1. CASE t = s
      <3>1. AloneInv(s)
        BY DEF IndInv, ScrapeInv
      <3>2. ASSUME s \in alone PROVE scalars = o.values.scalars
        <4>1. \A h \in Scalars : scalars[h] = o.values.scalars[h]
          BY <1>1, <3>1, <3>2 DEF AloneInv, Scalars
        <4>2. scalars \in [Scalars -> Nat] /\ o.values.scalars \in [Scalars -> Nat]
          BY DEF IndInv, Shape, ScrapeState, Values
        <4> QED BY <4>1, <4>2
      <3> QED BY <1>1, <1>2, <1>3, <1>4, <2>1, <3>1, <3>2 DEF AloneInv
    <2>2. CASE t # s
      BY <1>1, <2>2 DEF IndInv, ScrapeInv, AloneInv
    <2> QED BY <2>1, <2>2
  <1> QED BY <1>5, <1>6, <1>7, <1>8 DEF IndInv, ScrapeInv

\* A scrape that has answered is over.
LEMMA RespondKeeps ==
    ASSUME IndInv, NEW s \in Scrapers, Respond(s)
    PROVE  IndInv'
  <1>1. /\ scrape[s].pc = "gather"
        /\ scrape' = [scrape EXCEPT ![s] = NoScrape]
        /\ alone' = alone \ {s}
        /\ company' = [company EXCEPT ![s] = {}]
        /\ UNCHANGED <<catalogue, duplicateCount, volumeFiles, scalars>>
    BY DEF Respond, Rendered
  <1>2. /\ scrape' \in [Scrapers -> ScrapeState]
        /\ \A t \in Scrapers : scrape'[t] = IF t = s THEN NoScrape ELSE scrape[t]
    BY <1>1, NoScrapeType DEF IndInv, Shape
  <1>3. DOMAIN company' = Scrapers /\ \A t \in Scrapers \ {s} : company'[t] = company[t]
    BY <1>1 DEF IndInv, Shape
  <1>4. Shape'
    BY <1>1, <1>2, <1>3 DEF IndInv, Shape
  <1>5. ScrapeInv(s)'
    BY <1>1, <1>2, NoScrapeType DEF ScrapeInv, LabelInv, CompanyInv, MixInv, AloneInv, Steps
  <1>6. ASSUME NEW t \in Scrapers \ {s} PROVE ScrapeInv(t)'
    <2>1. scrape'[t] = scrape[t] /\ company'[t] = company[t] /\ ScrapeInv(t)
      BY <1>2, <1>3 DEF IndInv
    <2>2. LabelInv(t)' /\ MixInv(t)'
      BY <1>1, <2>1 DEF ScrapeInv, LabelInv, MixInv, MixedVolumes, MixedScalar
    <2>3. CompanyInv(t)'
      BY <1>2, <2>1, NoScrapeType DEF ScrapeInv, CompanyInv
    <2>4. t \notin alone'
      BY <1>1, <2>1 DEF ScrapeInv, AloneInv
    <2> QED BY <2>2, <2>3, <2>4 DEF ScrapeInv, AloneInv
  <1> QED BY <1>4, <1>5, <1>6 DEF IndInv

\* Every step of the scrapes and the catalog keeps the invariant.
LEMMA NextIndInv == IndInv /\ [MetricsNext]_metricsVars => IndInv'
  <1> SUFFICES ASSUME IndInv, [MetricsNext]_metricsVars PROVE IndInv'
    OBVIOUS
  <1>1. ASSUME NEW s \in Scrapers,
               \/ ListAll(s) \/ DuplicateCount(s) \/ Reset(s)
               \/ \E l \in scrape[s].todo : WithLabelValues(s, l)
               \/ SetVolume(s) \/ SetScalar(s)
               \/ \E g \in scrape[s].todo : Gather(s, g)
               \/ Respond(s)
        PROVE  IndInv'
    BY <1>1, ListAllKeeps, DuplicateCountKeeps, ResetKeeps, WithLabelKeeps, SetVolumeKeeps,
       SetScalarKeeps, GatherKeeps, RespondKeeps
  <1>2. ASSUME UNCHANGED <<volumeFiles, scalars, scrape, alone, company>>,
               catalogue' \in [Files -> FileEntries \cup {Unlisted}], duplicateCount' \in {0, 1}
        PROVE  IndInv'
    <2>1. Shape'
      BY <1>2 DEF IndInv, Shape
    <2>2. ASSUME NEW s \in Scrapers PROVE ScrapeInv(s)'
      <3>1. ScrapeInv(s)
        BY DEF IndInv
      <3>2. LabelInv(s)' /\ CompanyInv(s)'
        BY <1>2, <3>1 DEF ScrapeInv, LabelInv, CompanyInv
      <3>3. MixInv(s)'
        BY <1>2, <3>1 DEF ScrapeInv, MixInv, MixedVolumes, MixedScalar
      <3>4. AloneInv(s)'
        BY <1>2, <3>1 DEF ScrapeInv, AloneInv
      <3> QED BY <3>2, <3>3, <3>4 DEF ScrapeInv
    <2> QED BY <2>1, <2>2 DEF IndInv
  <1>3. ASSUME NEW f \in Files, NEW e \in FileEntries \cup {Unlisted}, Relist(f, e)
        PROVE  IndInv'
    BY <1>2, <1>3 DEF Relist, metricsHistory, IndInv, Shape
  <1>4. CASE UNCHANGED metricsVars
    BY <1>2, <1>4 DEF metricsVars, metricsHistory, IndInv, Shape
  <1> QED BY <1>1, <1>3, <1>4 DEF MetricsNext

\* IndInv holds in every reachable state.
LEMMA Inductive == MetricsSpec => []IndInv
  BY InitIndInv, NextIndInv, PTL DEF MetricsSpec
-----------------------------------------------------------------------------
\* Whatever scrapes overlap and whatever happens to the catalog meanwhile, a
\* scrape that met no other shows exactly what it computed, and any other one
\* shows only values that it or a scrape beside it computed.
THEOREM ScrapesAreTruthful == MetricsSpec => []ScrapeTruthful
  <1>1. ASSUME IndInv PROVE ScrapeTruthful
    <2> SUFFICES ASSUME NEW s \in Scrapers, Rendered(s)
                 PROVE  LET shown == scrape[s].shown IN
                        IF s \in alone THEN shown = scrape[s].values
                        ELSE /\ \A l \in DOMAIN shown.volumes :
                                   \E v \in company[s] :
                                       l \in DOMAIN v.volumes /\ shown.volumes[l] \in {0, v.volumes[l]}
                             /\ \A g \in Scalars : \E v \in company[s] : shown.scalars[g] = v.scalars[g]
      BY DEF ScrapeTruthful
    <2>1. scrape[s].pc = "gather" /\ scrape[s].todo = {} /\ MixInv(s) /\ AloneInv(s)
      BY <1>1 DEF Rendered, IndInv, ScrapeInv
    <2>2. CASE s \in alone
      <3>1. scrape[s].shown \in Values /\ scrape[s].values \in Values
        BY <1>1 DEF IndInv, Shape, ScrapeState
      <3>2. /\ scrape[s].shown.volumes = scrape[s].values.volumes
            /\ scrape[s].shown.scalars = scrape[s].values.scalars
        BY <2>1, <2>2 DEF AloneInv
      <3>3. scrape[s].shown = scrape[s].values
        BY <3>1, <3>2 DEF Values
      <3> QED BY <2>2, <3>3
    <2>3. CASE s \notin alone
      BY <2>1, <2>3 DEF MixInv, MixedVolumes, MixedScalar
    <2> QED BY <2>2, <2>3
  <1> QED BY Inductive, <1>1, PTL
=============================================================================
