------------------------------- MODULE Metrics -------------------------------
(***************************************************************************)
(* GET /metrics: every scrape recomputes the gauges from the catalog and   *)
(* then renders them.  The gauges belong to the process, so overlapping    *)
(* scrapes reset, set and render the same ones; each gauge is atomic and   *)
(* nothing orders one against another.                                     *)
(*                                                                         *)
(* An entry has its bucket and its age in days at the time of the scrape,  *)
(* NoTime if its LastModified does not parse.                              *)
(***************************************************************************)
EXTENDS Integers, FiniteSets, Functions

CONSTANTS
    Scrapers,       \* numbered; bound on the scrapes that overlap
    MaxScrapes,     \* bound on all scrapes
    Files,          \* keys
    FileEntries,    \* possible [bucket, age]
    Unlisted,       \* the catalog does not know the key
    NoTime,
    NoBucketName,   \* an empty bucket name
    MaxListings     \* bound on changes of the catalog

ASSUME MetricsAssumption == IsFiniteSet(Files)

VARIABLES
    catalogue,      \* key -> entry or Unlisted
    duplicateCount,
    volumeFiles,    \* label -> value, on the labels that exist
    scalars,        \* the gauges without labels
    scrape,         \* scraper -> [pc, entries, values, todo, at, shown]
    scrapes, listings,
    \* History, read by the properties only:
    alone,          \* scrapers that have met no other scrape
    company         \* scraper -> values computed by scrapes that overlap it

metricsHistory == <<alone, company>>
metricsVars ==
    <<catalogue, duplicateCount, volumeFiles, scalars, scrape, scrapes, listings,
      metricsHistory>>

week == 7
month == 31

Scalars == {"duplicateFiles", "uploadsPerWeek", "uploadsPerMonth"}
NoValues == [volumes |-> <<>>, scalars |-> [g \in Scalars |-> 0]]
NoScrape ==
    [pc |-> "none", entries |-> <<>>, values |-> NoValues, todo |-> {}, at |-> NoBucketName,
     shown |-> NoValues]

\* What Update computes from the entries it was given.
label(e) == IF e.bucket = NoBucketName THEN "unknown" ELSE e.bucket

Within(es, days) ==
    Cardinality({f \in DOMAIN es : es[f].age # NoTime /\ es[f].age \in 0..days})

Computed(es, duplicates) ==
    [volumes |-> [l \in {label(es[f]) : f \in DOMAIN es} |->
                     Cardinality({f \in DOMAIN es : label(es[f]) = l})],
     scalars |-> [g \in Scalars |-> CASE g = "duplicateFiles" -> duplicates
                                      [] g = "uploadsPerWeek" -> Within(es, week)
                                      [] g = "uploadsPerMonth" -> Within(es, month)]]

\* handleMetrics: ListAll ...
ListAll(s) ==
    LET others == {t \in Scrapers \ {s} : scrape[t] # NoScrape} IN
    /\ scrape[s] = NoScrape
    /\ \A t \in Scrapers : t < s => scrape[t] # NoScrape
    /\ scrapes < MaxScrapes
    /\ scrapes' = scrapes + 1
    /\ scrape' = [scrape EXCEPT ![s] = [NoScrape EXCEPT !.pc = "count",
           !.entries = Restrict(catalogue, {f \in Files : catalogue[f] # Unlisted})]]
    /\ alone' = IF others = {} THEN alone \cup {s} ELSE alone \ others
    /\ company' = [company EXCEPT ![s] = 
           {scrape[t].values : t \in {u \in others : scrape[u].pc # "count"}}]
    /\ UNCHANGED <<catalogue, duplicateCount, volumeFiles, scalars, listings>>

\* ... and DuplicateCount, then Update.
DuplicateCount(s) ==
    LET values == Computed(scrape[s].entries, duplicateCount) IN
    /\ scrape[s].pc = "count"
    /\ scrape' = [scrape EXCEPT ![s].pc = "reset", ![s].entries = <<>>, ![s].values = values]
    /\ company' = [t \in Scrapers |->
           IF scrape[t] # NoScrape THEN company[t] \cup {values} ELSE company[t]]
    /\ UNCHANGED <<catalogue, duplicateCount, volumeFiles, scalars, scrapes, listings, alone>>

\* volumeFiles.Reset drops all labels; what another scrape is about to set is
\* then no longer part of the vector.
resetThen(s, labels) ==
    /\ scrape[s].pc = "reset"
    /\ volumeFiles' = Restrict(volumeFiles, labels)
    /\ scrape' = [t \in Scrapers |->
           IF t = s
           THEN [scrape[s] EXCEPT !.pc = "label", !.todo = DOMAIN scrape[s].values.volumes]
           ELSE IF scrape[t].pc = "set" THEN [scrape[t] EXCEPT !.pc = "detached"]
           ELSE scrape[t]]
    /\ UNCHANGED <<catalogue, duplicateCount, scalars, scrapes, listings, metricsHistory>>
KeepLabels(s) == resetThen(s, DOMAIN volumeFiles)   \* faulty
Reset(s) == resetThen(s, {})

\* WithLabelValues finds the label or creates it with the value 0, for the
\* labels in any order, as the map yields them ...
WithLabelValues(s, l) ==
    /\ scrape[s].pc = "label" /\ l \in scrape[s].todo
    /\ volumeFiles' = [x \in DOMAIN volumeFiles \cup {l} |->
           IF x \in DOMAIN volumeFiles THEN volumeFiles[x] ELSE 0]
    /\ scrape' = [scrape EXCEPT ![s].pc = "set", ![s].todo = @ \ {l}, ![s].at = l]
    /\ UNCHANGED <<catalogue, duplicateCount, scalars, scrapes, listings, metricsHistory>>

\* ... and Set gives it its value, unless a Reset dropped it in between.
SetVolume(s) ==
    LET l == scrape[s].at IN
    /\ scrape[s].pc \in {"set", "detached"}
    /\ volumeFiles' = IF scrape[s].pc = "set"
                      THEN [volumeFiles EXCEPT ![l] = scrape[s].values.volumes[l]]
                      ELSE volumeFiles
    /\ scrape' = [scrape EXCEPT ![s].pc = "label", ![s].at = NoBucketName]
    /\ UNCHANGED <<catalogue, duplicateCount, scalars, scrapes, listings, metricsHistory>>

\* The gauges without labels, one after the other.
SetScalar(s) ==
    LET p == scrape[s]
        g == IF p.pc = "label" THEN "duplicateFiles" ELSE p.pc
        after == [duplicateFiles |-> "uploadsPerWeek", uploadsPerWeek |-> "uploadsPerMonth",
                  uploadsPerMonth |-> "gather"]
    IN  /\ p.todo = {} /\ p.pc \in Scalars \cup {"label"}
        /\ scalars' = [scalars EXCEPT ![g] = p.values.scalars[g]]
        /\ scrape' = [scrape EXCEPT
               ![s].pc = after[g],
               ![s].todo = IF g = "uploadsPerMonth" THEN {"volumes", "scalars"} ELSE {}]
        /\ UNCHANGED <<catalogue, duplicateCount, volumeFiles, scrapes, listings,
                       metricsHistory>>

\* Handler: the registry collects the gauges concurrently, then answers.
Gather(s, g) ==
    /\ scrape[s].pc = "gather" /\ g \in scrape[s].todo
    /\ scrape' = [scrape EXCEPT ![s].todo = @ \ {g},
           ![s].shown = IF g = "volumes" THEN [@ EXCEPT !.volumes = volumeFiles]
                        ELSE [@ EXCEPT !.scalars = scalars]]
    /\ UNCHANGED <<catalogue, duplicateCount, volumeFiles, scalars, scrapes, listings,
                   metricsHistory>>

Rendered(s) == scrape[s].pc = "gather" /\ scrape[s].todo = {}

Respond(s) ==
    /\ Rendered(s)
    /\ scrape' = [scrape EXCEPT ![s] = NoScrape]
    /\ alone' = alone \ {s}
    /\ company' = [company EXCEPT ![s] = {}]
    /\ UNCHANGED <<catalogue, duplicateCount, volumeFiles, scalars, scrapes, listings>>

\* Requests and the sync change the catalog, and a sync the duplicate count.
Relist(f, e) ==
    /\ listings < MaxListings
    /\ listings' = listings + 1
    /\ catalogue' = [catalogue EXCEPT ![f] = e]
    /\ duplicateCount' = 1 - duplicateCount
    /\ UNCHANGED <<volumeFiles, scalars, scrape, scrapes, metricsHistory>>

MetricsNext ==
    \/ \E s \in Scrapers :
           \/ ListAll(s)
           \/ DuplicateCount(s)
           \/ Reset(s)
           \/ \E l \in scrape[s].todo : WithLabelValues(s, l)
           \/ SetVolume(s)
           \/ SetScalar(s)
           \/ \E g \in scrape[s].todo : Gather(s, g)
           \/ Respond(s)
    \/ \E f \in Files, e \in FileEntries \cup {Unlisted} : Relist(f, e)

MetricsInit ==
    /\ catalogue \in [Files -> FileEntries \cup {Unlisted}]
    /\ duplicateCount = 0
    /\ volumeFiles = <<>>
    /\ scalars = NoValues.scalars
    /\ scrape = [s \in Scrapers |-> NoScrape]
    /\ scrapes = 0 /\ listings = 0
    /\ alone = {}
    /\ company = [s \in Scrapers |-> {}]

MetricsSpec == MetricsInit /\ [][MetricsNext]_metricsVars
-----------------------------------------------------------------------------
\* A scrape that met no other shows exactly what the catalog held when it was
\* listed: no volume that has lost its last file since an earlier scrape, no
\* value of one.  A scrape that overlaps others shows nothing worse than a mix:
\* every value was computed by it or by a scrape that overlapped it, and only a
\* volume may also be missing, or still be 0.
ScrapeTruthful ==
    \A s \in Scrapers : Rendered(s) =>
        LET shown == scrape[s].shown IN
        IF s \in alone THEN shown = scrape[s].values
        ELSE /\ \A l \in DOMAIN shown.volumes :
                   \E v \in company[s] :
                       l \in DOMAIN v.volumes /\ shown.volumes[l] \in {0, v.volumes[l]}
             /\ \A g \in Scalars : \E v \in company[s] : shown.scalars[g] = v.scalars[g]
=============================================================================
