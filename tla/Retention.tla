------------------------------ MODULE Retention ------------------------------
(***************************************************************************)
(* cleanup.Rule.Plan: which entries of the catalog a retention rule would  *)
(* delete.  An entry has a size, a time (0 when its LastModified does not  *)
(* parse) and the package group that GroupKey gives it.  A threshold of 0  *)
(* or less disables its rule.                                              *)
(***************************************************************************)
EXTENDS Integers, FiniteSetsExt

CONSTANTS
    Catalogues, \* the catalogs Plan may be given
    Rules,      \* the rules it may be given
    NoGroup,    \* GroupKey's "": excluded from the version rule
    NoPlan      \* Plan has not returned, or not been called

\* Keys are numbered in name order, and times from 1 on.
ASSUME RetentionAssumption ==
    /\ \A c \in Catalogues :
          /\ IsFiniteSet(DOMAIN c) /\ DOMAIN c \subseteq Nat
          /\ \A k \in DOMAIN c : c[k].size \in Nat /\ c[k].time \in Nat
    /\ \A r \in Rules :
          {r.now, r.maxAge, r.maxTotalSize, r.maxVersionCount} \subseteq Int

VARIABLES
    entries,    \* key -> [size, time, group]
    rule,       \* [now, maxAge, maxTotalSize, maxVersionCount]
    marked,     \* Plan's map of victims
    walk,       \* the loop over sorted keys that is under way
    groups,     \* the groups that versionOverflow has not ranged over yet
    victims     \* the keys Plan returned

retentionVars == <<entries, rule, marked, walk, groups, victims>>

RetentionInit ==
    /\ entries \in Catalogues /\ rule \in Rules
    /\ marked = {} /\ walk = NoPlan /\ groups = {} /\ victims = NoPlan

\* The keys parseAges finds a time for.
Aged == {k \in DOMAIN entries : entries[k].time # 0}

\* The order in which both rules sort: by age, equal ages by key, and keys
\* without a time last.
Older(i, j) ==
    IF i \notin Aged \/ j \notin Aged
    THEN i \in Aged /\ j \notin Aged
    ELSE \/ entries[i].time < entries[j].time
         \/ entries[i].time = entries[j].time /\ i < j

TotalSize(S) == MapThenSumSet(LAMBDA k : entries[k].size, S)

Group(g) == {k \in DOMAIN entries : entries[k].group = g}
Groups == {entries[k].group : k \in DOMAIN entries} \ {NoGroup}

(***************************************************************************)
(* Both budgets are met by the same loop: it visits the sorted keys while  *)
(* the total of the keys not evicted is over the limit.  MaxTotalSize      *)
(* walks all keys and counts bytes, MaxVersionCount walks one group and    *)
(* counts keys.                                                            *)
(***************************************************************************)
OldestFirstAged ==   \* faulty
    [group |-> NoGroup, sorted |-> DOMAIN entries, total |-> TotalSize(Aged),
     limit |-> rule.maxTotalSize]
oldestFirst ==
    [group |-> NoGroup, sorted |-> DOMAIN entries, total |-> TotalSize(DOMAIN entries),
     limit |-> rule.maxTotalSize]

OverflowOfAged(g) ==   \* faulty
    [group |-> g, sorted |-> Group(g), total |-> Cardinality(Group(g) \cap Aged),
     limit |-> rule.maxVersionCount]
versionOverflow(g) ==
    [group |-> g, sorted |-> Group(g), total |-> Cardinality(Group(g)),
     limit |-> rule.maxVersionCount]

Weight(k) == IF walk.group = NoGroup THEN entries[k].size ELSE 1

Walking == walk.total > walk.limit /\ walk.sorted # {}

\* Marks what is too old, and begins the walk of MaxTotalSize if it is set.
Plan ==
    /\ walk = NoPlan
    /\ marked' = IF rule.maxAge > 0
                 THEN {k \in Aged : rule.now - entries[k].time > rule.maxAge} ELSE {}
    /\ walk' = IF rule.maxTotalSize > 0 THEN oldestFirst
               ELSE [oldestFirst EXCEPT !.sorted = {}]
    /\ groups' = IF rule.maxVersionCount > 0 THEN Groups ELSE {}
    /\ UNCHANGED <<entries, rule, victims>>

\* The next of the sorted keys; sort.Slice leaves open which it is among those
\* without a time.
Visit(k) ==
    /\ walk # NoPlan /\ Walking
    /\ k \in walk.sorted /\ \A j \in walk.sorted : ~Older(j, k)
    /\ IF k \in Aged
       THEN /\ marked' = marked \cup {k}
            /\ walk' = [walk EXCEPT !.sorted = @ \ {k}, !.total = @ - Weight(k)]
       ELSE /\ walk' = [walk EXCEPT !.sorted = @ \ {k}]
            /\ UNCHANGED marked
    /\ UNCHANGED <<entries, rule, groups, victims>>

\* The next group, in the order in which Go ranges over a map.
NextGroup(g) ==
    /\ walk # NoPlan /\ ~Walking
    /\ walk' = versionOverflow(g)
    /\ groups' = groups \ {g}
    /\ UNCHANGED <<entries, rule, marked, victims>>

\* The victims are sorted by key and returned.
PlanReturns ==
    /\ walk # NoPlan /\ ~Walking /\ groups = {} /\ victims = NoPlan
    /\ victims' = marked
    /\ UNCHANGED <<entries, rule, marked, walk, groups>>

RetentionNext ==
    \/ Plan \/ PlanReturns
    \/ \E k \in DOMAIN entries : Visit(k)
    \/ \E g \in groups : NextGroup(g)

RetentionSpec == RetentionInit /\ [][RetentionNext]_retentionVars

Survivors == DOMAIN entries \ victims

(***************************************************************************)
(* What each rule means for one entry, whatever the others are: it is past *)
(* the age; or what is left without the entries older than it is still too *)
(* large; or its group is still too long without the older ones.           *)
(***************************************************************************)
Expired(k) == rule.maxAge > 0 /\ rule.now - entries[k].time > rule.maxAge

OlderThan(k, S) == {i \in S \cap Aged : Older(i, k)}

Oversize(k) ==
    /\ rule.maxTotalSize > 0
    /\ TotalSize(DOMAIN entries \ OlderThan(k, DOMAIN entries)) > rule.maxTotalSize

Superseded(k) ==
    LET g == Group(entries[k].group) IN
    /\ rule.maxVersionCount > 0 /\ entries[k].group # NoGroup
    /\ Cardinality(g \ OlderThan(k, g)) > rule.maxVersionCount

\* Plan deletes an entry exactly if its time is known and one of the rules
\* applies to it: nothing is deleted needlessly, nothing that is older than a
\* victim of the same rule survives, ties are decided by key, and an entry whose
\* time is unknown counts for size and version budgets and is never deleted.
PlanExact ==
    victims # NoPlan =>
        victims = {k \in Aged : Expired(k) \/ Oversize(k) \/ Superseded(k)}

\* What survives is within the size budget and every group within the version
\* budget, unless only entries whose time is unknown are left to delete.
BudgetMet ==
    victims # NoPlan =>
        /\ \/ rule.maxTotalSize <= 0
           \/ TotalSize(Survivors) <= rule.maxTotalSize
           \/ Survivors \cap Aged = {}
        /\ rule.maxVersionCount > 0 => \A g \in Groups :
              \/ Cardinality(Group(g) \cap Survivors) <= rule.maxVersionCount
              \/ Group(g) \cap Survivors \cap Aged = {}
=============================================================================
