-------------------------------- MODULE Policy --------------------------------
(***************************************************************************)
(* internal/policy with internal/scan: concurrent calls of Engine.Evaluate *)
(* that judge an artifact by a ruleset and waivers and record the verdict  *)
(* in the audit log.                                                       *)
(*                                                                         *)
(* A name stands for ecosystem and name.  A reason stands for the rule and *)
(* the decision it voted for.  Slices of reasons are references to arrays, *)
(* because what one holder does to an array all its holders see.           *)
(***************************************************************************)
EXTENDS Naturals, FiniteSetsExt, Sequences

CONSTANTS
    PolicyCallers,
    Engines,        \* possible [rules, waivers, audit]
    Artifacts,      \* possible [name, version, license, published, answer]
    NotNormalized,  \* a license without an SPDX identifier
    AnyVersion,     \* Waiver.Version is empty
    ScanError,      \* Scan failed
    MaxClock        \* bound on the clock

\* Severities are ordered, times and ages are instants and durations, and only an
\* SPDX identifier can be denied.
ASSUME PolicyAssumption ==
    /\ IsFiniteSet(PolicyCallers)
    /\ MaxClock \in Nat
    /\ \A e \in Engines :
          /\ e.rules.max \in 0..4 /\ e.rules.quarantine \in 0..4 /\ e.rules.minAge \in Nat
          /\ NotNormalized \notin e.rules.denied
          /\ \A i \in DOMAIN e.waivers : e.waivers[i].expires \in Nat
          /\ e.audit \in BOOLEAN
    /\ \A a \in Artifacts : a.published \in Nat

VARIABLES
    engine,
    policyClock,    \* 0 is the zero time
    calls,          \* caller -> [pc, artifact, now, decision, waived]
    arrays,         \* reference -> reasons, Scribbled once a holder wrote to it
    auditLog,       \* sequence of [artifact, time, decision, waived, reasons]
    listed          \* references Entries gave to a reader

policyVars == <<engine, policyClock, calls, arrays, auditLog, listed>>

NoCall == [pc |-> "none"]

Unknown == 0
Low == 1
Medium == 2
High == 3
Critical == 4

Allow == 0
Quarantine == 1
Deny == 2

(***************************************************************************)
(* The scan result.  An answer of the service has the severities that its  *)
(* findings carry, unless it is unusable.                                  *)
(***************************************************************************)
parseOSVSeverity(raw) ==
    CASE raw = "LOW" -> Low
      [] raw \in {"MODERATE", "MEDIUM"} -> Medium
      [] raw = "HIGH" -> High
      [] raw = "CRITICAL" -> Critical
      [] OTHER -> Unknown

Scan(answer) ==
    IF answer.status \in {"failed", "not_ok", "oversized", "garbled"} THEN ScanError
    ELSE {parseOSVSeverity(raw) : raw \in answer.severities}

MaxSeverity(findings) == Max(findings \cup {Unknown})

\* scan.Policy.Evaluate.
ScanAllowed(findings, max) == findings = {} \/ MaxSeverity(findings) <= max

(***************************************************************************)
(* Ruleset.Evaluate: the reasons of every rule that has an opinion, and    *)
(* the strictest of their decisions.                                       *)
(***************************************************************************)
Reason(r, d) == [rule |-> r, decision |-> d]
Scribbled == <<Reason("none", Allow)>>

evaluateLicense(a) ==
    IF a.license = NotNormalized THEN <<>>
    ELSE <<Reason("license", IF a.license \in engine.rules.denied THEN Deny ELSE Allow)>>

QuarantineFirst(a) ==   \* faulty
    LET worst == MaxSeverity(Scan(a.answer)) IN
    <<Reason("vulnerability",
        CASE Scan(a.answer) = {} -> Allow
          [] Scan(a.answer) # {} /\ worst > engine.rules.quarantine -> Quarantine
          [] Scan(a.answer) # {} /\ worst <= engine.rules.quarantine
             /\ worst > engine.rules.max -> Deny
          [] OTHER -> Allow)>>
evaluateVulnerabilities(a) ==
    LET worst == MaxSeverity(Scan(a.answer)) IN
    <<Reason("vulnerability",
        CASE Scan(a.answer) = {} -> Allow
          [] Scan(a.answer) # {} /\ worst > engine.rules.max -> Deny
          [] Scan(a.answer) # {} /\ worst <= engine.rules.max
             /\ worst > engine.rules.quarantine -> Quarantine
          [] OTHER -> Allow)>>

evaluateAge(a, now) ==
    IF a.published = 0 \/ engine.rules.minAge = 0 THEN <<>>
    ELSE <<Reason("age", IF now < a.published + engine.rules.minAge THEN Quarantine ELSE Allow)>>

Opinions(a, now) == evaluateLicense(a) \o evaluateVulnerabilities(a) \o evaluateAge(a, now)

merge(reasons) == Max({reasons[i].decision : i \in DOMAIN reasons})

\* Waiver.matches; expires = 0 is a waiver without an end.
matches(w, a, now) ==
    /\ w.name = a.name
    /\ w.version \in {AnyVersion, a.version}
    /\ w.expires = 0 \/ now <= w.expires

findWaiver(a, now) == \E i \in DOMAIN engine.waivers : matches(engine.waivers[i], a, now)

(***************************************************************************)
(* Engine.Evaluate up to the call of Record.                               *)
(***************************************************************************)
Evaluate(c, a) ==
    LET reasons == Opinions(a, policyClock)
        waived == merge(reasons) # Allow /\ findWaiver(a, policyClock)
    IN  /\ calls[c] = NoCall
        /\ Scan(a.answer) # ScanError
        /\ calls' = [calls EXCEPT ![c] =
               [pc |-> IF engine.audit THEN "record" ELSE "returned",
                artifact |-> a, now |-> policyClock, waived |-> waived,
                decision |-> IF waived THEN Allow ELSE merge(reasons)]]
        /\ arrays' = [arrays EXCEPT ![<<"call", c>>] =
               IF waived THEN Append(reasons, Reason("waiver", Allow)) ELSE reasons]
        /\ UNCHANGED <<engine, policyClock, auditLog, listed>>

\* AuditLog.Record appends, under the lock, an entry with reasons of its own.
recordWith(c, ref) ==
    /\ calls[c].pc = "record"
    /\ calls' = [calls EXCEPT ![c].pc = "returned"]
    /\ arrays' = [arrays EXCEPT ![ref] = arrays[<<"call", c>>]]
    /\ auditLog' = Append(auditLog,
           [artifact |-> calls[c].artifact, time |-> calls[c].now,
            decision |-> calls[c].decision, waived |-> calls[c].waived, reasons |-> ref])
    /\ UNCHANGED <<engine, policyClock, listed>>
RecordSharing(c) == recordWith(c, <<"call", c>>)   \* faulty
Record(c) == recordWith(c, <<"entry", Len(auditLog) + 1>>)

\* AuditLog.Entries returns a copy of every entry with reasons of its own.
Entries ==
    /\ listed = {} /\ auditLog # <<>>
    /\ listed' = {<<"copy", i>> : i \in DOMAIN auditLog}
    /\ arrays' = [ref \in DOMAIN arrays |->
           IF ref \in listed' THEN arrays[auditLog[ref[2]].reasons] ELSE arrays[ref]]
    /\ UNCHANGED <<engine, policyClock, calls, auditLog>>

\* The callers of Evaluate and Entries own what they got, and may write to it.
Scribble(refs) ==
    /\ arrays' = [ref \in DOMAIN arrays |-> IF ref \in refs THEN Scribbled ELSE arrays[ref]]
    /\ UNCHANGED <<engine, policyClock, calls, auditLog, listed>>

PolicyTick ==
    /\ policyClock < MaxClock
    /\ policyClock' = policyClock + 1
    /\ UNCHANGED <<engine, calls, arrays, auditLog, listed>>

PolicyNext ==
    \/ \E c \in PolicyCallers :
           \/ \E a \in Artifacts : Evaluate(c, a)
           \/ Record(c)
           \/ calls[c].pc = "returned" /\ Scribble({<<"call", c>>})
    \/ Entries
    \/ listed # {} /\ Scribble(listed)
    \/ PolicyTick

References ==
    ({"call"} \X PolicyCallers) \cup ({"entry", "copy"} \X (1..Cardinality(PolicyCallers)))

PolicyInit ==
    /\ engine \in Engines
    /\ policyClock = 1
    /\ calls = [c \in PolicyCallers |-> NoCall]
    /\ arrays = [ref \in References |-> <<>>]
    /\ auditLog = <<>>
    /\ listed = {}

PolicySpec == PolicyInit /\ [][PolicyNext]_policyVars
-----------------------------------------------------------------------------
\* The audit log tells for ever what was decided and why, whatever the callers
\* of Evaluate and the readers of Entries do to the slices they were given:
\* anything that a rule forbids was not allowed unless a waiver was in force at
\* the time of the entry, nothing else counts as waived, and every entry has all
\* the reasons of its verdict.
Forbidden(a, t) ==
    \/ a.license \in engine.rules.denied
    \/ \E s \in Scan(a.answer) : s > engine.rules.max \/ s > engine.rules.quarantine
    \/ engine.rules.minAge > 0 /\ a.published # 0 /\ t < a.published + engine.rules.minAge
InForce(a, t) ==
    \E i \in DOMAIN engine.waivers :
        LET w == engine.waivers[i] IN
        w.name = a.name /\ w.version \in {AnyVersion, a.version} /\ ~(w.expires \in 1..(t - 1))
AuditTruthful ==
    \A i \in DOMAIN auditLog :
        LET e == auditLog[i] IN
        /\ e.waived <=> Forbidden(e.artifact, e.time) /\ InForce(e.artifact, e.time)
        /\ e.decision = Allow <=> ~Forbidden(e.artifact, e.time) \/ e.waived
        /\ arrays[e.reasons] =
              Opinions(e.artifact, e.time)
                  \o (IF e.waived THEN <<Reason("waiver", Allow)>> ELSE <<>>)

\* With the quarantine threshold at or above the maximum, the ruleset's verdict
\* on the findings alone is scan.Policy's: denied or allowed, never quarantined.
BinaryLikeScan ==
    \A c \in PolicyCallers :
        calls[c] # NoCall /\ engine.rules.quarantine >= engine.rules.max =>
            LET a == calls[c].artifact IN
            merge(evaluateVulnerabilities(a)) =
                IF ScanAllowed(Scan(a.answer), engine.rules.max) THEN Allow ELSE Deny
=============================================================================
