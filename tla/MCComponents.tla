---------------------------- MODULE MCComponents ----------------------------
(***************************************************************************)
(* The parts of the service that do not change the catalog: what requests  *)
(* pass before their handler, the webhooks, the retention rule, the policy *)
(* engine, the configuration and the metrics.  They share no state, so a   *)
(* behaviour exercises one of them, its topic, while the others rest; only *)
(* the clock of the gateway does not rest beside the webhooks.             *)
(***************************************************************************)
EXTENDS Gateway, Webhook, Retention, Policy, Configuration, Metrics

VARIABLE topic

(***************************************************************************)
(* Gateway: no usable key, or a usable key beside a blank one; the second  *)
(* key is never configured.                                                *)
(***************************************************************************)
CONSTANTS k1, k2

MCKeys == {k1, k2}
MCKeyLists == {{Blank}, {Blank, k1}}

(***************************************************************************)
(* Retention: three keys with sizes and times that tie, times that do not  *)
(* parse, and every combination of enabled rules.                          *)
(***************************************************************************)
CONSTANT pkg

MCCatalogues == [1..3 -> [size : 0..2, time : 0..2, group : {NoGroup, pkg}]]

MCRules ==
    [now : {3}, maxAge : {0, 1}, maxTotalSize : {0, 2}, maxVersionCount : {0, 1}]

(***************************************************************************)
(* Policy: artifacts that no rule forbids, that one rule forbids, and that *)
(* several do; waivers for one version, for all, expired and not.          *)
(***************************************************************************)
CONSTANTS spdx, gpl, lib, other

Answer(status, severities) == [status |-> status, severities |-> severities]

Artifact(version, license, published, answer) ==
    [name |-> lib, version |-> version, license |-> license, published |-> published,
     answer |-> answer]

MCArtifacts ==
    { Artifact(1, NotNormalized, 0, Answer("ok", {})),
      Artifact(2, spdx, 1, Answer("ok", {"unlabelled"})),
      Artifact(1, spdx, 0, Answer("ok", {"LOW", "MODERATE"})),
      Artifact(2, NotNormalized, 2, Answer("ok", {"MEDIUM", "HIGH"})),
      Artifact(1, gpl, 1, Answer("ok", {"CRITICAL"})),
      Artifact(1, spdx, 1, Answer("garbled", {})) }

MCEngines ==
    LET waiver(name, version, expires) ==
            [name |-> name, version |-> version, expires |-> expires]
        rules == [max : {Unknown, Medium}, quarantine : {Low, High}, denied : {{gpl}},
                  minAge : {1}]
        waivers == { <<waiver(lib, 1, 2)>>,
                     <<waiver(other, AnyVersion, 0), waiver(lib, AnyVersion, 1)>>,
                     <<waiver(lib, 1, 1), waiver(lib, 2, 0)>> }
    IN  [rules : rules, waivers : waivers, audit : {TRUE}]
            \cup [rules : [max : {Critical}, quarantine : {Low}, denied : {{}}, minAge : {0}],
                  waivers : {<<>>}, audit : BOOLEAN]

(***************************************************************************)
(* Configuration: names that occur in several lists, tokens with missing   *)
(* parts, members that do not exist or are virtual themselves.             *)
(***************************************************************************)
CONSTANTS bktA, bktB, virt

Hosted(name, visibility) == [name |-> name, visibility |-> visibility]
Proxy(name, upstream, visibility, ttl) ==
    [name |-> name, upstream |-> upstream, visibility |-> visibility, ttl |-> ttl]
Virtual(name, members) == [name |-> name, members |-> members]

Lists(T, n) == UNION {[1..m -> T] : m \in 0..n}

MCHosted ==
    Lists({ Hosted(NoName, "public"), Hosted(bktA, "public"), Hosted(bktA, "private"),
            Hosted(bktB, "misspelt") }, 2) \ {<<>>}
MCProxies ==
    Lists({ Proxy(bktA, bktB, "public", 0), Proxy(bktB, NoName, "public", BadTTL),
            Proxy(bktB, bktA, "private", BadTTL), Proxy(bktB, bktA, "private", 1) }, 2)
MCVirtuals ==
    Lists({ Virtual(virt, <<bktA, NoName>>), Virtual(virt, <<bktB, bktA>>),
            Virtual(bktA, <<bktB>>), Virtual(virt, <<NoName>>), Virtual(NoName, <<virt>>),
            Virtual(bktB, <<virt>>) }, 2)

Legacy(pub, priv) == [pub |-> pub, priv |-> priv]
Numbers(port, interval) ==
    [port |-> port, rate |-> "good", burst |-> "good", interval |-> interval]

MCEnvironments ==
    [ buckets : MCHosted, legacy : {Legacy(NoName, NoName)}, proxies : MCProxies,
      virtuals : MCVirtuals, numbers : {Numbers("good", "good")} ]
    \cup
    [ buckets : {Unset}, legacy : {Legacy(bktA, bktB), Legacy(bktA, NoName)},
      proxies : MCProxies, virtuals : {<<>>},
      numbers : {Numbers("good", "good"), Numbers("good", "bad")} ]

(***************************************************************************)
(* Metrics: entries at the edges of the two windows, without a time and    *)
(* without a bucket.                                                       *)
(***************************************************************************)
CONSTANTS vol1, vol2

File(bucket, age) == [bucket |-> bucket, age |-> age]
MCFileEntries == {File(vol1, week), File(vol2, week + 1), File(NoBucketName, NoTime)}

(***************************************************************************)
(* One topic per behaviour.                                                *)
(***************************************************************************)
GatewayIdle == GatewayInit /\ configured = {Blank}
WebhookIdle == WebhookInit
RetentionIdle ==
    /\ entries = <<>> /\ rule = <<>> /\ marked = {} /\ walk = NoPlan /\ groups = {}
    /\ victims = NoPlan
PolicyIdle ==
    /\ engine = <<>> /\ policyClock = 1 /\ auditLog = <<>> /\ listed = {}
    /\ calls = [c \in PolicyCallers |-> NoCall] /\ arrays = <<>>
ConfigurationIdle == environment = <<>> /\ loaded = NoConfig
MetricsIdle == MetricsInit /\ catalogue = <<File(vol1, week), File(NoBucketName, NoTime)>>

Init ==
    \/ /\ topic = "gateway" /\ GatewayInit
       /\ WebhookIdle /\ RetentionIdle /\ PolicyIdle /\ ConfigurationIdle /\ MetricsIdle
    \/ /\ topic = "webhook" /\ WebhookInit
       /\ GatewayIdle /\ RetentionIdle /\ PolicyIdle /\ ConfigurationIdle /\ MetricsIdle
    \/ /\ topic = "retention" /\ RetentionInit
       /\ GatewayIdle /\ WebhookIdle /\ PolicyIdle /\ ConfigurationIdle /\ MetricsIdle
    \/ /\ topic = "policy" /\ PolicyInit
       /\ GatewayIdle /\ WebhookIdle /\ RetentionIdle /\ ConfigurationIdle /\ MetricsIdle
    \/ /\ topic = "configuration" /\ ConfigurationInit
       /\ GatewayIdle /\ WebhookIdle /\ RetentionIdle /\ PolicyIdle /\ MetricsIdle
    \/ /\ topic = "metrics" /\ MetricsIdle
       /\ GatewayIdle /\ WebhookIdle /\ RetentionIdle /\ PolicyIdle /\ ConfigurationIdle

Next ==
    /\ UNCHANGED topic
    /\ \/ /\ topic = "gateway" /\ GatewayNext
          /\ UNCHANGED <<webhookVars, retentionVars, policyVars, configurationVars, metricsVars>>
       \/ /\ topic = "webhook" /\ WebhookNext
          /\ UNCHANGED <<gatewayVars, retentionVars, policyVars, configurationVars, metricsVars>>
       \/ /\ topic = "webhook" /\ (Tick \/ Sweep(0))
          /\ UNCHANGED <<webhookVars, retentionVars, policyVars, configurationVars, metricsVars>>
       \/ /\ topic = "retention" /\ RetentionNext
          /\ UNCHANGED <<gatewayVars, webhookVars, policyVars, configurationVars, metricsVars>>
       \/ /\ topic = "policy" /\ PolicyNext
          /\ UNCHANGED <<gatewayVars, webhookVars, retentionVars, configurationVars, metricsVars>>
       \/ /\ topic = "configuration" /\ Load
          /\ UNCHANGED <<gatewayVars, webhookVars, retentionVars, policyVars, metricsVars>>
       \/ /\ topic = "metrics" /\ MetricsNext
          /\ UNCHANGED <<gatewayVars, webhookVars, retentionVars, policyVars, configurationVars>>

vars ==
    <<topic, gatewayVars, webhookVars, retentionVars, policyVars, configurationVars,
      metricsVars>>

Spec == Init /\ [][Next]_vars /\ GatewayFairness /\ WebhookFairness
=============================================================================
