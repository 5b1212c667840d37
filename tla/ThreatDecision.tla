--------------------------- MODULE ThreatDecision ---------------------------
(***************************************************************************)
(* From the features of a flow to a verdict: the default rules of the rule *)
(* engine, the blending of the two ML models, risk fusion, the threat      *)
(* classifier and DecisionEngine.decide, in the order in which the         *)
(* pipeline calls them.                                                    *)
(*                                                                         *)
(* Units.  Ratios, entropies, frequencies per second, scores and           *)
(* probabilities are in hundredths, bytes_per_sec in kB/s, other features  *)
(* as they are.  Risk, blended ML score and confidence are in              *)
(* ten-thousandths, the four places to which the code rounds them.  What   *)
(* the two models answer is external: either of the labels they are        *)
(* shipped with, with any probability, and any anomaly score.              *)
(* Addresses are told apart by the classes the classifier tests.           *)
(***************************************************************************)
EXTENDS Integers, Sequences, FiniteSets

CONSTANTS
    Judged,              \* flows to judge: features and address classes
    Probabilities,       \* what the supervised model may answer
    AnomalyScores,       \* what the anomaly model may answer
    DetectionThreshold   \* settings.detection_threshold

\* The features that are numbers.
Measures ==
    {"syn_ratio", "connection_frequency", "packets_per_sec", "bytes_per_sec",
     "dns_entropy", "unique_dst_ports", "unique_dst_ips", "outbound_inbound_ratio",
     "small_packet_ratio", "source_entropy", "udp_amp_ratio", "periodicity",
     "avg_packet_size", "fin_ratio", "dst_port_conn_freq"}

ASSUME DecisionAssumption ==
    /\ \A f \in Judged : \A name \in Measures : f[name] \in Nat
    /\ Probabilities \subseteq 0 .. 100
    /\ AnomalyScores \subseteq 0 .. 100
    /\ DetectionThreshold \in 0 .. 10000

VARIABLES
    progress,  \* how far the flow under judgement has come
    flow,
    matches,   \* RuleMatch objects, each at the place of its rule in the registry
    ml,        \* ml_assessment
    decision   \* DecisionResult

verdictVars == <<progress, flow, matches, ml, decision>>

ThreatTypes ==
    {"benign", "reconnaissance", "suspicious_traffic", "port_scan", "brute_force",
     "lateral_movement", "c2_communication", "data_exfiltration",
     "malware_communication", "dos", "ddos", "dns_tunneling"}

\* THREAT_PRIORITY.
Priority(type) ==
    CASE type = "benign" -> 0
      [] type = "reconnaissance" -> 1
      [] type = "suspicious_traffic" -> 2
      [] type \in {"port_scan", "brute_force", "lateral_movement"} -> 3
      [] type = "dns_tunneling" -> 5
      [] OTHER -> 4

Techniques ==
    {"port_scan", "brute_force", "c2_communication", "dns_tunneling",
     "lateral_movement", "dos"}

Lesser(a, b) == IF a <= b THEN a ELSE b
Greatest(S) == CHOOSE x \in S : \A y \in S : y <= x
Elements(ms) == {ms[i] : i \in DOMAIN ms}

-----------------------------------------------------------------------------
(* Rules *)

StatRule(id, field, threshold, type) ==
    [id |-> id, field |-> field, threshold |-> threshold, type |-> type]

\* default_statistical_rules with the "high" band of STATISTICAL_THRESHOLDS.
StatisticalRules == <<
    StatRule("stat_syn_ratio_high", "syn_ratio", 80, "dos"),
    StatRule("stat_conn_freq_high", "connection_frequency", 10000, "lateral_movement"),
    StatRule("stat_pps_high", "packets_per_sec", 2000, "dos"),
    StatRule("stat_bps_high", "bytes_per_sec", 2000, "data_exfiltration"),
    StatRule("stat_dns_entropy_high", "dns_entropy", 350, "dns_tunneling"),
    StatRule("stat_unique_ports_high", "unique_dst_ports", 50, "port_scan"),
    StatRule("stat_unique_ips_high", "unique_dst_ips", 30, "lateral_movement"),
    StatRule("stat_outbound_ratio_high", "outbound_inbound_ratio", 1000, "data_exfiltration"),
    StatRule("stat_small_packet_high", "small_packet_ratio", 80, "reconnaissance"),
    StatRule("stat_source_entropy_high", "source_entropy", 250, "ddos"),
    StatRule("stat_udp_amp_high", "udp_amp_ratio", 85, "ddos") >>

\* StatisticalRule._score for the operator gte, the only one in use: positive from
\* half the threshold on, where it is less than a hundredth.
StatisticalScore(actual, threshold) ==
    LET score == 50 + ((actual - threshold) * 100) \div threshold
    IN IF score = 0 /\ 2 * actual > threshold THEN 1 ELSE Lesser(100, score)

PeriodicPattern(f) ==
    IF f.periodicity > 70 THEN Lesser(100, 40 + f.periodicity \div 2) ELSE 0

SynFloodPattern(f) == IF f.syn_ratio > 90 THEN 90 ELSE 0

UdpFloodPattern(f) ==
    IF f.protocol # "udp" \/ f.avg_packet_size > 1400 THEN 0
    ELSE IF f.connection_frequency >= 200 /\ f.packets_per_sec >= 8
    THEN Lesser(100, 55 + f.connection_frequency \div 20)
    ELSE IF f.packets_per_sec >= 40 THEN Lesser(100, 55 + f.packets_per_sec \div 2)
    ELSE 0

Slowloris(f) ==
    IF /\ f.protocol = "tcp"
       /\ f.dst_port \in {80, 443, 8080}
       /\ f.connection_frequency >= 150
       /\ f.fin_ratio <= 5
       /\ f.avg_packet_size \in 1 .. 499
    THEN Lesser(100, 50 + f.connection_frequency \div 10)
    ELSE 0

PortSweep(f) ==
    CASE f.unique_dst_ports >= 10 -> 75
      [] f.unique_dst_ports \in 5 .. 9 /\ f.connection_frequency >= 100 -> 50
      [] OTHER -> 0

SmallPacketsManyConnections(f) ==
    IF f.small_packet_ratio > 60 /\ f.unique_dst_ips >= 5 THEN 65 ELSE 0

BruteForce(f) ==
    IF f.dst_port \in {22, 23, 3389, 445, 5985, 5900} /\ f.dst_port_conn_freq >= 50
    THEN 80 ELSE 0

LateralBeacon(f) ==
    IF f.outbound_inbound_ratio \in 1 .. 29 /\ f.connection_frequency > 200
    THEN 60 ELSE 0

TlsJa3Blocklist(f) == IF f.tls_ja3_listed THEN 95 ELSE 0

RuleMatch(id, category, type, score) ==
    [id |-> id, category |-> category, type |-> type, score |-> score]

\* default_behavioral_rules, evaluated on features f.
BehavioralMatches(f) == <<
    RuleMatch("behav_periodic_conn", "behavioral", "c2_communication", PeriodicPattern(f)),
    RuleMatch("behav_syn_flood", "behavioral", "ddos", SynFloodPattern(f)),
    RuleMatch("behav_udp_flood", "behavioral", "ddos", UdpFloodPattern(f)),
    RuleMatch("behav_slowloris", "behavioral", "dos", Slowloris(f)),
    RuleMatch("behav_port_sweep", "behavioral", "port_scan", PortSweep(f)),
    RuleMatch("behav_small_pkt_many_conn", "behavioral", "reconnaissance",
          SmallPacketsManyConnections(f)),
    RuleMatch("behav_brute_force", "behavioral", "brute_force", BruteForce(f)),
    RuleMatch("behav_lateral_move", "behavioral", "lateral_movement", LateralBeacon(f)),
    RuleMatch("behav_tls_ja3_blocklist", "behavioral", "malware_communication",
          TlsJa3Blocklist(f)) >>

StatisticalMatches(f) ==
    [i \in DOMAIN StatisticalRules |->
        LET rule == StatisticalRules[i]
        IN RuleMatch(rule.id, "statistical", rule.type,
                 StatisticalScore(f[rule.field], rule.threshold))]

\* RuleEngine.evaluate: what scores above zero, in registry order.
RuleMatches(f) ==
    LET all == StatisticalMatches(f) \o BehavioralMatches(f)
    IN  [i \in {j \in DOMAIN all : all[j].score > 0} |-> all[i]]

\* RuleEngine.result_assessment: the categories that matched and their scores.
Categories(ms) == {m.category : m \in Elements(ms)}
SourceScore(ms, c) == Greatest({m.score : m \in {x \in Elements(ms) : x.category = c}})

-----------------------------------------------------------------------------
(* ML, fusion, severity *)

\* MLInferenceEngine.run: trust a confident model, else shift by the anomaly.
Blended(probability, anomaly) ==
    IF probability <= 20 \/ probability >= 80 \/ anomaly <= 50
    THEN 100 * probability
    ELSE Lesser(10000, 100 * probability + 15 * (anomaly - 50))

\* The labels of class_names.json.  Where no rule matches, the fallback of the
\* supervised model answers benign as well.
ClassNames == {"benign", "threat"}

MLResult(label, probability, anomaly) ==
    [label |-> label, probability |-> probability, anomaly |-> anomaly,
     isAnomaly |-> anomaly > 50, blended |-> Blended(probability, anomaly)]

MLResults ==
    {MLResult(c, p, a) : c \in ClassNames, p \in Probabilities, a \in AnomalyScores}

\* What is left of the assessment when inference fails or is skipped.
NoML == [label |-> "benign", probability |-> 0, anomaly |-> 0,
         isAnomaly |-> FALSE, blended |-> 0]

\* pipeline.process: a strong technique match skips inference.
FastPath(ms) ==
    \E m \in Elements(ms) : m.score >= 70 /\ m.type # "suspicious_traffic"

Weight(c) == CASE c = "signature" -> 30 [] c = "ml_blended" -> 20 [] OTHER -> 25

SumOver(C, f) ==
    (IF "signature" \in C THEN f["signature"] ELSE 0)
    + (IF "statistical" \in C THEN f["statistical"] ELSE 0)
    + (IF "behavioral" \in C THEN f["behavioral"] ELSE 0)

\* RiskFusion.fuse: the mean of what is present, weighted; the ML score always is.
Fuse(ms, result) ==
    LET present == Categories(ms)
        weighted == [c \in present |-> 100 * SourceScore(ms, c) * Weight(c)]
        risk == SumOver(present, weighted) + result.blended * Weight("ml_blended")
        total == SumOver(present, [c \in present |-> Weight(c)]) + Weight("ml_blended")
    IN Lesser(10000, (2 * risk + total) \div (2 * total))

\* Mutant: the alert threshold is used in place of one half.
DetectionSourcesStrict(ms, result) ==
    Categories(ms)
    \cup {s \in {"supervised_ml"} : 100 * result.probability > DetectionThreshold}
    \cup {s \in {"anomaly_detection"} : result.isAnomaly}

\* DecisionEngine._detection_sources.
DetectionSources(ms, result) ==
    Categories(ms)
    \cup {s \in {"supervised_ml"} : result.probability > 50}
    \cup {s \in {"anomaly_detection"} : result.isAnomaly}

\* ConfidenceEstimator.estimate.
Confidence(ms, result, sourceCount) ==
    LET strength == [c \in Categories(ms) |->
            SourceScore(ms, c) * (IF c = "signature" THEN 30 ELSE 20)]
        evidence == SumOver(Categories(ms), strength) + (result.blended * 30) \div 100
    IN Lesser(10000, (evidence * 6) \div 10
                     + (2000 * Lesser(sourceCount, 3)) \div 3
                     + 250 * Lesser(Cardinality(DOMAIN ms), 4)
                     + (IF result.isAnomaly THEN 1000 ELSE 0))

\* SeverityClassifier.classify.
Severity(risk, confidence) ==
    LET effective == (risk * (7000 + (3 * confidence) \div 10)) \div 10000
    IN IF effective >= 9500 THEN "critical"
       ELSE IF effective >= 8000 THEN "high"
       ELSE IF effective >= 6000 THEN "medium"
       ELSE IF effective >= 4000 THEN "low"
       ELSE "info"

-----------------------------------------------------------------------------
(* ThreatClassifier *)

\* The first place with the greatest key, as Python's max finds it.
FirstMax(key) ==
    CHOOSE i \in DOMAIN key : \A j \in DOMAIN key :
        key[j] < key[i] \/ (key[j] = key[i] /\ i <= j)

Specific(ms) ==
    [i \in {j \in DOMAIN ms : ms[j].type # "suspicious_traffic"} |-> ms[i]]

\* The specific match that wins: by score, and among equals by priority.
Best(specific) ==
    specific[FirstMax([i \in DOMAIN specific |->
                          10 * specific[i].score + Priority(specific[i].type)])]

Scores(ms, types) == {m.score : m \in {x \in Elements(ms) : x.type \in types}}

IsScan(ms) ==
    LET ports == Scores(ms, {"port_scan"})
        stronger == Scores(ms, Techniques \ {"port_scan"})
    IN ports # {} /\ (stronger = {} \/ Greatest(ports) >= Greatest(stronger))

\* Only source spread speaks for a ddos, and a slowloris rule matched as well.
IsSlowlorisSpread(ms) ==
    /\ \E m \in Elements(ms) : m.id = "behav_slowloris"
    /\ \A m \in Elements(ms) :
         m.type = "ddos" => m.id \notin {"behav_syn_flood", "stat_udp_amp_high"}

\* _refine_label.
RefineLabel(winner, ms) ==
    IF IsScan(ms) THEN "port_scan"
    ELSE IF /\ Scores(ms, {"c2_communication"}) # {}
            /\ winner \in {"data_exfiltration", "malware_communication", "dos", "ddos"}
    THEN "c2_communication"
    ELSE IF /\ Scores(ms, {"dns_tunneling"}) # {}
            /\ winner \in {"data_exfiltration", "malware_communication"}
    THEN "dns_tunneling"
    ELSE IF winner = "ddos" /\ IsSlowlorisSpread(ms) THEN "dos"
    ELSE winner

\* Broadcast or multicast destination, or a source without an address.
IsNoise(f) == f.dst = "multicast" \/ f.src = "unspecified"
IsInternal(f) == f.src = "private" /\ f.dst = "private"

VolumeRules == {"stat_pps_high", "stat_bps_high"}

\* Mutant: the segment is only looked at for floods.
VetLabelFloodsOnly(winner, ms, f) ==
    LET dosRules == {m.id : m \in {x \in Elements(ms) : x.type = "dos"}}
    IN IF IsNoise(f) THEN "benign"
       ELSE IF /\ IsInternal(f) /\ winner = "dos"
               /\ dosRules # {} /\ dosRules \subseteq VolumeRules
       THEN "suspicious_traffic"
       ELSE winner

\* _drop_link_local_noise, then _demote_internal_segment.
VetLabel(winner, ms, f) ==
    LET dosRules == {m.id : m \in {x \in Elements(ms) : x.type = "dos"}}
    IN IF IsNoise(f) THEN "benign"
       ELSE IF /\ IsInternal(f)
               /\ \/ winner = "data_exfiltration"
                  \/ /\ winner = "dos"
                     /\ dosRules # {} /\ dosRules \subseteq VolumeRules
       THEN "suspicious_traffic"
       ELSE winner

\* A place after those of all rules.
ModelPlace == 100

\* The label without a specific rule: the best of the rules, the supervised model
\* and the anomaly, in this order.  "threat" is no ThreatType: it counts as
\* suspicious, and only from one half on.
GenericLabel(ms, result) ==
    LET modelCounts == result.label = "benign" \/ result.probability >= 50
        places == DOMAIN ms \cup (IF modelCounts THEN {ModelPlace} ELSE {})
                    \cup (IF result.anomaly > 60 THEN {ModelPlace + 1} ELSE {})
        supervised ==
            [type |-> IF result.label = "benign" THEN "benign" ELSE "suspicious_traffic",
             score |-> result.probability]
        anomaly == [type |-> "suspicious_traffic", score |-> result.anomaly]
        candidates ==
            [i \in places |->
                IF i = ModelPlace THEN supervised
                ELSE IF i = ModelPlace + 1 THEN anomaly
                ELSE [type |-> ms[i].type, score |-> ms[i].score]]
    IN  IF places = {} THEN "suspicious_traffic"
        ELSE candidates[FirstMax([i \in places |-> candidates[i].score])].type

\* Mutant: low risk is benign before the specific rules are looked at.
ClassifyLowRiskFirst(risk, ms, result, f) ==
    LET specific == Specific(ms)
    IN IF risk < 4000 THEN "benign"
       ELSE VetLabel(IF specific # <<>> THEN RefineLabel(Best(specific).type, specific)
                     ELSE GenericLabel(ms, result), specific, f)

\* ThreatClassifier.classify; a generic flow of low risk returns at once.
Classify(risk, ms, result, f) ==
    LET specific == Specific(ms)
    IN IF specific # <<>>
       THEN VetLabel(RefineLabel(Best(specific).type, specific), specific, f)
       ELSE IF risk < 4000 THEN "benign"
       ELSE VetLabel(GenericLabel(ms, result), specific, f)

-----------------------------------------------------------------------------
(* DecisionEngine *)

\* Mutant: the floor is the rule's score alone, not the alert threshold.
FloorToScore(risk, type, ms) ==
    LET scores == {100 * m.score : m \in Elements(Specific(ms))}
    IN IF scores # {} /\ type \notin {"benign", "suspicious_traffic"}
       THEN Greatest(scores \cup {risk})
       ELSE risk

\* A matched technique lifts the risk to its score and the alert threshold.
Floor(risk, type, ms) ==
    LET scores == {100 * m.score : m \in Elements(Specific(ms))}
    IN IF scores # {} /\ type \notin {"benign", "suspicious_traffic"}
       THEN Greatest(scores \cup {risk, DetectionThreshold})
       ELSE risk

Judge(f, ms, result) ==
    LET fused == Fuse(ms, result)
        type == Classify(fused, ms, result, f)
        risk == Floor(fused, type, ms)
        sources == DetectionSources(ms, result)
        confidence == Confidence(ms, result, Cardinality(sources))
    IN [type |-> type, risk |-> risk, confidence |-> confidence,
        severity |-> Severity(risk, confidence),
        isThreat |-> risk >= DetectionThreshold /\ type # "benign",
        sources |-> sources]

Undecided ==
    [type |-> "benign", risk |-> 0, confidence |-> 0, severity |-> "info",
     isThreat |-> FALSE, sources |-> {}]

-----------------------------------------------------------------------------
VerdictInit ==
    /\ progress = "extracted"
    /\ flow \in Judged
    /\ matches = <<>>
    /\ ml = NoML
    /\ decision = Undecided

EvaluateRules ==
    /\ progress = "extracted"
    /\ progress' = "rules"
    /\ matches' = RuleMatches(flow)
    /\ UNCHANGED <<flow, ml, decision>>

SkipML ==
    /\ progress = "rules"
    /\ FastPath(matches)
    /\ progress' = "ml"
    /\ ml' = NoML
    /\ UNCHANGED <<flow, matches, decision>>

\* Inference answers, or fails and is caught.
RunML ==
    /\ progress = "rules"
    /\ ~FastPath(matches)
    /\ progress' = "ml"
    /\ ml' \in MLResults \cup {NoML}
    /\ UNCHANGED <<flow, matches, decision>>

ReachVerdict ==
    /\ progress = "ml"
    /\ progress' = "decided"
    /\ decision' = Judge(flow, matches, ml)
    /\ UNCHANGED <<flow, matches, ml>>

VerdictNext == EvaluateRules \/ SkipML \/ RunML \/ ReachVerdict

VerdictSpec == VerdictInit /\ [][VerdictNext]_verdictVars

-----------------------------------------------------------------------------
(* Properties *)

Decided == progress = "decided"
TechniqueMatches == {m \in Elements(matches) : m.type \in Techniques}

\* Risks and confidences are computed in ten-thousandths.
Risks == 0 .. 10000

\* What the stages hand on; every score the rules and the fusion compute is a
\* score, and the verdict is one of the known labels.
VerdictTypeOK ==
    /\ progress \in {"extracted", "rules", "ml", "decided"}
    /\ \A m \in Elements(matches) : m.type \in ThreatTypes /\ m.score \in 1 .. 100
    /\ ml \in MLResults \cup {NoML}
    /\ decision.type \in ThreatTypes
    /\ decision.risk \in Risks /\ decision.confidence \in Risks

\* DecisionEngine.decide: a technique that matched its rule always surfaces, at
\* least as strong as the rule.  Fusion may dilute it, the label may be refined;
\* the floor makes up for both on every flow that crosses the segment's border.
BorderTechniquesSurface ==
    (Decided /\ ~IsNoise(flow) /\ ~IsInternal(flow)) =>
        \A m \in Elements(Specific(matches)) :
            decision.isThreat /\ decision.risk >= 100 * m.score

\* The same claim for every flow that is not link-local noise, as the comments in
\* decide and _demote_internal_segment make it: a rule for a discrete technique
\* that fires, and not merely stirs below its threshold, wins over bulk volume.
TechniquesSurface ==
    (Decided /\ ~IsNoise(flow)) =>
        \A m \in TechniqueMatches :
            (m.score >= 50 /\ m.id \notin VolumeRules) => decision.isThreat

\* Link-local noise is never a threat, whatever rules it trips.  Traffic inside
\* the segment never reads as exfiltration, and as a flood only on more than its
\* rate.
SegmentTrafficSpared ==
    Decided =>
        /\ IsNoise(flow) => ~decision.isThreat
        /\ IsInternal(flow) =>
             /\ decision.type # "data_exfiltration"
             /\ decision.type = "dos" =>
                  \E m \in TechniqueMatches : m.type = "dos" /\ m.id \notin VolumeRules

\* No risk out of nothing: neither fusion nor the floor reports more than the models
\* or some matched rule gave, except that a technique is lifted to the alert threshold.
RiskIsEarned ==
    Decided =>
        \/ decision.risk <= ml.blended
        \/ \E m \in Elements(matches) : decision.risk <= 100 * m.score
        \/ /\ decision.risk = DetectionThreshold
           /\ matches # <<>> /\ decision.type \notin {"benign", "suspicious_traffic"}

\* Every threat names at least one source and carries a severity above info.
\* Blending, detection sources, alert threshold and severity bands are set in
\* four files and have to fit.
ThreatIsExplained ==
    (Decided /\ decision.isThreat) =>
        decision.sources # {} /\ decision.severity # "info"

\* Skipping the models does not change the verdict on a flow that crosses the
\* border: label and alert are what any answer of the models would have given.
FastPathAgrees ==
    (progress = "ml" /\ FastPath(matches) /\ ~IsInternal(flow)) =>
        \A r \in MLResults :
            LET skipped == Judge(flow, matches, ml)
                full == Judge(flow, matches, r)
            IN skipped.type = full.type /\ skipped.isThreat = full.isThreat
=============================================================================
