-------------------------- MODULE MCThreatDecision --------------------------
(* Flows with up to two symptoms at once, on both sides of the thresholds  *)
(* of every rule, between every kind of address.                             *)
EXTENDS ThreatDecision, TLC

Quiet ==
    [syn_ratio |-> 10, connection_frequency |-> 2, packets_per_sec |-> 5,
     bytes_per_sec |-> 2, dns_entropy |-> 0, unique_dst_ports |-> 1,
     unique_dst_ips |-> 1, outbound_inbound_ratio |-> 0, small_packet_ratio |-> 10,
     source_entropy |-> 0, udp_amp_ratio |-> 0, periodicity |-> 10,
     protocol |-> "tcp", avg_packet_size |-> 300, dst_port |-> 443,
     fin_ratio |-> 0, dst_port_conn_freq |-> 2, tls_ja3_listed |-> FALSE,
     src |-> "private", dst |-> "public"]

SshLogin == [protocol |-> "tcp", dst_port |-> 22, dst_port_conn_freq |-> 80]
UdpDatagrams == [protocol |-> "udp", dst_port |-> 53]
DnsQuery(entropy) == UdpDatagrams @@ [dns_entropy |-> entropy]
BigDatagrams == UdpDatagrams @@ [avg_packet_size |-> 1300, udp_amp_ratio |-> 92]

Symptoms ==
    {[syn_ratio |-> 60], [syn_ratio |-> 95],
     [connection_frequency |-> 150], [connection_frequency |-> 300],
     [connection_frequency |-> 10000],
     [packets_per_sec |-> 1001], [packets_per_sec |-> 4000],
     [bytes_per_sec |-> 1100], [bytes_per_sec |-> 4000],
     DnsQuery(200), DnsQuery(400),
     [unique_dst_ports |-> 6], [unique_dst_ports |-> 60],
     [unique_dst_ips |-> 20], [unique_dst_ips |-> 40],
     [outbound_inbound_ratio |-> 20], [outbound_inbound_ratio |-> 1500],
     [small_packet_ratio |-> 70],
     [source_entropy |-> 300], BigDatagrams,
     [periodicity |-> 90], [tls_ja3_listed |-> TRUE],
     SshLogin, UdpDatagrams}

Places ==
    {[src |-> "private", dst |-> "public"], [src |-> "private", dst |-> "private"],
     [src |-> "public", dst |-> "private"], [src |-> "unspecified", dst |-> "private"],
     [src |-> "private", dst |-> "multicast"]}

\* What the extractor can produce: DNS entropy of queries, fingerprints of TLS.
Extracted(f) ==
    /\ f.dns_entropy > 0 \/ f.udp_amp_ratio > 0 => f.protocol = "udp"
    /\ f.dns_entropy > 0 => f.dst_port = 53
    /\ f.tls_ja3_listed => f.protocol = "tcp" /\ f.dst_port = 443

MCJudged ==
    {f \in {place @@ a @@ b @@ Quiet :
              place \in Places, a, b \in Symptoms \cup {Quiet}} : Extracted(f)}
MCProbabilities == {0, 45, 55, 60, 90}
MCAnomalyScores == {40, 55, 95}
=============================================================================
