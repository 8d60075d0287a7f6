---------------------------- MODULE MCSpecUpgrade ----------------------------
(***************************************************************************)
(* An instance of SpecUpgrade for TLC: for every leaf, values that are     *)
(* accepted, rejected and, where there is one, the v0.3.0 default.         *)
(***************************************************************************)
EXTENDS SpecUpgrade

Secret   == KeyRef("secret", "credentials", "password")
FromFile == KeyRef("configMap", "settings", "level")

TlsBlock(enabled, secret, mtls, ca, insecure) ==
    [enabled |-> enabled, secretName |-> secret, mtlsEnabled |-> mtls,
     caSecretName |-> ca, insecureSkipVerify |-> insecure]

SomeClusterEdits ==
    [replicas |-> {Absent, 0, 1, 3, 5},
     podAntiAffinity |-> {Absent, TRUE, FALSE},
     image |-> {"streamline:0.4.1"},
     imagePullPolicy |-> {"Always"},
     kafkaPort |-> {9094, 70000}, httpPort |-> {8080}, raftPort |-> {9092},
     env |-> {<<LiteralEnv("A", "")>>, <<LiteralEnv("", "x")>>, <<LiteralEnv("A", Absent)>>,
              <<SourceEnv("A", {Secret}), SourceEnv("B", {FromFile})>>,
              <<LiteralEnv("B", ""), LiteralEnv("STREAMLINE_HTTP_ADDR", "0.0.0.0:9999")>>,
              <<SourceEnv("A", {})>>, <<SourceEnv("A", {Secret, FromFile})>>,
              <<SourceEnv("A", {KeyRef("secret", "credentials", "")})>>},
     tls |-> {TlsBlock(TRUE, "keys", FALSE, Absent, FALSE), TlsBlock(TRUE, "", FALSE, Absent, FALSE),
              TlsBlock(TRUE, "keys", TRUE, "ca", FALSE), TlsBlock(TRUE, "keys", TRUE, "", FALSE),
              TlsBlock(TRUE, "keys", TRUE, Absent, FALSE), TlsBlock(FALSE, "keys", TRUE, Absent, FALSE),
              TlsBlock(TRUE, "keys", FALSE, "ca", FALSE), TlsBlock(FALSE, "", FALSE, Absent, TRUE),
              TlsBlock(TRUE, "keys", FALSE, Absent, TRUE)},
     tolerations |-> {1}, rackAwareness |-> {TRUE},
     autoscaling |-> {AutoScalingSpec, [AutoScalingSpec EXCEPT !.enabled = TRUE]},
     updateStrategy |-> {[type |-> "OnDelete", maxUnavailable |-> 1],
                         [type |-> "RollingUpdate", maxUnavailable |-> Absent],
                         [type |-> "Recreate", maxUnavailable |-> 1]},
     storage |-> {[ClusterDefaults.storage EXCEPT !.size = "20Gi"]},
     resources |-> {[ClusterDefaults.resources EXCEPT !.limits.cpu = "2"]},
     nodeSelector |-> {{<<"disk", "ssd">>}},
     serviceAccountName |-> {"broker"}, logLevel |-> {"debug"}, metricsEnabled |-> {FALSE}]

EditBounds == [cluster |-> 1, topic |-> 2]

SomeTopicEdits ==
    [partitions |-> {0, 6}, replicationFactor |-> {Absent, 3},
     retentionMs |-> {3600000, 604800000}, cleanupPolicy |-> {"compact"},
     minInsyncReplicas |-> {Absent, 2}, maxMessageBytes |-> {1048576}, custom |-> {{"k"}}]
==============================================================================
