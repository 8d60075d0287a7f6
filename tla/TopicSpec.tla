------------------------------ MODULE TopicSpec ------------------------------
(***************************************************************************)
(* The spec of a StreamlineTopic (src/crd/topic.rs) and the settings in it *)
(* that the server cannot apply (src/controllers/topic.rs).                *)
(*                                                                         *)
(* A stored spec has a value for every leaf; a leaf that is not there is   *)
(* Absent.  blocks are the nested objects that are present.                *)
(***************************************************************************)
EXTENDS UpgradeAdvice

\* The block of a leaf.
TopicParent ==
    [partitions |-> TopLevel, replicationFactor |-> TopLevel,
     retentionMs |-> "retention", retentionBytes |-> "retention",
     cleanupPolicy |-> "retention", compression |-> TopLevel,
     minInsyncReplicas |-> "config", maxMessageBytes |-> "config",
     segmentBytes |-> "config", indexIntervalBytes |-> "config",
     flushIntervalMs |-> "config", flushMessages |-> "config", custom |-> "config"]

TopicLeaves == DOMAIN TopicParent

\* The serde defaults, which the corrected CRD carries as schema defaults.
TopicDefaults ==
    [partitions |-> 3, replicationFactor |-> 1,
     retentionMs |-> -1, retentionBytes |-> -1, cleanupPolicy |-> "delete",
     compression |-> "producer",
     minInsyncReplicas |-> Absent, maxMessageBytes |-> Absent,
     segmentBytes |-> Absent, indexIntervalBytes |-> Absent,
     flushIntervalMs |-> Absent, flushMessages |-> Absent, custom |-> {}]

\* The types of the leaves, which the API server enforces with the schema.
TopicTypes ==
    [partitions |-> Int, replicationFactor |-> Int,
     retentionMs |-> Int, retentionBytes |-> Int, cleanupPolicy |-> STRING,
     compression |-> STRING,
     minInsyncReplicas |-> Int \cup {Absent}, maxMessageBytes |-> Int \cup {Absent},
     segmentBytes |-> Int \cup {Absent}, indexIntervalBytes |-> Int \cup {Absent},
     flushIntervalMs |-> Int \cup {Absent}, flushMessages |-> Int \cup {Absent},
     custom |-> SUBSET STRING]

\* TopicSpec::config_defaults
config_defaults ==
    [f \in {"retentionMs", "retentionBytes", "cleanupPolicy", "compression"} |->
        TopicDefaults[f]]

\* The settings of config are overrides: any value at all is one too many.
ConfigLeaves == {f \in TopicLeaves : TopicParent[f] = "config"} \ {"custom"}

\* unsupported_fields, on the spec as serde reads it.
unsupported_fields(s) ==
    LET reject(f, value) == Rejection(f, remediation_for_value(f, value))
    IN  When(s.replicationFactor # 1,
             Rejection("replicationFactor",
                 remediation_for("replicationFactor", s.replicationFactor = 2)))
        \cup When(s.partitions < 1, Rejection("partitions", Absent))
        \cup {reject(f, s[f]) : f \in {g \in DOMAIN config_defaults : s[g] # config_defaults[g]}}
        \cup {reject(f, s[f]) : f \in {g \in ConfigLeaves : s[g] # Absent}}
        \cup {Rejection("custom", Absent) : k \in s.custom}
==============================================================================
