----------------------------- MODULE ClusterSpec -----------------------------
(***************************************************************************)
(* The spec of a StreamlineCluster, its defaults and its validation        *)
(* (src/crd/cluster.rs).  A blank string is "".                            *)
(***************************************************************************)
EXTENDS UpgradeAdvice, Sequences, FiniteSets

\* EnvVar: a name with a literal value, or with the set of the references that
\* its valueFrom block declares.
LiteralEnv(name, value) == [name |-> name, value |-> value, valueFrom |-> Absent]
SourceEnv(name, refs)   == [name |-> name, value |-> Absent, valueFrom |-> refs]
KeyRef(kind, name, key) == [kind |-> kind, name |-> name, key |-> key]

\* The serde defaults, which both CRDs carry apart from those in upgrade.rs.
ClusterDefaults ==
    [replicas |-> 1, image |-> "streamline:0.4.0", imagePullPolicy |-> "IfNotPresent",
     resources |-> [limits |-> [cpu |-> Absent, memory |-> Absent],
                    requests |-> [cpu |-> Absent, memory |-> Absent]],
     storage |-> [storageClassName |-> Absent, size |-> "10Gi",
                  accessModes |-> <<"ReadWriteOnce">>],
     tls |-> Absent, kafkaPort |-> 9092, httpPort |-> 9094, raftPort |-> 9095,
     env |-> <<>>, nodeSelector |-> {}, tolerations |-> 0,
     podAntiAffinity |-> FALSE, rackAwareness |-> FALSE,
     serviceAccountName |-> Absent, logLevel |-> "info", metricsEnabled |-> TRUE,
     updateStrategy |-> [type |-> "RollingUpdate", maxUnavailable |-> 1],
     autoscaling |-> Absent]

ClusterLeaves == DOMAIN ClusterDefaults

\* The types of the leaves, which the API server enforces with the schema.
Optional(type) == type \cup {Absent}

References == [kind : STRING, name : STRING, key : STRING]

EnvVar == [name : STRING, value : Optional(STRING),
           valueFrom : Optional({refs \in SUBSET References : IsFiniteSet(refs)})]

Quantities == [cpu : Optional(STRING), memory : Optional(STRING)]

ClusterTls == [enabled : BOOLEAN, secretName : STRING, mtlsEnabled : BOOLEAN,
               caSecretName : Optional(STRING), insecureSkipVerify : BOOLEAN]

AutoScaling == [enabled : BOOLEAN, minReplicas : Int, maxReplicas : Int,
                targetCpuUtilization : Int, targetMemoryUtilization : Int,
                partitionAware : BOOLEAN, targetLagPerPartition : Int,
                targetMessagesPerSecond : Int]

ClusterTypes ==
    [replicas |-> Int, image |-> STRING, imagePullPolicy |-> STRING,
     resources |-> [limits : Quantities, requests : Quantities],
     storage |-> [storageClassName : Optional(STRING), size : STRING,
                  accessModes : Seq(STRING)],
     tls |-> Optional(ClusterTls), kafkaPort |-> Int, httpPort |-> Int, raftPort |-> Int,
     env |-> Seq(EnvVar), nodeSelector |-> SUBSET (STRING \X STRING), tolerations |-> Nat,
     podAntiAffinity |-> BOOLEAN, rackAwareness |-> BOOLEAN,
     serviceAccountName |-> Optional(STRING), logLevel |-> STRING, metricsEnabled |-> BOOLEAN,
     updateStrategy |-> [type : STRING, maxUnavailable : Optional(Int)],
     autoscaling |-> Optional(AutoScaling)]

\* AutoScalingSpec with its defaults.
AutoScalingSpec ==
    [enabled |-> FALSE, minReplicas |-> 1, maxReplicas |-> 10,
     targetCpuUtilization |-> 70, targetMemoryUtilization |-> 80,
     partitionAware |-> FALSE, targetLagPerPartition |-> 10000,
     targetMessagesPerSecond |-> 100000]

\* A reference whose name or key is blank resolves to nothing.
incomplete_ref(ref) == ref.name = "" \/ ref.key = ""

Unresolved == [kind |-> "error"]
Literal    == [kind |-> "literal"]

\* Mutant of resolve_source: one of several references is taken.
resolve_source_any(e) ==
    CASE e.name # "" /\ e.value # Absent /\ e.valueFrom = Absent -> Literal
      [] e.name # "" /\ e.value = Absent /\ e.valueFrom \notin {Absent, {}} ->
            CHOOSE ref \in e.valueFrom : TRUE
      [] OTHER -> Unresolved

\* EnvVar::resolve_source: what an entry renders to, for validation and
\* rendering alike.
resolve_source(e) ==
    CASE e.name # "" /\ e.value # Absent /\ e.valueFrom = Absent -> Literal
      [] /\ e.name # "" /\ e.value = Absent /\ e.valueFrom # Absent
         /\ Cardinality(e.valueFrom) = 1
         /\ \A ref \in e.valueFrom : ~incomplete_ref(ref) ->
            CHOOSE ref \in e.valueFrom : TRUE
      [] OTHER -> Unresolved

Ports(s) == <<s.kafkaPort, s.httpPort, s.raftPort>>

\* An autoscaling block is looked at only when it is enabled.
autoscaling_errors(a) ==
    IF a = Absent \/ ~a.enabled THEN {}
    ELSE {"autoscaling.enabled"}
         \cup When(a.minReplicas < 1, "autoscaling.minReplicas")
         \cup When(a.maxReplicas < a.minReplicas, "autoscaling.maxReplicas")
         \cup When(a.targetCpuUtilization \notin 1..100, "autoscaling.targetCpuUtilization")

\* A CA Secret has to be given, but its name may be blank.
tls_errors(t) ==
    IF t = Absent THEN {}
    ELSE IF ~t.enabled THEN When(t.mtlsEnabled, "tls.mtlsEnabled")
    ELSE When(t.secretName = "", "tls.secretName")
         \cup When(t.mtlsEnabled /\ t.caSecretName = Absent, "tls.caSecretName")
         \cup When(t.insecureSkipVerify, "tls.insecureSkipVerify")

port_errors(s) ==
    {f \in {"kafkaPort", "httpPort", "raftPort"} : s[f] \notin 1..65535}
    \cup When(\E i, j \in 1..3 : i # j /\ Ports(s)[i] = Ports(s)[j], "ports")

\* Mutant of plain_errors: scheduling settings are let through.
plain_errors_lenient(s) ==
    When(s.replicas < 1, "replicas")
    \cup port_errors(s)
    \cup When(\E i \in DOMAIN s.env : resolve_source(s.env[i]) = Unresolved, "env")
    \cup autoscaling_errors(s.autoscaling)
    \cup tls_errors(s.tls)

\* The errors that come without advice.
plain_errors(s) ==
    When(s.replicas < 1, "replicas")
    \cup port_errors(s)
    \cup When(\E i \in DOMAIN s.env : resolve_source(s.env[i]) = Unresolved, "env")
    \cup When(s.rackAwareness, "rackAwareness.enabled")
    \cup When(s.tolerations > 0, "tolerations")
    \cup autoscaling_errors(s.autoscaling)
    \cup tls_errors(s.tls)

\* ClusterSpec::validate: the errors, none for an accepted spec.
validate(s) ==
    When(s.replicas > 1,
         Rejection("replicas", remediation_for("replicas", s.replicas = 3)))
    \cup When(s.podAntiAffinity,
              Rejection("podAntiAffinity", remediation_for("podAntiAffinity", TRUE)))
    \cup {Rejection(f, Absent) : f \in plain_errors(s)}
==============================================================================
