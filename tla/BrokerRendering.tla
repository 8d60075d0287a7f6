--------------------------- MODULE BrokerRendering ---------------------------
(***************************************************************************)
(* The objects that the cluster controller renders from an accepted spec   *)
(* (src/controllers/cluster.rs): configuration file, Services and          *)
(* StatefulSet.  The name of the cluster is fixed.  A path is the sequence *)
(* of its components.                                                      *)
(***************************************************************************)
EXTENDS ClusterSpec, SequencesExt

DataPath          == <<"data">>
CONFIG_MOUNT_PATH == <<"etc", "streamline">>
CONFIG_FILE_PATH  == <<"etc", "streamline", "streamline.toml">>
TLS_CA_MOUNT_PATH == <<"etc", "streamline-tls-ca">>

\* Mutant of TLS_MOUNT_PATH: below the mount of the configuration.
TLS_MOUNT_PATH_nested == <<"etc", "streamline", "tls">>
TLS_MOUNT_PATH        == <<"etc", "streamline-tls">>

Tls(s)  == s.tls # Absent /\ s.tls.enabled
Mtls(s) == Tls(s) /\ s.tls.mtlsEnabled

\* The [tls] section names files in the mounts of the Secrets.
tls_files(s) ==
    {Append(TLS_MOUNT_PATH, f) : f \in IF Tls(s) THEN {"tls.crt", "tls.key"} ELSE {}}
    \cup {Append(TLS_CA_MOUNT_PATH, f) : f \in IF Mtls(s) THEN {"ca.crt"} ELSE {}}

\* Mutant of render_config: the ports are swapped.
render_config_swapped(s) ==
    [listen_addr |-> s.httpPort, http_addr |-> s.kafkaPort, data_dir |-> DataPath,
     log_level |-> s.logLevel, tls_files |-> tls_files(s)]

render_config(s) ==
    [listen_addr |-> s.kafkaPort, http_addr |-> s.httpPort, data_dir |-> DataPath,
     log_level |-> s.logLevel, tls_files |-> tls_files(s)]

\* The ConfigMap, and the two Services with the ports they publish.
build_configmap(s) == [name |-> "config", files |-> {Last(CONFIG_FILE_PATH)},
                       content |-> render_config(s)]
headless_service(s) == [name |-> "headless", selector |-> {"name", "instance"},
                        kafka |-> s.kafkaPort, http |-> s.httpPort, raft |-> s.raftPort]
client_service(s)   == [name |-> "client", selector |-> {"name", "instance"},
                        kafka |-> s.kafkaPort, http |-> s.httpPort]

\* Labels carry managed-by as well, which nothing selects on.
common_labels == {"name", "instance", "managed-by"}
pod_selector  == {"name", "instance"}

\* What the operator sets, followed by what the user sets.  Entries that do
\* not resolve are dropped; validate has rejected them before.
operator_env(s) ==
    << LiteralEnv("STREAMLINE_CONFIG", CONFIG_FILE_PATH),
       LiteralEnv("STREAMLINE_DATA_DIR", DataPath),
       LiteralEnv("STREAMLINE_LISTEN_ADDR", s.kafkaPort),
       LiteralEnv("STREAMLINE_HTTP_ADDR", s.httpPort),
       LiteralEnv("STREAMLINE_LOG_LEVEL", s.logLevel),
       SourceEnv("POD_NAME", {KeyRef("field", "metadata", "name")}),
       SourceEnv("POD_NAMESPACE", {KeyRef("field", "metadata", "namespace")}) >>

build_env_var_source(ref) == {ref}

render_env(e) ==
    IF resolve_source(e) = Literal THEN LiteralEnv(e.name, e.value)
    ELSE SourceEnv(e.name, build_env_var_source(resolve_source(e)))

user_env(s) ==
    LET rendered[n \in 0..Len(s.env)] ==
            IF n = 0 THEN <<>>
            ELSE IF resolve_source(s.env[n]) = Unresolved THEN rendered[n - 1]
            ELSE Append(rendered[n - 1], render_env(s.env[n]))
    IN  rendered[Len(s.env)]

\* build_config_and_tls_volumes: every volume with the path it is mounted at.
Volume(name, path, source) == [name |-> name, path |-> path, source |-> source]

build_volumes(s) ==
    LET keys == Tls(s) /\ s.tls.secretName # ""
        ca   == keys /\ Mtls(s) /\ s.tls.caSecretName # Absent
    IN  {Volume("config", CONFIG_MOUNT_PATH, "config")}
        \cup (IF keys THEN {Volume("tls", TLS_MOUNT_PATH, s.tls.secretName)} ELSE {})
        \cup (IF ca THEN {Volume("tls-ca", TLS_CA_MOUNT_PATH, s.tls.caSecretName)} ELSE {})

\* build_resource_requirements: a block without entries is left out (a block
\* that may be, is a set of at most one block).
NonEmpty(block) == {block} \ {{}}

quantities(list) ==
    NonEmpty({<<k, list[k]>> : k \in {i \in {"cpu", "memory"} : list[i] # Absent}})

build_resources(r) ==
    [limits |-> quantities(r.limits), requests |-> quantities(r.requests)]

build_volume_claim_templates(storage) ==
    [name |-> "data", accessModes |-> storage.accessModes,
     storageClassName |-> storage.storageClassName, size |-> storage.size]

\* Anything but OnDelete is a rolling update.
build_update_strategy(u) ==
    IF u.type = "OnDelete" THEN [type |-> "OnDelete", maxUnavailable |-> Absent]
    ELSE [type |-> "RollingUpdate", maxUnavailable |-> u.maxUnavailable]

build_container(s) ==
    [image |-> s.image, imagePullPolicy |-> s.imagePullPolicy,
     kafka |-> s.kafkaPort, http |-> s.httpPort, raft |-> s.raftPort,
     env |-> operator_env(s) \o user_env(s),
     resources |-> build_resources(s.resources),
     mounts |-> {Volume("data", DataPath, "data")} \cup build_volumes(s),
     probes |-> [liveness |-> s.httpPort, readiness |-> s.httpPort, startup |-> s.httpPort]]

build_statefulset(s) ==
    [labels |-> common_labels, replicas |-> s.replicas, selector |-> pod_selector,
     service_name |-> "headless",
     template |-> [labels |-> pod_selector, container |-> build_container(s),
                   serviceAccountName |-> s.serviceAccountName,
                   nodeSelector |-> NonEmpty(s.nodeSelector),
                   volumes |-> build_volumes(s)],
     claims |-> build_volume_claim_templates(s.storage),
     update_strategy |-> build_update_strategy(s.updateStrategy)]

render(s) == [configmap |-> build_configmap(s), headless |-> headless_service(s),
              client |-> client_service(s), statefulset |-> build_statefulset(s)]

-------------------------------------------------------------------------------
\* Of several entries with one name the last is in force.
InForce(env, n) ==
    LET named == {i \in DOMAIN env : env[i].name = n}
    IN  env[CHOOSE i \in named : \A j \in named : j <= i].value

UserSets(s, n) == \E i \in DOMAIN s.env : s.env[i].name = n

\* The pods of the StatefulSet can be reached: file, environment, container,
\* probes and Services agree on the ports, no two of which are the same, and
\* the Services select the pods.  A user's entry for a listen address comes
\* after the operator's, is accepted, and is in force instead.
Reachable(s) ==
    LET r == render(s)
        c == r.statefulset.template.container
    IN  /\ \A d \in {r.headless, r.client, c} :
              d.kafka = r.configmap.content.listen_addr /\ d.http = r.configmap.content.http_addr
        /\ \/ UserSets(s, "STREAMLINE_LISTEN_ADDR")
           \/ InForce(c.env, "STREAMLINE_LISTEN_ADDR") = c.kafka
        /\ \/ UserSets(s, "STREAMLINE_HTTP_ADDR")
           \/ InForce(c.env, "STREAMLINE_HTTP_ADDR") = c.http
        /\ \A p \in DOMAIN c.probes : c.probes[p] = c.http
        /\ Cardinality({c.kafka, c.http, c.raft}) = 3
        /\ \A d \in {r.headless, r.client} :
              d.selector \subseteq r.statefulset.template.labels
        /\ r.statefulset.service_name = r.headless.name

\* A file lies in a mount when the mount's path is that of its directory.
MountOf(s, file) == {m \in build_container(s).mounts : m.path = Front(file)}

\* The broker finds its files: each one that the operator's environment or
\* configuration names lies directly in a mount that a named volume backs, and
\* mounts neither share a name nor lie in each other.  Only the name of the CA
\* Secret may be blank, as validate does not look at it.
FilesMounted(s) ==
    LET mounts == build_container(s).mounts
        files  == {CONFIG_FILE_PATH} \cup render_config(s).tls_files
    IN  /\ \A f \in files : \E m \in MountOf(s, f) : m.source # "" \/ m.name = "tls-ca"
        /\ \A m, n \in mounts : m # n => m.name # n.name /\ ~IsPrefix(m.path, n.path)
        /\ \A m \in mounts : m \in build_volumes(s)
                             \/ m.name = build_statefulset(s).claims.name
        /\ render_config(s).data_dir \in {m.path : m \in mounts}

\* No entry of the environment is lost, and each keeps its one source.
EnvironmentKept(s) ==
    LET env == build_container(s).env
        own == Len(operator_env(s))
    IN  /\ Len(env) = own + Len(s.env)
        /\ \A i \in DOMAIN s.env :
              env[own + i] = s.env[i] /\ (env[own + i].value = Absent
                  => /\ Cardinality(env[own + i].valueFrom) = 1
                     /\ \A ref \in env[own + i].valueFrom : ~incomplete_ref(ref))
==============================================================================
