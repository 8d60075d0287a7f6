--------------------------- MODULE SpecUpgradeProofs ---------------------------
(***************************************************************************)
(* Proofs about SpecUpgrade and the rendering it hands specs on to, for    *)
(* every edit a user may make.  The bridge between validation and          *)
(* rendering is AcceptedIsValid: nothing but a spec without errors is      *)
(* handed on.  From it, the brokers of an accepted cluster find their      *)
(* files, can be reached and get their environment.  The invariant SpecInv *)
(* types what is stored and read and says what advice is about: advice is  *)
(* right about where a value comes from, sticks when it is followed and    *)
(* spares the settings around it.  Last, an accepted spec can be read off  *)
(* its objects, so that no setting is silently dropped.                    *)
(***************************************************************************)
EXTENDS SpecUpgrade, SequenceTheorems, FiniteSetTheorems, WellFoundedInduction, TLAPS

AcceptedIsValid == Renders => validate(accepted) = {}

\* A spec is accepted only by Reconcile, and only without rejections.
THEOREM AcceptedValid == Spec => []AcceptedIsValid
<1>1. Init => AcceptedIsValid
  BY DEF Init, AcceptedIsValid, Renders
<1>2. AcceptedIsValid /\ [Next]_vars => AcceptedIsValid'
  <2> SUFFICES ASSUME AcceptedIsValid, [Next]_vars PROVE AcceptedIsValid'
    OBVIOUS
  <2>1. CASE Reconcile
    <3>1. kind' = kind
      BY <2>1 DEF Reconcile
    <3>2. CASE Rejections(View) = {}
      BY <2>1, <3>1, <3>2 DEF Reconcile, AcceptedIsValid, Renders, Rejections
    <3>3. CASE Rejections(View) # {}
      BY <2>1, <3>1, <3>3 DEF Reconcile, AcceptedIsValid, Renders
    <3> QED  BY <3>2, <3>3
  <2>2. CASE UNCHANGED <<kind, accepted>>
    BY <2>2 DEF AcceptedIsValid, Renders
  <2>3. Reconcile \/ UNCHANGED <<kind, accepted>>
    BY DEF Next, EditField, InstallCrds, RollBackCrds, FollowAdvice, vars
  <2> QED  BY <2>1, <2>2, <2>3
<1> QED  BY <1>1, <1>2, PTL DEF Spec

-------------------------------------------------------------------------------
\* What an accepted spec is known to have.
LEMMA NoErrors ==
    ASSUME NEW s, validate(s) = {}
    PROVE  /\ tls_errors(s.tls) = {} /\ port_errors(s) = {}
           /\ \A i \in DOMAIN s.env : resolve_source(s.env[i]) # Unresolved
<1>1. plain_errors(s) = {}
  <2> SUFFICES ASSUME NEW f \in plain_errors(s) PROVE FALSE
    OBVIOUS
  <2>1. Rejection(f, Absent) \in validate(s)
    BY DEF validate
  <2> QED  BY <2>1
<1>2. When(\E i \in DOMAIN s.env : resolve_source(s.env[i]) = Unresolved, "env") = {}
  BY <1>1 DEF plain_errors
<1> QED  BY <1>1, <1>2 DEF plain_errors, When

\* The secrets that TLS needs are named.
LEMMA TlsHasSecrets ==
    ASSUME NEW s, validate(s) = {}, Tls(s)
    PROVE  s.tls.secretName # "" /\ (Mtls(s) => s.tls.caSecretName # Absent)
BY NoErrors DEF tls_errors, When, Tls, Mtls

-------------------------------------------------------------------------------
(***************************************************************************)
(* Paths.                                                                  *)
(***************************************************************************)
\* The directory of a file.
LEMMA FrontOfAppend ==
    ASSUME NEW S, NEW p \in Seq(S), NEW f \in S
    PROVE  Front(Append(p, f)) = p
<1>1. /\ Append(p, f) \in Seq(S) /\ Len(Append(p, f)) = Len(p) + 1
      /\ \A i \in 1..Len(p) : Append(p, f)[i] = p[i]
  BY AppendProperties
<1>2. Len(p) \in Nat
  BY LenProperties
<1>3. /\ SubSeq(Append(p, f), 1, Len(p)) \in Seq(S)
      /\ Len(SubSeq(Append(p, f), 1, Len(p))) = Len(p)
      /\ \A i \in 1..Len(p) : SubSeq(Append(p, f), 1, Len(p))[i] = p[i]
  <2>1. \A i \in 1..Len(p) : Append(p, f)[i] \in S
    BY <1>1, ElementOfSeq
  <2> QED  BY <1>1, <1>2, <2>1, SubSeqProperties
<1>4. SubSeq(Append(p, f), 1, Len(p)) = p
  BY <1>3, SeqEqual
<1> QED  BY <1>1, <1>2, <1>4 DEF Front

\* Paths that differ in a component are not prefixes of each other.
LEMMA NoPrefix ==
    ASSUME NEW S, NEW p \in Seq(S), NEW q \in Seq(S), NEW i \in 1..Len(p),
           i \in 1..Len(q), p[i] # q[i]
    PROVE  ~IsPrefix(p, q)
<1> SUFFICES ASSUME IsPrefix(p, q) PROVE FALSE
  OBVIOUS
<1>1. Len(p) \in Nat /\ Len(q) \in Nat /\ Len(p) <= Len(q)
  BY LenProperties DEF IsPrefix
<1>2. /\ \A j \in 1..Len(p) : p[j] \in S
      /\ \A j \in 1..Len(p) : q[j] \in S
  BY <1>1, ElementOfSeq
<1>3. SubSeq(p, 1, Len(p))[i] = p[i] /\ SubSeq(q, 1, Len(p))[i] = q[i]
  BY <1>1, <1>2, SubSeqProperties
<1> QED  BY <1>3 DEF IsPrefix

\* The names that paths are made of, and the four paths where something is
\* mounted.
Names == {"data", "etc", "streamline", "streamline-tls", "streamline-tls-ca",
          "streamline.toml", "tls.crt", "tls.key", "ca.crt"}
MountPaths == {DataPath, CONFIG_MOUNT_PATH, TLS_MOUNT_PATH, TLS_CA_MOUNT_PATH}

\* The mount paths: a file's directory is the mount it was put in, and none
\* contains another.
LEMMA Paths ==
    /\ MountPaths \subseteq Seq(Names)
    /\ Front(CONFIG_FILE_PATH) = CONFIG_MOUNT_PATH
    /\ \A p \in MountPaths : \A f \in Names : Front(Append(p, f)) = p
    /\ \A p, q \in MountPaths : p # q => ~IsPrefix(p, q)
<1> USE DEF DataPath, CONFIG_MOUNT_PATH, TLS_MOUNT_PATH, TLS_CA_MOUNT_PATH, CONFIG_FILE_PATH
<1>1. MountPaths \subseteq Seq(Names)
  <2>1. ASSUME NEW S, NEW a \in S, NEW b \in S
        PROVE  <<a>> \in Seq(S) /\ <<a, b>> \in Seq(S)
    OBVIOUS
  <2>2. {"data", "etc", "streamline", "streamline-tls", "streamline-tls-ca"} \subseteq Names
    BY DEF Names
  <2> QED  BY <2>1, <2>2 DEF MountPaths
<1>2. \A p \in MountPaths : \A f \in Names : Front(Append(p, f)) = p
  BY <1>1, FrontOfAppend
<1>3. Front(CONFIG_FILE_PATH) = CONFIG_MOUNT_PATH
  <2>1. CONFIG_FILE_PATH = Append(CONFIG_MOUNT_PATH, "streamline.toml")
    OBVIOUS
  <2> QED  BY <1>2, <2>1 DEF MountPaths, Names
<1>4. ASSUME NEW p \in MountPaths, NEW q \in MountPaths, p # q
      PROVE  ~IsPrefix(p, q)
  <2>1. p \in Seq(Names) /\ q \in Seq(Names)
    BY <1>1
  <2>2. \/ 1 \in 1..Len(p) /\ 1 \in 1..Len(q) /\ p[1] # q[1]
        \/ 2 \in 1..Len(p) /\ 2 \in 1..Len(q) /\ p[2] # q[2]
    BY <1>4 DEF MountPaths
  <2> QED  BY <2>1, <2>2, NoPrefix
<1> QED  BY <1>1, <1>2, <1>3, <1>4

-------------------------------------------------------------------------------
\* The mounts of the container of an accepted spec: no Secret is missing.
Mounts(s) ==
    {Volume("data", DataPath, "data"), Volume("config", CONFIG_MOUNT_PATH, "config")}
    \cup (IF Tls(s) THEN {Volume("tls", TLS_MOUNT_PATH, s.tls.secretName)} ELSE {})
    \cup (IF Mtls(s) THEN {Volume("tls-ca", TLS_CA_MOUNT_PATH, s.tls.caSecretName)} ELSE {})

\* The mounts of the container, and the volumes they come from.
LEMMA MountsOfAccepted ==
    ASSUME NEW s, validate(s) = {}
    PROVE  /\ build_container(s).mounts = Mounts(s)
           /\ build_volumes(s) = Mounts(s) \ {Volume("data", DataPath, "data")}
<1>1. Mtls(s) => Tls(s)
  BY DEF Mtls
<1>2. build_volumes(s) =
         {Volume("config", CONFIG_MOUNT_PATH, "config")}
         \cup (IF Tls(s) THEN {Volume("tls", TLS_MOUNT_PATH, s.tls.secretName)} ELSE {})
         \cup (IF Mtls(s) THEN {Volume("tls-ca", TLS_CA_MOUNT_PATH, s.tls.caSecretName)} ELSE {})
  BY <1>1, TlsHasSecrets DEF build_volumes
<1>3. build_container(s).mounts = {Volume("data", DataPath, "data")} \cup build_volumes(s)
  BY DEF build_container
<1>4. \A v \in build_volumes(s) : v # Volume("data", DataPath, "data")
  BY <1>2 DEF Volume
<1> QED  BY <1>2, <1>3, <1>4 DEF Mounts

\* The broker of an accepted spec finds its files.
LEMMA AcceptedFilesMounted ==
    ASSUME NEW s, validate(s) = {}
    PROVE  FilesMounted(s)
<1> DEFINE files == {CONFIG_FILE_PATH} \cup render_config(s).tls_files
<1>1. Mtls(s) => Tls(s)
  BY DEF Mtls
<1>2. ASSUME NEW f \in files
      PROVE  \E m \in MountOf(s, f) : m.source # "" \/ m.name = "tls-ca"
  <2>1. \/ f = CONFIG_FILE_PATH
        \/ Tls(s) /\ \E n \in {"tls.crt", "tls.key"} : f = Append(TLS_MOUNT_PATH, n)
        \/ Mtls(s) /\ f = Append(TLS_CA_MOUNT_PATH, "ca.crt")
    BY <1>2 DEF render_config, tls_files
  <2>2. ASSUME NEW m \in Mounts(s), m.path = Front(f) PROVE m \in MountOf(s, f)
    BY <2>2, MountsOfAccepted DEF MountOf
  <2>3. CASE f = CONFIG_FILE_PATH
    <3> DEFINE m == Volume("config", CONFIG_MOUNT_PATH, "config")
    <3>1. m \in Mounts(s) /\ m.path = Front(f) /\ m.source # ""
      BY <2>3, Paths DEF Mounts, Volume
    <3> QED  BY <2>2, <3>1
  <2>4. CASE Tls(s) /\ \E n \in {"tls.crt", "tls.key"} : f = Append(TLS_MOUNT_PATH, n)
    <3> DEFINE m == Volume("tls", TLS_MOUNT_PATH, s.tls.secretName)
    <3>1. Front(f) = TLS_MOUNT_PATH
      BY <2>4, Paths DEF MountPaths, Names
    <3>2. m \in Mounts(s) /\ m.path = Front(f) /\ m.source # ""
      BY <2>4, <3>1, TlsHasSecrets DEF Mounts, Volume
    <3> QED  BY <2>2, <3>2
  <2>5. CASE Mtls(s) /\ f = Append(TLS_CA_MOUNT_PATH, "ca.crt")
    <3> DEFINE m == Volume("tls-ca", TLS_CA_MOUNT_PATH, s.tls.caSecretName)
    <3>1. Front(f) = TLS_CA_MOUNT_PATH
      BY <2>5, Paths DEF MountPaths, Names
    <3>2. m \in Mounts(s) /\ m.path = Front(f) /\ m.name = "tls-ca"
      BY <2>5, <3>1 DEF Mounts, Volume
    <3> QED  BY <2>2, <3>2
  <2> QED  BY <2>1, <2>3, <2>4, <2>5
<1>3. ASSUME NEW m \in Mounts(s), NEW n \in Mounts(s), m # n
      PROVE  m.name # n.name /\ ~IsPrefix(m.path, n.path)
  <2>1. m.name # n.name /\ m.path # n.path
    BY <1>3 DEF Mounts, Volume, DataPath, CONFIG_MOUNT_PATH, TLS_MOUNT_PATH, TLS_CA_MOUNT_PATH
  <2>2. m.path \in MountPaths /\ n.path \in MountPaths
    BY DEF Mounts, Volume, MountPaths
  <2> QED  BY <2>1, <2>2, Paths
<1>4. \A m \in Mounts(s) : m \in build_volumes(s) \/ m.name = build_statefulset(s).claims.name
  BY MountsOfAccepted DEF build_statefulset, build_volume_claim_templates, Volume
<1>5. render_config(s).data_dir \in {m.path : m \in Mounts(s)}
  <2> DEFINE d == Volume("data", DataPath, "data")
  <2>1. d \in Mounts(s) /\ d.path = DataPath
    BY DEF Mounts, Volume
  <2>2. render_config(s).data_dir = DataPath
    BY DEF render_config
  <2> QED  BY <2>1, <2>2
<1> QED  BY <1>2, <1>3, <1>4, <1>5, MountsOfAccepted DEF FilesMounted

\* Whatever users edit and whichever CRDs are installed, the brokers of an
\* accepted cluster find the files that their configuration names.
THEOREM FilesFound == Spec => []FilesAreMounted
<1>1. AcceptedIsValid => FilesAreMounted
  BY AcceptedFilesMounted DEF AcceptedIsValid, FilesAreMounted
<1> QED  BY <1>1, AcceptedValid, PTL
-------------------------------------------------------------------------------
(***************************************************************************)
(* Types.  The API server only stores values of the type that the schema   *)
(* gives a leaf, so the operator reads a value of that type, too.          *)
(***************************************************************************)
Types == IF kind = "cluster" THEN ClusterTypes ELSE TopicTypes

\* The leaves whose defaults hold a string: no backend proves a literal to be a
\* STRING, and no proof below needs it.
TextLeaves == {"image", "imagePullPolicy", "storage", "logLevel", "updateStrategy",
               "cleanupPolicy", "compression"}

\* A spec with a value, or none, for every leaf; and one with a value for each
\* leaf, as the operator reads it.
Storable(s) == DOMAIN s = Leaves /\ \A f \in Leaves \ TextLeaves : s[f] \in Types[f] \cup {Absent}
Readable(s) == DOMAIN s = Leaves /\ \A f \in Leaves \ TextLeaves : s[f] \in Types[f]

\* Every default has the type of its leaf, leaf by leaf.
LEMMA ClusterDefaultsTyped == \A f \in ClusterLeaves \ TextLeaves : ClusterDefaults[f] \in ClusterTypes[f]
<1> DEFINE d == ClusterDefaults
           t == ClusterTypes
<1>1. /\ d["replicas"] = 1 /\ d["kafkaPort"] = 9092 /\ d["httpPort"] = 9094
      /\ d["raftPort"] = 9095 /\ d["tolerations"] = 0
      /\ \A f \in {"replicas", "kafkaPort", "httpPort", "raftPort"} : t[f] = Int
      /\ t["tolerations"] = Nat
  BY DEF ClusterDefaults, ClusterTypes
<1>2. /\ d["podAntiAffinity"] = FALSE /\ d["rackAwareness"] = FALSE /\ d["metricsEnabled"] = TRUE
  BY DEF ClusterDefaults
<1>3. /\ t["podAntiAffinity"] = BOOLEAN /\ t["rackAwareness"] = BOOLEAN
      /\ t["metricsEnabled"] = BOOLEAN
  BY DEF ClusterTypes
<1>4. /\ d["tls"] = Absent /\ t["tls"] = Optional(ClusterTls)
      /\ d["autoscaling"] = Absent /\ t["autoscaling"] = Optional(AutoScaling)
      /\ d["serviceAccountName"] = Absent /\ t["serviceAccountName"] = Optional(STRING)
  BY DEF ClusterDefaults, ClusterTypes
<1>5. /\ d["env"] = <<>> /\ t["env"] = Seq(EnvVar)
  BY DEF ClusterDefaults, ClusterTypes
<1>6. d["nodeSelector"] = {} /\ t["nodeSelector"] = SUBSET (STRING \X STRING)
  BY DEF ClusterDefaults, ClusterTypes
<1>7. d["resources"] \in t["resources"]
  BY DEF ClusterDefaults, ClusterTypes, Quantities, Optional
<1>8. ClusterLeaves \ TextLeaves
         = {"replicas", "kafkaPort", "httpPort", "raftPort", "tolerations", "podAntiAffinity",
            "rackAwareness", "metricsEnabled", "tls", "autoscaling", "serviceAccountName",
            "env", "nodeSelector", "resources"}
  BY DEF ClusterLeaves, ClusterDefaults, TextLeaves
<1>9. \A S : Absent \in Optional(S)
  BY DEF Optional
<1> HIDE DEF d, t
<1>10. /\ d["replicas"] \in t["replicas"] /\ d["kafkaPort"] \in t["kafkaPort"]
      /\ d["httpPort"] \in t["httpPort"] /\ d["raftPort"] \in t["raftPort"]
      /\ d["tolerations"] \in t["tolerations"]
  BY <1>1
<1>11. /\ d["podAntiAffinity"] \in t["podAntiAffinity"]
       /\ d["rackAwareness"] \in t["rackAwareness"] /\ d["metricsEnabled"] \in t["metricsEnabled"]
  BY <1>2, <1>3
<1>12. /\ d["tls"] \in t["tls"] /\ d["autoscaling"] \in t["autoscaling"]
       /\ d["serviceAccountName"] \in t["serviceAccountName"]
  BY <1>4, <1>9
<1>13. d["env"] \in t["env"]
  <2>1. <<>> \in Seq(EnvVar)
    OBVIOUS
  <2> QED  BY <1>5, <2>1
<1>14. d["nodeSelector"] \in t["nodeSelector"]
  BY <1>6
<1>15. \A f \in ClusterLeaves \ TextLeaves : d[f] \in t[f]
  BY <1>7, <1>8, <1>10, <1>11, <1>12, <1>13, <1>14
<1> QED  BY <1>15 DEF d, t

\* The same for topics.
LEMMA TopicDefaultsTyped == \A f \in TopicLeaves \ TextLeaves : TopicDefaults[f] \in TopicTypes[f]
<1> DEFINE d == TopicDefaults
           t == TopicTypes
<1>1. \A f \in {"partitions", "replicationFactor", "retentionMs", "retentionBytes"} :
        d[f] \in Int /\ t[f] = Int
  BY DEF TopicDefaults, TopicTypes
<1>2. \A f \in {"minInsyncReplicas", "maxMessageBytes", "segmentBytes", "indexIntervalBytes",
                "flushIntervalMs", "flushMessages"} : d[f] = Absent /\ t[f] = Int \cup {Absent}
  BY DEF TopicDefaults, TopicTypes
<1>3. d["custom"] = {} /\ t["custom"] = SUBSET STRING
  BY DEF TopicDefaults, TopicTypes
<1>4. TopicLeaves \ TextLeaves
         = {"partitions", "replicationFactor", "retentionMs", "retentionBytes",
            "minInsyncReplicas", "maxMessageBytes", "segmentBytes", "indexIntervalBytes",
            "flushIntervalMs", "flushMessages", "custom"}
  BY DEF TopicLeaves, TopicParent, TextLeaves
<1> HIDE DEF d, t
<1>5. \A f \in TopicLeaves \ TextLeaves : d[f] \in t[f]
  BY <1>1, <1>2, <1>3, <1>4
<1> QED  BY <1>5 DEF d, t

\* The defaults of the types the operator reads are typed ...
LEMMA DefaultsTyped ==
    ASSUME kind \in {"cluster", "topic"}, NEW f \in Leaves \ TextLeaves
    PROVE  Defaults[f] \in Types[f]
<1>1. DOMAIN TopicDefaults = TopicLeaves
  BY DEF TopicDefaults, TopicLeaves, TopicParent
<1> QED  BY <1>1, ClusterDefaultsTyped, TopicDefaultsTyped
         DEF Leaves, Defaults, Types, ClusterLeaves

\* What v0.3.0 filled in has the right type, and is there.
LEMMA OldDefaultsTyped ==
    ASSUME kind \in {"cluster", "topic"}, NEW f \in DOMAIN OldDefaults \cap Leaves
    PROVE  OldDefaults[f] \in Types[f] /\ OldDefaults[f] # Absent
<1>1. f \in {"replicas", "podAntiAffinity", "replicationFactor", "retentionMs",
             "minInsyncReplicas", "maxMessageBytes"}
  BY SMT DEF OldDefaults
<1>2. /\ OldDefaults["podAntiAffinity"] \in BOOLEAN
      /\ \A g \in {"replicas", "replicationFactor", "retentionMs", "minInsyncReplicas",
                   "maxMessageBytes"} : OldDefaults[g] \in Int
  BY SMT DEF OldDefaults
<1>3. CASE kind = "cluster"
  <2>1. f \in {"replicas", "podAntiAffinity"}
    BY <1>3, <1>1 DEF Leaves, Defaults, ClusterDefaults
  <2>2. ClusterTypes["replicas"] = Int /\ ClusterTypes["podAntiAffinity"] = BOOLEAN
    BY DEF ClusterTypes
  <2>3. Types = ClusterTypes
    BY <1>3 DEF Types
  <2> QED  BY <1>2, <2>1, <2>2, <2>3, AbsentAssumption
<1>4. CASE kind = "topic"
  <2>1. f \in {"replicationFactor", "retentionMs", "minInsyncReplicas", "maxMessageBytes"}
    BY <1>4, <1>1 DEF Leaves, Defaults, TopicDefaults
  <2>2. \A g \in {"replicationFactor", "retentionMs", "minInsyncReplicas", "maxMessageBytes"} :
          Int \subseteq TopicTypes[g]
    BY SMT DEF TopicTypes
  <2>3. Types = TopicTypes
    BY <1>4 DEF Types
  <2> QED  BY <1>2, <2>1, <2>2, <2>3, AbsentAssumption
<1> QED  BY <1>3, <1>4

\* ... and so are those of the CRDs, corrected or not.
LEMMA DefaultTyped ==
    ASSUME kind \in {"cluster", "topic"}, NEW c, NEW f \in Leaves \ TextLeaves
    PROVE  Default(c, f) \in Types[f]
BY DefaultsTyped, OldDefaultsTyped DEF Default

\* What the operator reads is typed, whatever is missing in etcd.
LEMMA ViewReadable ==
    ASSUME kind \in {"cluster", "topic"}, Storable(stored)
    PROVE  Readable(View)
<1> SUFFICES ASSUME NEW f \in Leaves \ TextLeaves PROVE ViewOf(f) \in Types[f]
  BY DEF View, Readable
<1> QED  BY DefaultTyped, DefaultsTyped DEF ViewOf, Storable

-------------------------------------------------------------------------------
(***************************************************************************)
(* Rejections.                                                             *)
(***************************************************************************)
\* Advice is what upgrade.rs says about the leaf that was rejected.
Advises(r) ==
    r.advice # Absent => /\ r.field \in DOMAIN LEGACY_DEFAULTS \cap Leaves
                         /\ \E l \in BOOLEAN : r.advice = remediation(r.field, l)

\* An advised rejection of a spec: the value is not the supported one, and it
\* is blamed on v0.3.0 exactly when it is the value that v0.3.0 filled in.
AdvisedRejection(s, r) ==
    /\ r.field \in DOMAIN LEGACY_DEFAULTS \cap Leaves
    /\ s[r.field] # LEGACY_DEFAULTS[r.field].supported_value
    /\ \E l \in BOOLEAN : /\ l <=> s[r.field] = LEGACY_DEFAULTS[r.field].legacy_value
                          /\ r = Rejection(r.field, remediation(r.field, l))

\* A rejection without advice: of a leaf that v0.3.0 filled in, only replicas
\* has one, for values below 1.
PlainRejection(s, r) ==
    /\ r = Rejection(r.field, Absent)
    /\ r.field \in DOMAIN LEGACY_DEFAULTS =>
          kind = "cluster" /\ r.field = "replicas" /\ s.replicas < 1

\* The table of upgrade.rs agrees with what v0.3.0 filled in and with the
\* serde defaults.
LEMMA LegacyTable ==
    /\ DOMAIN LEGACY_DEFAULTS = {"replicas", "podAntiAffinity", "replicationFactor",
                                 "retentionMs", "minInsyncReplicas", "maxMessageBytes"}
    /\ DOMAIN OldDefaults = DOMAIN LEGACY_DEFAULTS
    /\ \A f \in DOMAIN LEGACY_DEFAULTS : OldDefaults[f] = LEGACY_DEFAULTS[f].legacy_value
<1>1. DOMAIN LEGACY_DEFAULTS = {"replicas", "podAntiAffinity", "replicationFactor",
                                "retentionMs", "minInsyncReplicas", "maxMessageBytes"}
  BY SMT DEF LEGACY_DEFAULTS
<1>2. DOMAIN OldDefaults = DOMAIN LEGACY_DEFAULTS
  BY SMT DEF OldDefaults, LEGACY_DEFAULTS
<1>3. \A f \in DOMAIN LEGACY_DEFAULTS : OldDefaults[f] = LEGACY_DEFAULTS[f].legacy_value
  <2>1. OldDefaults["replicas"] = LEGACY_DEFAULTS["replicas"].legacy_value
    BY SMT DEF OldDefaults, LEGACY_DEFAULTS, LegacyDefault
  <2>4. OldDefaults["podAntiAffinity"] = LEGACY_DEFAULTS["podAntiAffinity"].legacy_value
    <3>1. OldDefaults["podAntiAffinity"] = TRUE
      BY SMT DEF OldDefaults
    <3>2. LEGACY_DEFAULTS["podAntiAffinity"].legacy_value = TRUE
      BY SMT DEF LEGACY_DEFAULTS, LegacyDefault
    <3> QED  BY <3>1, <3>2
  <2>2. /\ OldDefaults["replicationFactor"] = LEGACY_DEFAULTS["replicationFactor"].legacy_value
        /\ OldDefaults["retentionMs"] = LEGACY_DEFAULTS["retentionMs"].legacy_value
    BY SMT DEF OldDefaults, LEGACY_DEFAULTS, LegacyDefault
  <2>3. /\ OldDefaults["minInsyncReplicas"] = LEGACY_DEFAULTS["minInsyncReplicas"].legacy_value
        /\ OldDefaults["maxMessageBytes"] = LEGACY_DEFAULTS["maxMessageBytes"].legacy_value
    BY SMT DEF OldDefaults, LEGACY_DEFAULTS, LegacyDefault
  <2> QED  BY <1>1, <2>1, <2>4, <2>2, <2>3
<1> QED  BY <1>1, <1>2, <1>3

\* The value that advice tells users to write is the default of the leaf.
LEMMA SupportedIsDefault ==
    ASSUME kind \in {"cluster", "topic"}, NEW f \in DOMAIN LEGACY_DEFAULTS \cap Leaves
    PROVE  /\ LEGACY_DEFAULTS[f].supported_value = Defaults[f]
           /\ LEGACY_DEFAULTS[f].parent = Parent(f)
<1>1. CASE kind = "cluster"
  <2>1. f \in {"replicas", "podAntiAffinity"}
    BY <1>1, LegacyTable DEF Leaves, Defaults, ClusterDefaults
  <2>2. /\ LEGACY_DEFAULTS["replicas"].supported_value = 1
        /\ LEGACY_DEFAULTS["replicas"].parent = TopLevel
        /\ LEGACY_DEFAULTS["podAntiAffinity"].supported_value = FALSE
        /\ LEGACY_DEFAULTS["podAntiAffinity"].parent = TopLevel
    BY SMT DEF LEGACY_DEFAULTS, LegacyDefault
  <2>3. ClusterDefaults["replicas"] = 1 /\ ClusterDefaults["podAntiAffinity"] = FALSE
    BY DEF ClusterDefaults
  <2> QED  BY <1>1, <2>1, <2>2, <2>3 DEF Defaults, Parent
<1>2. CASE kind = "topic"
  <2>1. f \in {"replicationFactor", "retentionMs", "minInsyncReplicas", "maxMessageBytes"}
    BY <1>2, LegacyTable DEF Leaves, Defaults, TopicDefaults
  <2>2. \A g \in {"replicationFactor", "retentionMs", "minInsyncReplicas", "maxMessageBytes"} :
          /\ LEGACY_DEFAULTS[g].supported_value = TopicDefaults[g]
          /\ LEGACY_DEFAULTS[g].parent = TopicParent[g]
    BY SMT DEF LEGACY_DEFAULTS, LegacyDefault, TopicDefaults, TopicParent
  <2> QED  BY <1>2, <2>1, <2>2 DEF Defaults, Parent
<1> QED  BY <1>1, <1>2

\* The fields of the rejections without advice.
LEMMA PlainFields ==
    ASSUME NEW s, NEW f \in plain_errors(s), f \in DOMAIN LEGACY_DEFAULTS
    PROVE  f = "replicas" /\ s.replicas < 1
<1>1. f \notin port_errors(s)
  <2> DEFINE same == \E i, j \in 1..3 : i # j /\ Ports(s)[i] = Ports(s)[j]
             outside(g) == s[g] \notin 1..65535
             bad  == {g \in {"kafkaPort", "httpPort", "raftPort"} : outside(g)}
  <2>1. port_errors(s) = bad \cup When(same, "ports")
    BY DEF port_errors
  <2>2. f \notin bad
    <3>1. bad \subseteq {"kafkaPort", "httpPort", "raftPort"}
      <4> HIDE DEF outside
      <4> QED  OBVIOUS
    <3> HIDE DEF bad
    <3> QED  BY <3>1, LegacyTable
  <2> HIDE DEF same, bad
  <2> QED  BY LegacyTable, <2>1, <2>2 DEF When
<1>2. f \notin autoscaling_errors(s.autoscaling)
  BY LegacyTable DEF autoscaling_errors, When
<1>3. f \notin tls_errors(s.tls)
  BY LegacyTable DEF tls_errors, When
<1>4. f \notin {"env", "rackAwareness.enabled", "tolerations"}
  BY LegacyTable
<1> DEFINE few   == s.replicas < 1
           unres == \E i \in DOMAIN s.env : resolve_source(s.env[i]) = Unresolved
           racks == s.rackAwareness
           tols  == s.tolerations > 0
<1>5. plain_errors(s) = When(few, "replicas") \cup port_errors(s) \cup When(unres, "env")
         \cup When(racks, "rackAwareness.enabled") \cup When(tols, "tolerations")
         \cup autoscaling_errors(s.autoscaling) \cup tls_errors(s.tls)
  BY DEF plain_errors
<1>6. few => s.replicas < 1
  OBVIOUS
<1> HIDE DEF few, unres, racks, tols
<1> QED  BY <1>1, <1>2, <1>3, <1>4, <1>5, <1>6 DEF When

\* Every rule of validate either gives advice about its leaf or concerns a leaf
\* that v0.3.0 did not fill in.
LEMMA ClusterRejections ==
    ASSUME kind = "cluster", NEW s, NEW r \in validate(s),
           s.podAntiAffinity \in BOOLEAN
    PROVE  AdvisedRejection(s, r) \/ PlainRejection(s, r)
<1> DEFINE old      == s.replicas = 3
           more     == s.replicas > 1
           many     == When(more, Rejection("replicas", remediation_for("replicas", old)))
           spread   == s.podAntiAffinity
           affinity == When(spread,
                            Rejection("podAntiAffinity", remediation_for("podAntiAffinity", TRUE)))
           plain    == {Rejection(f, Absent) : f \in plain_errors(s)}
<1>1. validate(s) = many \cup affinity \cup plain
  BY DEF validate
<1>2. "replicas" \in DOMAIN LEGACY_DEFAULTS \cap Leaves
      /\ "podAntiAffinity" \in DOMAIN LEGACY_DEFAULTS \cap Leaves
  BY LegacyTable DEF Leaves, Defaults, ClusterDefaults
<1>3. /\ LEGACY_DEFAULTS["replicas"].supported_value = 1
      /\ LEGACY_DEFAULTS["replicas"].legacy_value = 3
      /\ LEGACY_DEFAULTS["podAntiAffinity"].supported_value = FALSE
      /\ LEGACY_DEFAULTS["podAntiAffinity"].legacy_value = TRUE
  BY SMT DEF LEGACY_DEFAULTS, LegacyDefault
<1>4. old \in BOOLEAN /\ (old <=> s.replicas = 3) /\ (more => s.replicas # 1)
  OBVIOUS
<1>5. CASE r \in many
  <2> HIDE DEF old, more
  <2>1. r = Rejection("replicas", remediation("replicas", old)) /\ more
    BY <1>5, <1>2 DEF When, remediation_for
  <2> QED  BY <1>2, <1>3, <1>4, <2>1 DEF AdvisedRejection, Rejection
<1>6. CASE r \in affinity
  <2>1. r = Rejection("podAntiAffinity", remediation("podAntiAffinity", TRUE)) /\ spread
    BY <1>6, <1>2 DEF When, remediation_for
  <2> QED  BY <1>2, <1>3, <2>1 DEF AdvisedRejection, Rejection
<1>7. CASE r \in plain
  <2>1. PICK f \in plain_errors(s) : r = Rejection(f, Absent)
    BY <1>7
  <2> QED  BY <2>1, PlainFields DEF PlainRejection, Rejection
<1> HIDE DEF many, affinity, plain
<1> QED  BY <1>1, <1>5, <1>6, <1>7

\* The same for the unsupported fields of a topic.
LEMMA TopicRejections ==
    ASSUME kind = "topic", NEW s, NEW r \in unsupported_fields(s)
    PROVE  AdvisedRejection(s, r) \/ PlainRejection(s, r)
<1> DEFINE old    == s.replicationFactor = 2
           factor == s.replicationFactor # 1
           few    == s.partitions < 1
           differ == {g \in DOMAIN config_defaults : s[g] # config_defaults[g]}
           given  == {g \in ConfigLeaves : s[g] # Absent}
           reject(f) == Rejection(f, remediation_for_value(f, s[f]))
<1>1. unsupported_fields(s) =
         When(factor, Rejection("replicationFactor", remediation_for("replicationFactor", old)))
         \cup When(few, Rejection("partitions", Absent))
         \cup {reject(f) : f \in differ} \cup {reject(f) : f \in given}
         \cup {Rejection("custom", Absent) : k \in s.custom}
  BY DEF unsupported_fields
<1>2. /\ "replicationFactor" \in DOMAIN LEGACY_DEFAULTS \cap Leaves
      /\ "partitions" \notin DOMAIN LEGACY_DEFAULTS /\ "custom" \notin DOMAIN LEGACY_DEFAULTS
  BY LegacyTable DEF Leaves, Defaults, TopicDefaults
<1>3. /\ LEGACY_DEFAULTS["replicationFactor"].supported_value = 1
      /\ LEGACY_DEFAULTS["replicationFactor"].legacy_value = 2
  BY SMT DEF LEGACY_DEFAULTS, LegacyDefault
<1>4. old \in BOOLEAN /\ (old <=> s.replicationFactor = 2) /\ (factor => s.replicationFactor # 1)
  OBVIOUS
<1>5. Leaves = TopicLeaves /\ Defaults = TopicDefaults
  BY DEF Leaves, Defaults, TopicLeaves, TopicParent, TopicDefaults
<1>6. ASSUME NEW f \in differ \cup given
      PROVE  f \in Leaves /\ s[f] # Defaults[f]
  <2>1. CASE f \in differ
    <3>1. f \in {"retentionMs", "retentionBytes", "cleanupPolicy", "compression"}
          /\ config_defaults[f] = TopicDefaults[f]
      BY <2>1 DEF config_defaults
    <3>2. f \in TopicLeaves
      BY <3>1 DEF TopicLeaves, TopicParent
    <3> QED  BY <2>1, <1>5, <3>1, <3>2
  <2>2. CASE f \in given
    <3>1. f \in TopicLeaves /\ s[f] # Absent
      BY <2>2 DEF ConfigLeaves
    <3>2. f \in {"minInsyncReplicas", "maxMessageBytes", "segmentBytes", "indexIntervalBytes",
                 "flushIntervalMs", "flushMessages"}
      <4>1. f \in TopicLeaves /\ TopicParent[f] = "config" /\ f # "custom"
        BY <2>2 DEF ConfigLeaves
      <4>2. \A g \in {"partitions", "replicationFactor", "retentionMs", "retentionBytes",
                     "cleanupPolicy", "compression"} : TopicParent[g] # "config"
        BY DEF TopicParent, TopLevel
      <4>3. TopicLeaves = {"partitions", "replicationFactor", "retentionMs", "retentionBytes",
                           "cleanupPolicy", "compression", "minInsyncReplicas",
                           "maxMessageBytes", "segmentBytes", "indexIntervalBytes",
                           "flushIntervalMs", "flushMessages", "custom"}
        BY DEF TopicLeaves, TopicParent
      <4> QED  BY <4>1, <4>2, <4>3
    <3>3. TopicDefaults[f] = Absent
      BY <3>2 DEF TopicDefaults
    <3> QED  BY <1>5, <3>1, <3>3
  <2> QED  BY <1>6, <2>1, <2>2
<1>7. ASSUME NEW f \in differ \cup given, r = reject(f)
      PROVE  AdvisedRejection(s, r) \/ PlainRejection(s, r)
  <2> DEFINE l == s[f] = LEGACY_DEFAULTS[f].legacy_value
  <2>1. l \in BOOLEAN /\ (l <=> s[f] = LEGACY_DEFAULTS[f].legacy_value)
    OBVIOUS
  <2>2. f \in Leaves /\ s[f] # Defaults[f]
    BY <1>6
  <2>3. CASE f \in DOMAIN LEGACY_DEFAULTS
    <3>1. r = Rejection(f, remediation(f, l))
      BY <1>7, <2>3 DEF remediation_for_value, observed_is_legacy
    <3> HIDE DEF l
    <3>2. s[f] # LEGACY_DEFAULTS[f].supported_value
      BY <2>2, <2>3, SupportedIsDefault
    <3> QED  BY <2>1, <2>2, <2>3, <3>1, <3>2 DEF AdvisedRejection, Rejection
  <2>4. CASE f \notin DOMAIN LEGACY_DEFAULTS
    BY <1>7, <2>4 DEF remediation_for_value, PlainRejection, Rejection
  <2> QED  BY <2>3, <2>4
<1>8. CASE r \in When(factor, Rejection("replicationFactor",
                                        remediation_for("replicationFactor", old)))
  <2> HIDE DEF old, factor
  <2>1. r = Rejection("replicationFactor", remediation("replicationFactor", old)) /\ factor
    BY <1>8, <1>2 DEF When, remediation_for
  <2> QED  BY <1>2, <1>3, <1>4, <2>1 DEF AdvisedRejection, Rejection
<1>9. CASE r \in When(few, Rejection("partitions", Absent))
           \/ r \in {Rejection("custom", Absent) : k \in s.custom}
  <2> HIDE DEF few
  <2> QED  BY <1>2, <1>9 DEF When, PlainRejection, Rejection
<1>10. CASE r \in {reject(f) : f \in differ} \cup {reject(f) : f \in given}
  BY <1>7, <1>10
<1> HIDE DEF old, factor, few, differ, given, reject
<1> QED  BY <1>1, <1>8, <1>9, <1>10

\* The two kinds of rejections, of a cluster or a topic.
LEMMA RejectionCases ==
    ASSUME kind \in {"cluster", "topic"}, NEW s, Readable(s), NEW r \in Rejections(s)
    PROVE  AdvisedRejection(s, r) \/ PlainRejection(s, r)
<1>1. CASE kind = "cluster"
  <2>1. s["podAntiAffinity"] \in ClusterTypes["podAntiAffinity"]
    BY <1>1 DEF Readable, Types, Leaves, Defaults, ClusterDefaults, TextLeaves
  <2>2. ClusterTypes["podAntiAffinity"] = BOOLEAN
    BY DEF ClusterTypes
  <2> QED  BY <1>1, <2>1, <2>2, ClusterRejections DEF Rejections
<1>2. CASE kind = "topic"
  BY <1>2, TopicRejections DEF Rejections
<1> QED  BY <1>1, <1>2

-------------------------------------------------------------------------------
(***************************************************************************)
(* The invariant: what is stored and what is read has the type of its      *)
(* leaf, published advice is advice about a leaf of this resource, and     *)
(* what v0.3.0 filled in is still there.                                   *)
(***************************************************************************)
Injected ==
    /\ injected \subseteq DOMAIN OldDefaults \cap Leaves
    /\ \A f \in injected : stored[f] = OldDefaults[f]

SpecInv ==
    /\ kind \in {"cluster", "topic"} /\ crd \in {"v0.3.0", "corrected"}
    /\ Storable(stored)
    /\ accepted # Absent => Readable(accepted)
    /\ \A r \in advice : Advises(r)
    /\ Injected

\* The API server keeps the types, and what it filled in, of every document
\* that a user writes.
LEMMA WriteKeeps ==
    ASSUME SpecInv, kind' = kind, NEW s, NEW b, NEW written,
           Storable(s), \A f \in Leaves \ written : s[f] = stored[f],
           Write(s, b, written)
    PROVE  Storable(stored)' /\ Injected'
<1> DEFINE bs     == b \cup SchemaBlocks(crd)
           filled == {f \in Leaves \cap DOMAIN OldDefaults : Fills(f, s, bs)}
<1>1. Leaves' = Leaves /\ Types' = Types /\ OldDefaults' = OldDefaults
  BY DEF Leaves, Defaults, Types, OldDefaults
<1>2. /\ stored' = Defaulted(crd, s, bs)
      /\ injected' = IF crd = "v0.3.0" THEN (injected \ written) \cup filled
                     ELSE injected \ (written \cup filled)
  BY DEF Write
<1>3. \A f \in Leaves : stored'[f] = IF Fills(f, s, bs) THEN Default(crd, f) ELSE s[f]
  BY <1>2 DEF Defaulted
<1>4. DOMAIN stored' = Leaves
  BY <1>2 DEF Defaulted
<1>5. ASSUME NEW f \in Leaves \ TextLeaves PROVE stored'[f] \in Types[f] \cup {Absent}
  <2>1. Default(crd, f) \in Types[f]
    BY DefaultTyped DEF SpecInv
  <2> QED  BY <1>3, <2>1 DEF Storable
<1>6. ASSUME NEW f \in injected \ written PROVE ~Fills(f, s, bs) /\ stored'[f] = OldDefaults[f]
  <2>1. f \in DOMAIN OldDefaults \cap Leaves /\ stored[f] = OldDefaults[f]
    BY DEF SpecInv, Injected
  <2>2. s[f] = OldDefaults[f] /\ OldDefaults[f] # Absent
    BY <1>6, <2>1, OldDefaultsTyped DEF SpecInv
  <2>3. ~Fills(f, s, bs)
    BY <2>2 DEF Fills
  <2> QED  BY <1>3, <2>1, <2>2, <2>3
<1>7. ASSUME NEW f \in filled, crd = "v0.3.0" PROVE stored'[f] = OldDefaults[f]
  BY <1>3, <1>7 DEF Default
<1>8. Storable(stored)'
  BY <1>1, <1>4, <1>5 DEF Storable
<1>9. \A f \in injected' : f \in DOMAIN OldDefaults \cap Leaves /\ stored'[f] = OldDefaults[f]
  <2>1. injected \subseteq DOMAIN OldDefaults \cap Leaves
    BY DEF SpecInv, Injected
  <2>2. filled \subseteq DOMAIN OldDefaults \cap Leaves
    OBVIOUS
  <2> HIDE DEF filled
  <2>3. CASE crd = "v0.3.0"
    BY <1>2, <1>6, <1>7, <2>1, <2>2, <2>3
  <2>4. CASE crd # "v0.3.0"
    BY <1>2, <1>6, <2>1, <2>4
  <2> QED  BY <2>3, <2>4
<1>10. Injected'
  BY <1>1, <1>9 DEF Injected
<1> QED  BY <1>8, <1>10

\* Advice sets a leaf to the supported value.
LEMMA AdviceSupports ==
    ASSUME SpecInv, NEW r \in advice, r.advice # Absent
    PROVE  /\ r.field \in DOMAIN LEGACY_DEFAULTS \cap Leaves /\ r.field \notin TextLeaves
           /\ Merged(r.advice.patch) = [stored EXCEPT ![r.field] = Defaults[r.field]]
           /\ r.advice.crds_first = (Defaults[r.field] = Absent)
<1>1. r.field \in DOMAIN LEGACY_DEFAULTS \cap Leaves
  BY DEF SpecInv, Advises
<1>2. PICK l \in BOOLEAN : r.advice = remediation(r.field, l)
  BY DEF SpecInv, Advises
<1>3. r.field \notin TextLeaves
  BY <1>1, LegacyTable DEF TextLeaves
<1>4. /\ r.advice.patch = merge_patch(r.field)
      /\ r.advice.crds_first = needs_corrected_crds_first(r.field)
  <2> DEFINE first == needs_corrected_crds_first(r.field)
             whom  == CASE ~l -> "none"
                        [] l /\ LEGACY_DEFAULTS[r.field].parent = TopLevel -> "every resource"
                        [] OTHER -> "every opened block"
  <2>1. r.advice = [patch |-> merge_patch(r.field), crds_first |-> first, provenance |-> whom]
    BY <1>2 DEF remediation
  <2> HIDE DEF first, whom
  <2>2. r.advice.patch = merge_patch(r.field) /\ r.advice.crds_first = first
    BY <2>1
  <2> QED  BY <2>2 DEF first
<1>5. /\ ~r.advice.patch.whole_block /\ r.advice.patch.leaf = r.field
      /\ r.advice.patch.value = LEGACY_DEFAULTS[r.field].supported_value
  BY <1>4 DEF merge_patch
<1>6. LEGACY_DEFAULTS[r.field].supported_value = Defaults[r.field]
  BY <1>1, SupportedIsDefault DEF SpecInv
<1>7. Merged(r.advice.patch) = [stored EXCEPT ![r.field] = Defaults[r.field]]
  BY <1>5, <1>6 DEF Merged
<1>8. r.advice.crds_first = (Defaults[r.field] = Absent)
  BY <1>4, <1>6 DEF needs_corrected_crds_first, removes_the_key
<1> QED  BY <1>1, <1>3, <1>7, <1>8

\* A typed value may be written into any leaf.
LEMMA Edited ==
    ASSUME Storable(stored), NEW f \in Leaves, NEW v,
           f \notin TextLeaves => v \in Types[f] \cup {Absent}
    PROVE  /\ Storable([stored EXCEPT ![f] = v])
           /\ \A g \in Leaves \ {f} : [stored EXCEPT ![f] = v][g] = stored[g]
BY DEF Storable

\* What v0.3.0 left behind satisfies the invariant.
LEMMA SpecInit == Init => SpecInv
<1> SUFFICES ASSUME Init PROVE SpecInv
  OBVIOUS
<1> DEFINE none == [f \in Leaves |-> Absent]
<1>1. kind \in {"cluster", "topic"} /\ crd = "v0.3.0" /\ advice = {} /\ accepted = Absent
  BY DEF Init
<1>2. stored = Defaulted(crd, none, blocks)
  BY DEF Init
<1>3. DOMAIN stored = Leaves
      /\ \A f \in Leaves : stored[f] = IF Fills(f, none, blocks) THEN Default(crd, f) ELSE Absent
  BY <1>2 DEF Defaulted
<1>4. Storable(stored)
  BY <1>1, <1>3, DefaultTyped DEF Storable
<1>5. ASSUME NEW f \in DOMAIN OldDefaults \cap Leaves, stored[f] # Absent
      PROVE  stored[f] = OldDefaults[f]
  BY <1>1, <1>3, <1>5 DEF Default
<1>6. Injected
  BY <1>5 DEF Init, Injected
<1> QED  BY <1>1, <1>4, <1>6 DEF SpecInv

\* Every step preserves it: a write keeps the types, a reconciliation publishes
\* advice about what it read.
LEMMA SpecStep == SpecInv /\ [Next]_vars => SpecInv'
<1> SUFFICES ASSUME SpecInv, [Next]_vars PROVE SpecInv'
  OBVIOUS
<1> USE DEF SpecInv
<1>1. kind' = kind
  BY DEF Next, EditField, InstallCrds, RollBackCrds, FollowAdvice, Reconcile, vars
<1>2. /\ Leaves' = Leaves /\ Types' = Types /\ OldDefaults' = OldDefaults
      /\ \A s : (Storable(s) <=> Storable(s)') /\ (Readable(s) <=> Readable(s)')
      /\ \A r : Advises(r) <=> Advises(r)'
  BY <1>1 DEF Leaves, Defaults, Types, OldDefaults, Storable, Readable, Advises
<1>3. ASSUME NEW f \in DOMAIN Edits, NEW v \in Edits[f], EditField(f, v) PROVE SpecInv'
  <2>1. f \in Leaves /\ v \in Types[f] \cup {Absent}
    BY SpecUpgradeAssumption
       DEF Edits, Leaves, Defaults, Types, ClusterLeaves, TopicLeaves, TopicParent, TopicDefaults
  <2> DEFINE s == [stored EXCEPT ![f] = v]
  <2>2. Storable(s) /\ \A g \in Leaves \ {f} : s[g] = stored[g]
    BY <2>1, Edited
  <2>3. Write(s, blocks \cup Opened(f), {f})
    BY <1>3 DEF EditField
  <2> HIDE DEF s
  <2>4. Storable(stored)' /\ Injected'
    BY <1>1, <2>2, <2>3, WriteKeeps
  <2> QED  BY <1>1, <1>2, <1>3, <2>4 DEF EditField
<1>4. ASSUME NEW r \in advice, FollowAdvice(r) PROVE SpecInv'
  <2>1. r.advice # Absent
    BY <1>4 DEF FollowAdvice
  <2> DEFINE f == r.field
             s == [stored EXCEPT ![f] = Defaults[f]]
  <2>2. f \in Leaves /\ f \notin TextLeaves /\ Merged(r.advice.patch) = s
    BY <2>1, AdviceSupports
  <2>3. Defaults[f] \in Types[f] \cup {Absent}
    BY <2>2, DefaultsTyped
  <2>4. Storable(s) /\ \A g \in Leaves \ {f} : s[g] = stored[g]
    BY <2>2, <2>3, Edited
  <2>5. Write(s, blocks \cup Opened(f), {f})
    BY <1>4, <2>2 DEF FollowAdvice
  <2> HIDE DEF s
  <2>6. Storable(stored)' /\ Injected'
    BY <1>1, <2>4, <2>5, WriteKeeps
  <2> QED  BY <1>1, <1>2, <1>4, <2>6 DEF FollowAdvice
<1>5. CASE Reconcile
  <2>1. Readable(View)
    BY ViewReadable
  <2>2. accepted' # Absent => Readable(accepted)'
    BY <1>2, <1>5, <2>1 DEF Reconcile
  <2>3. ASSUME NEW r \in Rejections(View) PROVE Advises(r)
    <3>1. AdvisedRejection(View, r) \/ PlainRejection(View, r)
      BY <2>1, RejectionCases
    <3> QED  BY <3>1 DEF AdvisedRejection, PlainRejection, Advises, Rejection
  <2>4. \A r \in advice' : Advises(r)'
    BY <1>2, <1>5, <2>3 DEF Reconcile
  <2>5. Storable(stored)' /\ Injected' /\ crd' = crd
    BY <1>2, <1>5 DEF Reconcile, Injected
  <2> QED  BY <1>1, <2>2, <2>4, <2>5
<1>6. CASE InstallCrds \/ RollBackCrds \/ UNCHANGED vars
  <2>1. /\ UNCHANGED <<stored, injected, advice, accepted>>
        /\ crd' \in {"v0.3.0", "corrected"}
    BY <1>6 DEF InstallCrds, RollBackCrds, vars
  <2>2. Storable(stored)' /\ Injected'
    BY <1>2, <2>1 DEF Injected
  <2> QED  BY <1>1, <1>2, <2>1, <2>2
<1> QED  BY <1>3, <1>4, <1>5, <1>6 DEF Next

\* Types, advice and injected values, of every reachable state.
THEOREM SpecInvariance == Spec => []SpecInv
BY SpecInit, SpecStep, PTL DEF Spec

-------------------------------------------------------------------------------
\* Every rejection of a reachable state is of one of the two kinds.
LEMMA RejectionsOfView ==
    SpecInv => \A r \in Rejections(View) : AdvisedRejection(View, r) \/ PlainRejection(View, r)
BY ViewReadable, RejectionCases DEF SpecInv

\* A leaf in a block is only stored where the block is.
InBlocks == \A f \in Leaves : stored[f] # Absent => Parent(f) \in blocks \cup {TopLevel}

\* A write keeps it, if what it sets is in a block that it opens.
LEMMA WriteInBlocks ==
    ASSUME InBlocks, kind' = kind, NEW f \in Leaves, NEW v, DOMAIN stored = Leaves,
           Write([stored EXCEPT ![f] = v], blocks \cup Opened(f), {f})
    PROVE  InBlocks'
<1> DEFINE s  == [stored EXCEPT ![f] = v]
           bs == (blocks \cup Opened(f)) \cup SchemaBlocks(crd)
<1>1. Leaves' = Leaves /\ \A g : Parent(g)' = Parent(g)
  BY DEF Leaves, Defaults, Parent
<1>2. stored' = Defaulted(crd, s, bs) /\ blocks' = bs
  BY DEF Write
<1>3. ASSUME NEW g \in Leaves, s[g] # Absent PROVE Parent(g) \in bs \cup {TopLevel}
  <2>1. CASE g = f
    BY <2>1 DEF Opened
  <2>2. CASE g # f
    BY <1>3, <2>2 DEF InBlocks
  <2> QED  BY <2>1, <2>2
<1> HIDE DEF s, bs
<1>4. ASSUME NEW g \in Leaves, stored'[g] # Absent PROVE Parent(g) \in bs \cup {TopLevel}
  <2>1. CASE Fills(g, s, bs)
    BY <2>1 DEF Fills
  <2>2. CASE ~Fills(g, s, bs)
    <3>1. s[g] # Absent
      BY <1>2, <1>4, <2>2 DEF Defaulted
    <3> QED  BY <1>3, <3>1
  <2> QED  BY <2>1, <2>2
<1> QED  BY <1>1, <1>2, <1>4 DEF InBlocks

\* It holds of every reachable state.
LEMMA StoredInBlocks == Spec => []InBlocks
<1>1. Init => InBlocks
  BY DEF Init, InBlocks, Defaulted, Fills
<1>2. SpecInv /\ InBlocks /\ [Next]_vars => InBlocks'
  <2> SUFFICES ASSUME SpecInv, InBlocks, [Next]_vars PROVE InBlocks'
    OBVIOUS
  <2>1. kind' = kind /\ DOMAIN stored = Leaves
    BY DEF Next, EditField, InstallCrds, RollBackCrds, FollowAdvice, Reconcile, vars,
           SpecInv, Storable
  <2>2. ASSUME NEW f \in DOMAIN Edits, NEW v \in Edits[f], EditField(f, v) PROVE InBlocks'
    <3>1. f \in Leaves
      BY SpecUpgradeAssumption
         DEF Edits, Leaves, Defaults, ClusterLeaves, TopicLeaves, TopicParent, TopicDefaults
    <3> QED  BY <2>1, <2>2, <3>1, WriteInBlocks DEF EditField
  <2>3. ASSUME NEW r \in advice, FollowAdvice(r) PROVE InBlocks'
    <3>1. /\ r.field \in Leaves
          /\ Merged(r.advice.patch) = [stored EXCEPT ![r.field] = Defaults[r.field]]
      BY <2>3, AdviceSupports DEF FollowAdvice
    <3>2. Write([stored EXCEPT ![r.field] = Defaults[r.field]],
                blocks \cup Opened(r.field), {r.field})
      BY <2>3, <3>1 DEF FollowAdvice
    <3> QED  BY <2>1, <3>1, <3>2, WriteInBlocks
  <2>4. CASE Reconcile \/ InstallCrds \/ RollBackCrds \/ UNCHANGED vars
    BY <2>4 DEF Reconcile, InstallCrds, RollBackCrds, vars, InBlocks, Leaves, Defaults, Parent
  <2> QED  BY <2>2, <2>3, <2>4 DEF Next
<1> QED  BY <1>1, <1>2, SpecInvariance, PTL DEF Spec

\* None of the legacy values is the default that took its place.
LEMMA DefaultsChanged ==
    ASSUME kind \in {"cluster", "topic"}, NEW f \in DOMAIN LEGACY_DEFAULTS \cap Leaves
    PROVE  OldDefaults[f] # Defaults[f]
<1>1. \A n \in Int : Absent # n
  BY AbsentAssumption
<1>2. f \in {"replicas", "podAntiAffinity", "replicationFactor",
             "retentionMs", "minInsyncReplicas", "maxMessageBytes"}
  BY LegacyTable
<1>3. LEGACY_DEFAULTS[f].supported_value = Defaults[f]
      /\ LEGACY_DEFAULTS[f].legacy_value = OldDefaults[f]
  BY SupportedIsDefault, LegacyTable
<1>4. CASE f = "podAntiAffinity"
  <2>1. LEGACY_DEFAULTS["podAntiAffinity"].supported_value = FALSE
    BY SMT DEF LEGACY_DEFAULTS, LegacyDefault
  <2>2. LEGACY_DEFAULTS["podAntiAffinity"].legacy_value = TRUE
    BY SMT DEF LEGACY_DEFAULTS, LegacyDefault
  <2> QED  BY <1>3, <1>4, <2>1, <2>2
<1>5. CASE f \in {"replicas", "replicationFactor", "retentionMs"}
  <2>1. /\ LEGACY_DEFAULTS["replicas"].supported_value = 1
        /\ LEGACY_DEFAULTS["replicas"].legacy_value = 3
        /\ LEGACY_DEFAULTS["replicationFactor"].supported_value = 1
        /\ LEGACY_DEFAULTS["replicationFactor"].legacy_value = 2
        /\ LEGACY_DEFAULTS["retentionMs"].supported_value = -1
        /\ LEGACY_DEFAULTS["retentionMs"].legacy_value = 604800000
    BY SMT DEF LEGACY_DEFAULTS, LegacyDefault
  <2> QED  BY <1>3, <1>5, <2>1
<1>6. CASE f \in {"minInsyncReplicas", "maxMessageBytes"}
  <2>1. /\ LEGACY_DEFAULTS["minInsyncReplicas"].supported_value = Absent
        /\ LEGACY_DEFAULTS["minInsyncReplicas"].legacy_value = 1
        /\ LEGACY_DEFAULTS["maxMessageBytes"].supported_value = Absent
        /\ LEGACY_DEFAULTS["maxMessageBytes"].legacy_value = 1048576
    BY SMT DEF LEGACY_DEFAULTS, LegacyDefault
  <2> QED  BY <1>1, <1>3, <1>6, <2>1
<1> QED  BY <1>2, <1>4, <1>5, <1>6

\* Whatever was edited, followed, installed and rolled back: a value that
\* v0.3.0 filled in is never rejected without saying so, and what is said to be
\* from v0.3.0 has the value, and is at the place, that v0.3.0 filled in: in
\* every resource, or in a block that is there.
THEOREM Provenance == Spec => []InjectedIsExplained
<1>1. SpecInv /\ InBlocks => InjectedIsExplained
  <2> SUFFICES ASSUME SpecInv, InBlocks, NEW r \in Rejections(View)
               PROVE  /\ r.field \in injected =>
                            r.advice # Absent /\ r.advice.provenance # "none"
                      /\ r.advice # Absent /\ r.advice.provenance # "none" =>
                            /\ View[r.field] = OldDefaults[r.field]
                            /\ r.advice.provenance = "every resource"
                                  <=> Parent(r.field) = TopLevel
                            /\ Parent(r.field) \in blocks \cup {TopLevel}
    BY DEF InjectedIsExplained
  <2> DEFINE f == r.field
  <2>1. AdvisedRejection(View, r) \/ PlainRejection(View, r)
    BY RejectionsOfView
  <2>2. ASSUME f \in injected PROVE View[f] = LEGACY_DEFAULTS[f].legacy_value
    <3>1. f \in DOMAIN OldDefaults \cap Leaves /\ stored[f] = OldDefaults[f]
      BY <2>2 DEF SpecInv, Injected
    <3>2. stored[f] # Absent
      BY <3>1, OldDefaultsTyped DEF SpecInv
    <3>3. View[f] = stored[f]
      BY <3>1, <3>2 DEF View, ViewOf, Fills
    <3> QED  BY <3>1, <3>3, LegacyTable
  <2>3. CASE AdvisedRejection(View, r)
    <3>1. f \in DOMAIN LEGACY_DEFAULTS \cap Leaves
      BY <2>3 DEF AdvisedRejection
    <3>2. PICK l \in BOOLEAN : /\ l <=> View[f] = LEGACY_DEFAULTS[f].legacy_value
                               /\ r = Rejection(f, remediation(f, l))
      BY <2>3 DEF AdvisedRejection
    <3>3. r.advice = remediation(f, l)
      BY <3>2 DEF Rejection
    <3>4. r.advice # Absent
      BY <3>1, <3>3, AbsentAssumption
    <3>5. LEGACY_DEFAULTS[f].parent = Parent(f) /\ OldDefaults[f] = LEGACY_DEFAULTS[f].legacy_value
      BY <3>1, SupportedIsDefault, LegacyTable DEF SpecInv
    <3> DEFINE whom == CASE ~l -> "none"
                         [] l /\ LEGACY_DEFAULTS[f].parent = TopLevel -> "every resource"
                         [] OTHER -> "every opened block"
               first == needs_corrected_crds_first(f)
    <3>6. r.advice = [patch |-> merge_patch(f), crds_first |-> first, provenance |-> whom]
      BY <3>3 DEF remediation
    <3>7. /\ ~l => whom = "none"
          /\ l /\ Parent(f) = TopLevel => whom = "every resource"
          /\ l /\ Parent(f) # TopLevel => whom = "every opened block"
      BY <3>5
    <3> HIDE DEF whom, first
    <3>8. r.advice.provenance = whom
      BY <3>6
    <3>9. ASSUME Parent(f) \notin blocks \cup {TopLevel} PROVE View[f] # OldDefaults[f]
      <4>1. stored[f] = Absent /\ ~Fills(f, stored, blocks)
        BY <3>1, <3>9 DEF InBlocks, Fills
      <4>2. View[f] = Defaults[f]
        BY <3>1, <4>1 DEF View, ViewOf
      <4> QED  BY <3>1, <4>2, DefaultsChanged DEF SpecInv
    <3> QED  BY <2>2, <3>2, <3>4, <3>5, <3>7, <3>8, <3>9
  <2>4. CASE PlainRejection(View, r)
    <3>1. r.advice = Absent
      BY <2>4 DEF PlainRejection, Rejection
    <3>2. ASSUME f \in injected PROVE FALSE
      <4>1. f \in DOMAIN LEGACY_DEFAULTS
        BY <3>2, LegacyTable DEF SpecInv, Injected
      <4>2. f = "replicas" /\ View.replicas < 1
        BY <2>4, <4>1 DEF PlainRejection
      <4>3. View["replicas"] = LEGACY_DEFAULTS["replicas"].legacy_value
        BY <2>2, <3>2, <4>2
      <4>4. LEGACY_DEFAULTS["replicas"].legacy_value = 3
        BY SMT DEF LEGACY_DEFAULTS, LegacyDefault
      <4> QED  BY <4>2, <4>3, <4>4
    <3> QED  BY <3>1, <3>2
  <2> QED  BY <2>1, <2>3, <2>4
<1> QED  BY <1>1, SpecInvariance, StoredInBlocks, PTL

\* Advice that is followed in the order it asks for takes the rejection away,
\* however old it is and whatever was edited since.
THEOREM AdviceSticks == Spec => PatchSticks
<1>1. SpecInv' => (\A r \in Rejections(View) :
                      AdvisedRejection(View, r) \/ PlainRejection(View, r))'
  BY RejectionsOfView, PTL
<1>2. SpecInv /\ SpecInv' /\ [Next]_vars
         => [\A r \in advice :
               FollowAdvice(r) /\ (r.advice.crds_first => crd = "corrected")
                  => r.field \notin Advised']_vars
  <2> SUFFICES ASSUME SpecInv, SpecInv', NEW r \in advice, FollowAdvice(r),
                      r.advice.crds_first => crd = "corrected", r.field \in Advised'
               PROVE  FALSE
    OBVIOUS
  <2> DEFINE f  == r.field
             s  == [stored EXCEPT ![f] = Defaults[f]]
             bs == blocks \cup Opened(f) \cup SchemaBlocks(crd)
  <2>1. r.advice # Absent /\ kind' = kind /\ crd' = crd
    BY DEF FollowAdvice
  <2>2. /\ f \in DOMAIN LEGACY_DEFAULTS \cap Leaves
        /\ Merged(r.advice.patch) = s
        /\ Defaults[f] = Absent => crd = "corrected"
    BY <2>1, AdviceSupports
  <2>3. stored' = Defaulted(crd, s, bs)
    BY <2>2 DEF FollowAdvice, Write
  <2>4. Leaves' = Leaves /\ Defaults' = Defaults
    BY <2>1 DEF Leaves, Defaults
  <2>5. s[f] = Defaults[f] /\ (Defaults[f] = Absent => Default(crd, f) = Defaults[f])
    BY <2>2 DEF SpecInv, Storable, Default
  <2>6. stored'[f] = Defaults[f]
    BY <2>2, <2>3, <2>5 DEF Defaulted, Fills
  <2>7. View'[f] = Defaults[f]
    <3>1. View'[f] = ViewOf(f)'
      BY <2>2, <2>4 DEF View
    <3>2. Default(crd, f)' = Default(crd, f)
      BY <2>1, <2>4 DEF Default, OldDefaults
    <3> QED  BY <2>4, <2>5, <2>6, <3>1, <3>2 DEF ViewOf, Fills
  <2>8. PICK q \in Rejections(View)' : q.advice # Absent /\ q.field = f
    BY DEF Advised
  <2>9. (AdvisedRejection(View, q) \/ PlainRejection(View, q))'
    BY <1>1, <2>8
  <2>10. AdvisedRejection(View, q)'
    BY <2>8, <2>9 DEF PlainRejection, Rejection
  <2>11. View'[f] # LEGACY_DEFAULTS[f].supported_value
    BY <2>8, <2>10 DEF AdvisedRejection
  <2> QED  BY <2>2, <2>7, <2>11, SupportedIsDefault DEF SpecInv
<1> QED  BY <1>2, SpecInvariance, PTL DEF Spec, PatchSticks

\* Following a piece of advice, however old it is and whatever was edited
\* since, changes no setting that is there apart from the rejected one.
THEOREM SiblingsKept == Spec => AdviceKeepsSiblings
<1>1. SpecInv /\ [Next]_vars
         => [\A r \in advice : FollowAdvice(r) =>
               \A f \in Leaves \ {r.field} : stored[f] # Absent => stored'[f] = stored[f]]_vars
  <2> SUFFICES ASSUME SpecInv, NEW r \in advice, FollowAdvice(r),
                      NEW f \in Leaves \ {r.field}, stored[f] # Absent
               PROVE  stored'[f] = stored[f]
    OBVIOUS
  <2> DEFINE s == Merged(r.advice.patch)
             b == blocks \cup Opened(r.field) \cup SchemaBlocks(crd)
  <2>1. s = [stored EXCEPT ![r.field] = Defaults[r.field]]
    BY AdviceSupports DEF FollowAdvice
  <2>2. s[f] = stored[f]
    BY <2>1 DEF SpecInv, Storable
  <2>3. stored' = Defaulted(crd, s, b)
    BY DEF FollowAdvice, Write
  <2>4. ~Fills(f, s, b)
    BY <2>2 DEF Fills
  <2> QED  BY <2>2, <2>3, <2>4 DEF Defaulted
<1> QED  BY <1>1, SpecInvariance, PTL DEF Spec, AdviceKeepsSiblings

-------------------------------------------------------------------------------
(***************************************************************************)
(* The environment.                                                        *)
(***************************************************************************)
\* Induction: a set of naturals has a smallest element.
LEMMA Smallest ==
    ASSUME NEW T, T \subseteq Nat, T # {}
    PROVE  \E n \in T : \A m \in T : n <= m
<1> DEFINE less == OpToRel(<, Nat)
<1>1. \E n \in T : \A m \in T : <<m, n>> \notin less
  BY NatLessThanWellFounded, WFMin
<1>2. ASSUME NEW m \in Nat, NEW n \in Nat, m < n PROVE <<m, n>> \in less
  BY <1>2 DEF OpToRel
<1> HIDE DEF less
<1>3. PICK n \in T : \A m \in T : <<m, n>> \notin less
  BY <1>1
<1>4. \A m \in T : n <= m
  <2> SUFFICES ASSUME NEW m \in T PROVE n <= m
    OBVIOUS
  <2>1. m \in Nat /\ n \in Nat /\ ~(m < n)
    BY <1>2, <1>3
  <2> QED  BY <2>1
<1> QED  BY <1>4

\* A sequence is built up one element at a time.
LEMMA PrefixesGrow ==
    ASSUME NEW S, NEW e \in Seq(S)
    PROVE  /\ SubSeq(e, 1, 0) = <<>> /\ SubSeq(e, 1, Len(e)) = e
           /\ \A n \in 1..Len(e) : Append(SubSeq(e, 1, n - 1), e[n]) = SubSeq(e, 1, n)
<1>1. Len(e) \in Nat /\ \A i \in 1..Len(e) : e[i] \in S
  BY LenProperties, ElementOfSeq
<1>2. ASSUME NEW n \in 0..Len(e)
      PROVE  /\ SubSeq(e, 1, n) \in Seq(S) /\ Len(SubSeq(e, 1, n)) = n
             /\ \A i \in 1..n : SubSeq(e, 1, n)[i] = e[i]
  <2>1. \A i \in 1..n : e[i] \in S
    BY <1>1
  <2>2. n \in Int /\ (IF 1 <= n THEN n - 1 + 1 ELSE 0) = n
    BY <1>1
  <2> QED  BY <2>1, <2>2, SubSeqProperties
<1>3. SubSeq(e, 1, 0) = <<>>
  <2>1. SubSeq(e, 1, 0) \in Seq(S) /\ Len(SubSeq(e, 1, 0)) = 0
    BY <1>1, <1>2
  <2> QED  BY <2>1, EmptySeq
<1>4. SubSeq(e, 1, Len(e)) = e
  <2>1. Len(e) \in 0..Len(e)
    BY <1>1
  <2> QED  BY <1>2, <2>1, SeqEqual
<1>5. ASSUME NEW n \in 1..Len(e)
      PROVE  Append(SubSeq(e, 1, n - 1), e[n]) = SubSeq(e, 1, n)
  <2> DEFINE p == SubSeq(e, 1, n - 1)
             q == SubSeq(e, 1, n)
  <2>1. n - 1 \in 0..Len(e) /\ n \in 0..Len(e) /\ e[n] \in S
    BY <1>1
  <2>2. /\ p \in Seq(S) /\ Len(p) = n - 1 /\ \A i \in 1..(n - 1) : p[i] = e[i]
        /\ q \in Seq(S) /\ Len(q) = n /\ \A i \in 1..n : q[i] = e[i]
    BY <1>2, <2>1
  <2> HIDE DEF p, q
  <2> DEFINE a == Append(p, e[n])
  <2>3. /\ a \in Seq(S) /\ Len(a) = n /\ a[n] = e[n]
        /\ \A i \in 1..(n - 1) : a[i] = p[i]
    BY <2>1, <2>2, AppendProperties
  <2> HIDE DEF a
  <2>4. \A i \in 1..n : a[i] = q[i]
    BY <2>2, <2>3
  <2>5. a = q
    BY <2>2, <2>3, <2>4, SeqEqual
  <2> QED  BY <2>5 DEF a, p, q
<1> QED  BY <1>3, <1>4, <1>5

\* Entries that resolve and render to themselves are all kept, in order.
LEMMA UserEnvKept ==
    ASSUME NEW S, NEW s, s.env \in Seq(S),
           \A i \in 1..Len(s.env) : /\ resolve_source(s.env[i]) # Unresolved
                                    /\ render_env(s.env[i]) = s.env[i]
    PROVE  user_env(s) = s.env
<1> DEFINE e == s.env
           dropped(n) == resolve_source(s.env[n]) = Unresolved
           item(n)    == render_env(s.env[n])
           next(g, n) == IF n = 0 THEN <<>>
                         ELSE IF dropped(n) THEN g[n - 1] ELSE Append(g[n - 1], item(n))
           Unfolds(g) == g = [n \in 0..Len(s.env) |-> next(g, n)]
           rendered   == CHOOSE g : Unfolds(g)
           prefixes   == [n \in 0..Len(e) |-> SubSeq(e, 1, n)]
<1>1. user_env(s) = rendered[Len(e)]
  BY DEF user_env
<1>2. \A n \in 1..Len(e) : ~dropped(n) /\ item(n) = e[n]
  OBVIOUS
<1>3. Len(e) \in Nat
  BY LenProperties
<1>4. /\ SubSeq(e, 1, 0) = <<>> /\ SubSeq(e, 1, Len(e)) = e
      /\ \A n \in 1..Len(e) : Append(SubSeq(e, 1, n - 1), e[n]) = SubSeq(e, 1, n)
  <2>1. e \in Seq(S)
    OBVIOUS
  <2> HIDE DEF e
  <2> QED  BY <2>1, PrefixesGrow
<1> HIDE DEF dropped, item
<1>5. Unfolds(prefixes)
  <2>1. ASSUME NEW n \in 0..Len(e) PROVE next(prefixes, n) = SubSeq(e, 1, n)
    <3>1. CASE n = 0
      BY <1>4, <3>1
    <3>2. CASE n # 0
      <4>1. n \in 1..Len(e) /\ n - 1 \in 0..Len(e)
        BY <1>3, <3>2
      <4>2. next(prefixes, n) = Append(SubSeq(e, 1, n - 1), e[n])
        BY <1>2, <3>2, <4>1
      <4> QED  BY <1>4, <4>1, <4>2
    <3> QED  BY <3>1, <3>2
  <2> QED  BY <2>1
<1>6. Unfolds(rendered)
  BY <1>5
<1>7. \A n \in 0..Len(e) : rendered[n] = next(rendered, n)
  <2> HIDE DEF rendered
  <2> QED  BY <1>6
<1> HIDE DEF rendered
<1> DEFINE wrong == {n \in 0..Len(e) : rendered[n] # SubSeq(e, 1, n)}
<1>8. wrong = {}
  <2> SUFFICES ASSUME wrong # {} PROVE FALSE
    OBVIOUS
  <2>1. wrong \subseteq Nat
    BY <1>3
  <2>2. PICK n \in wrong : \A m \in wrong : n <= m
    BY <2>1, Smallest
  <2>3. n \in 0..Len(e) /\ rendered[n] # SubSeq(e, 1, n)
    BY <2>2
  <2>4. CASE n = 0
    BY <1>4, <1>7, <2>3, <2>4
  <2>5. CASE n # 0
    <3>1. n \in 1..Len(e) /\ n - 1 \in 0..Len(e) /\ ~(n <= n - 1)
      BY <1>3, <2>3, <2>5
    <3>2. rendered[n - 1] = SubSeq(e, 1, n - 1)
      BY <2>2, <3>1
    <3>3. rendered[n] = Append(rendered[n - 1], e[n])
      BY <1>2, <1>7, <2>5, <3>1
    <3> QED  BY <1>4, <2>3, <3>1, <3>2, <3>3
  <2> QED  BY <2>4, <2>5
<1>9. rendered[Len(e)] = SubSeq(e, 1, Len(e))
  BY <1>3, <1>8
<1> QED  BY <1>1, <1>4, <1>9

\* An entry that resolves has one source and renders to itself.
LEMMA ResolvedEntry ==
    ASSUME NEW e \in EnvVar, resolve_source(e) # Unresolved
    PROVE  /\ render_env(e) = e
           /\ e.value = Absent => /\ Cardinality(e.valueFrom) = 1
                                  /\ \A ref \in e.valueFrom : ~incomplete_ref(ref)
<1> DEFINE literal == e.name # "" /\ e.value # Absent /\ e.valueFrom = Absent
           source  == /\ e.name # "" /\ e.value = Absent /\ e.valueFrom # Absent
                      /\ Cardinality(e.valueFrom) = 1
                      /\ \A ref \in e.valueFrom : ~incomplete_ref(ref)
           chosen  == CHOOSE ref \in e.valueFrom : TRUE
<1>1. resolve_source(e) = CASE literal -> Literal [] source -> chosen [] OTHER -> Unresolved
  BY DEF resolve_source
<1>2. ~(literal /\ source)
  OBVIOUS
<1>3. /\ e = [name |-> e.name, value |-> e.value, valueFrom |-> e.valueFrom]
      /\ e.valueFrom # Absent => e.valueFrom \subseteq References /\ IsFiniteSet(e.valueFrom)
  BY DEF EnvVar, Optional
<1>4. CASE literal
  <2>1. resolve_source(e) = Literal
    <3> HIDE DEF literal, source, chosen
    <3> QED  BY <1>1, <1>2, <1>4
  <2> QED  BY <1>3, <1>4, <2>1 DEF render_env, LiteralEnv
<1>5. CASE source
  <2>1. resolve_source(e) = chosen
    <3> HIDE DEF literal, source, chosen
    <3> QED  BY <1>1, <1>2, <1>5
  <2>2. PICK ref : e.valueFrom = {ref}
    BY <1>3, <1>5, FS_Singleton
  <2>3. chosen = ref
    BY <2>2
  <2>4. ref \in References
    BY <1>3, <1>5, <2>2
  <2>5. ref # Literal
    <3>1. DOMAIN ref = {"kind", "name", "key"} /\ DOMAIN Literal = {"kind"}
      BY <2>4 DEF References, Literal
    <3> QED  BY <3>1
  <2>6. render_env(e) = SourceEnv(e.name, {ref})
    BY <2>1, <2>3, <2>5 DEF render_env, build_env_var_source
  <2>7. render_env(e) = e
    BY <1>3, <1>5, <2>2, <2>6 DEF SourceEnv
  <2> QED  BY <1>5, <2>7
<1>6. literal \/ source
  <2> HIDE DEF literal, source, chosen
  <2> QED  BY <1>1
<1> QED  BY <1>4, <1>5, <1>6

\* The sources of an accepted environment are all usable, so that no variable is
\* left out.
LEMMA AcceptedEnv ==
    ASSUME NEW s, validate(s) = {}, s.env \in Seq(EnvVar)
    PROVE  /\ user_env(s) = s.env
           /\ \A i \in 1..Len(s.env) : s.env[i].value = Absent =>
                 /\ Cardinality(s.env[i].valueFrom) = 1
                 /\ \A ref \in s.env[i].valueFrom : ~incomplete_ref(ref)
<1>1. DOMAIN s.env = 1..Len(s.env) /\ \A i \in 1..Len(s.env) : s.env[i] \in EnvVar
  BY LenProperties, ElementOfSeq
<1>2. \A i \in DOMAIN s.env : resolve_source(s.env[i]) # Unresolved
  BY NoErrors
<1>3. \A i \in 1..Len(s.env) : /\ resolve_source(s.env[i]) # Unresolved
                               /\ render_env(s.env[i]) = s.env[i]
  BY <1>1, <1>2, ResolvedEntry
<1>4. user_env(s) = s.env
  BY <1>3, UserEnvKept
<1> QED  BY <1>1, <1>2, <1>4, ResolvedEntry

\* Seven elements in a row.
LEMMA SevenInSeq ==
    ASSUME NEW S, NEW a \in S, NEW b \in S, NEW c \in S, NEW d \in S, NEW e \in S,
           NEW f \in S, NEW g \in S
    PROVE  <<a, b, c, d, e, f, g>> \in Seq(S)
OBVIOUS

\* The environment of a broker: the operator's seven entries, then the user's.
LEMMA BrokerEnv ==
    ASSUME NEW s, validate(s) = {}, s.env \in Seq(EnvVar)
    PROVE  LET env == build_container(s).env IN
           /\ Len(env) = 7 + Len(s.env) /\ Len(operator_env(s)) = 7
           /\ DOMAIN env = 1..(7 + Len(s.env))
           /\ \A i \in 1..7 : env[i] = operator_env(s)[i]
           /\ \A i \in 1..Len(s.env) : env[7 + i] = s.env[i]
<1> DEFINE own == operator_env(s)
           env == build_container(s).env
           n   == Len(s.env)
           S   == EnvVar \cup {own[i] : i \in 1..7}
<1>1. Len(own) = 7
  BY DEF operator_env
<1>2. own \in Seq(S)
  <2> DEFINE a == own[1]  b == own[2]  c == own[3]  d == own[4]
             e == own[5]  f == own[6]  g == own[7]
  <2>1. own = <<a, b, c, d, e, f, g>>
    BY DEF operator_env
  <2>2. a \in S /\ b \in S /\ c \in S /\ d \in S /\ e \in S /\ f \in S /\ g \in S
    <3> HIDE DEF own
    <3> QED  OBVIOUS
  <2> HIDE DEF own, a, b, c, d, e, f, g, S
  <2> QED  BY <2>1, <2>2, SevenInSeq
<1>3. s.env \in Seq(S)
  <2>1. n \in Nat /\ s.env \in [1..n -> EnvVar]
    BY LenProperties
  <2>2. s.env \in [1..n -> S]
    BY <2>1
  <2> HIDE DEF S
  <2> QED  BY <2>1, <2>2, SeqDef
<1>4. env = own \o s.env
  BY AcceptedEnv DEF build_container
<1>5. n \in Nat
  BY LenProperties
<1> HIDE DEF own, env, n, S
<1>6. /\ own \o s.env \in Seq(S)
      /\ Len(own \o s.env) = Len(own) + Len(s.env)
      /\ \A i \in 1..(Len(own) + Len(s.env)) :
            (own \o s.env)[i] = IF i <= Len(own) THEN own[i] ELSE s.env[i - Len(own)]
  BY <1>2, <1>3, ConcatProperties
<1>7. /\ Len(env) = 7 + n
      /\ \A i \in 1..(7 + n) : env[i] = IF i <= 7 THEN own[i] ELSE s.env[i - 7]
  BY <1>1, <1>4, <1>6 DEF n
<1>8. \A i \in 1..7 : env[i] = own[i]
  BY <1>5, <1>7
<1>9. \A i \in 1..n : env[7 + i] = s.env[i]
  <2> SUFFICES ASSUME NEW i \in 1..n PROVE env[7 + i] = s.env[i]
    OBVIOUS
  <2>1. 7 + i \in 1..(7 + n) /\ ~(7 + i <= 7) /\ (7 + i) - 7 = i
    BY <1>5
  <2> QED  BY <1>7, <2>1
<1>10. DOMAIN env = 1..(7 + n)
  BY <1>4, <1>6, <1>7, LenProperties
<1> QED  BY <1>1, <1>7, <1>8, <1>9, <1>10 DEF own, env, n

\* All variables are in the container, in order, behind the operator's own.
LEMMA EnvKept ==
    ASSUME NEW s, validate(s) = {}, s.env \in Seq(EnvVar)
    PROVE  EnvironmentKept(s)
<1> DEFINE env == build_container(s).env
           own == Len(operator_env(s))
<1>1. own = 7 /\ Len(env) = own + Len(s.env) /\ \A i \in 1..Len(s.env) : env[own + i] = s.env[i]
  BY BrokerEnv
<1>2. DOMAIN s.env = 1..Len(s.env)
  BY LenProperties
<1> HIDE DEF env, own
<1>3. \A i \in DOMAIN s.env :
        env[own + i] = s.env[i] /\ (env[own + i].value = Absent
                  => /\ Cardinality(env[own + i].valueFrom) = 1
                     /\ \A ref \in env[own + i].valueFrom : ~incomplete_ref(ref))
  BY <1>1, <1>2, AcceptedEnv
<1> QED  BY <1>1, <1>3 DEF EnvironmentKept, env, own

\* No two of the ports are the same.
LEMMA ThreePorts ==
    ASSUME NEW s, validate(s) = {}
    PROVE  Cardinality({s.kafkaPort, s.httpPort, s.raftPort}) = 3
<1> DEFINE same == \E i, j \in 1..3 : i # j /\ Ports(s)[i] = Ports(s)[j]
           k == s.kafkaPort
           h == s.httpPort
           r == s.raftPort
<1>1. ~same
  <2> DEFINE outside(g) == s[g] \notin 1..65535
             bad == {g \in {"kafkaPort", "httpPort", "raftPort"} : outside(g)}
  <2>1. port_errors(s) = bad \cup When(same, "ports")
    BY DEF port_errors
  <2> HIDE DEF same, bad
  <2> QED  BY <2>1, NoErrors DEF When
<1>2. k # h /\ k # r /\ h # r
  <2>1. Ports(s)[1] = k /\ Ports(s)[2] = h /\ Ports(s)[3] = r
    BY DEF Ports
  <2>2. 1 \in 1..3 /\ 2 \in 1..3 /\ 3 \in 1..3
    OBVIOUS
  <2> HIDE DEF k, h, r
  <2> QED  BY <1>1, <2>1, <2>2
<1> HIDE DEF k, h, r
<1>3. IsFiniteSet({k}) /\ Cardinality({k}) = 1
  BY FS_Singleton
<1>4. IsFiniteSet({k} \cup {h}) /\ Cardinality({k} \cup {h}) = 2
  BY <1>2, <1>3, FS_AddElement
<1>5. Cardinality(({k} \cup {h}) \cup {r}) = 3
  BY <1>2, <1>4, FS_AddElement
<1>6. ({k} \cup {h}) \cup {r} = {k, h, r}
  OBVIOUS
<1> QED  BY <1>5, <1>6 DEF k, h, r

\* The operator's entry is in force where the user has none of that name.
LEMMA OperatorsEntry ==
    ASSUME NEW env, NEW k \in 1..7, NEW n \in Nat, NEW name,
           DOMAIN env = 1..(7 + n),
           \A i \in 1..7 : env[i].name = name <=> i = k,
           \A i \in 1..n : env[7 + i].name # name
    PROVE  InForce(env, name) = env[k].value
<1> DEFINE named == {i \in DOMAIN env : env[i].name = name}
<1>1. ASSUME NEW i \in named PROVE i = k
  <2>1. i \in 1..(7 + n)
    BY <1>1
  <2>2. CASE i \in 1..7
    BY <1>1, <2>2
  <2>3. CASE i \notin 1..7
    <3>1. i - 7 \in 1..n /\ 7 + (i - 7) = i
      BY <2>1, <2>3
    <3> QED  BY <1>1, <3>1
  <2> QED  BY <2>2, <2>3
<1>2. k \in named
  BY SMT
<1> HIDE DEF named
<1>3. (CHOOSE i \in named : \A j \in named : j <= i) = k
  <2>1. \A j \in named : j <= k
    BY <1>1
  <2> QED  BY <1>1, <1>2, <2>1
<1> QED  BY <1>3 DEF InForce, named

\* The Services of an accepted cluster lead to the ports the broker is told to
\* listen on, unless the user tells it something else.
LEMMA AcceptedReachable ==
    ASSUME NEW s, validate(s) = {}, s.env \in Seq(EnvVar)
    PROVE  Reachable(s)
<1> DEFINE own == operator_env(s)
           env == build_container(s).env
           n   == Len(s.env)
<1>1. /\ own[1].name = "STREAMLINE_CONFIG" /\ own[2].name = "STREAMLINE_DATA_DIR"
      /\ own[3].name = "STREAMLINE_LISTEN_ADDR" /\ own[4].name = "STREAMLINE_HTTP_ADDR"
      /\ own[5].name = "STREAMLINE_LOG_LEVEL" /\ own[6].name = "POD_NAME"
      /\ own[7].name = "POD_NAMESPACE"
      /\ own[3].value = s.kafkaPort /\ own[4].value = s.httpPort
  BY DEF operator_env, LiteralEnv, SourceEnv
<1>2. /\ \A i \in 1..7 : env[i] = own[i]
      /\ \A i \in 1..n : env[7 + i] = s.env[i]
      /\ Len(env) = 7 + n
  BY BrokerEnv
<1>3. n \in Nat /\ DOMAIN s.env = 1..n
  BY LenProperties
<1>4. DOMAIN env = 1..(7 + n)
  BY BrokerEnv
<1> HIDE DEF own, env, n
<1>5. UserSets(s, "STREAMLINE_LISTEN_ADDR") \/ InForce(env, "STREAMLINE_LISTEN_ADDR") = s.kafkaPort
  <2> SUFFICES ASSUME ~UserSets(s, "STREAMLINE_LISTEN_ADDR")
               PROVE  InForce(env, "STREAMLINE_LISTEN_ADDR") = s.kafkaPort
    OBVIOUS
  <2>1. \A i \in 1..7 : env[i].name = "STREAMLINE_LISTEN_ADDR" <=> i = 3
    BY <1>1, <1>2
  <2>2. \A i \in 1..n : env[7 + i].name # "STREAMLINE_LISTEN_ADDR"
    BY <1>2, <1>3 DEF UserSets
  <2>3. InForce(env, "STREAMLINE_LISTEN_ADDR") = env[3].value
    <3>1. 3 \in 1..7
      OBVIOUS
    <3> QED  BY <1>3, <1>4, <2>1, <2>2, <3>1, OperatorsEntry
  <2>4. env[3].value = s.kafkaPort
    BY <1>1, <1>2
  <2> QED  BY <2>3, <2>4
<1>6. UserSets(s, "STREAMLINE_HTTP_ADDR") \/ InForce(env, "STREAMLINE_HTTP_ADDR") = s.httpPort
  <2> SUFFICES ASSUME ~UserSets(s, "STREAMLINE_HTTP_ADDR")
               PROVE  InForce(env, "STREAMLINE_HTTP_ADDR") = s.httpPort
    OBVIOUS
  <2>1. \A i \in 1..7 : env[i].name = "STREAMLINE_HTTP_ADDR" <=> i = 4
    BY <1>1, <1>2
  <2>2. \A i \in 1..n : env[7 + i].name # "STREAMLINE_HTTP_ADDR"
    BY <1>2, <1>3 DEF UserSets
  <2>3. InForce(env, "STREAMLINE_HTTP_ADDR") = env[4].value
    <3>1. 4 \in 1..7
      OBVIOUS
    <3> QED  BY <1>3, <1>4, <2>1, <2>2, <3>1, OperatorsEntry
  <2>4. env[4].value = s.httpPort
    BY <1>1, <1>2
  <2> QED  BY <2>3, <2>4
<1> DEFINE r == render(s)
           c == r.statefulset.template.container
<1>7. c = build_container(s) /\ c.env = env
  BY DEF render, build_statefulset, env
<1>8. /\ c.kafka = s.kafkaPort /\ c.http = s.httpPort /\ c.raft = s.raftPort
      /\ \A p \in DOMAIN c.probes : c.probes[p] = s.httpPort
  BY <1>7 DEF build_container
<1>9. /\ r.configmap.content.listen_addr = s.kafkaPort
      /\ r.configmap.content.http_addr = s.httpPort
  BY DEF render, build_configmap, render_config
<1>10. /\ r.headless.kafka = s.kafkaPort /\ r.headless.http = s.httpPort
       /\ r.client.kafka = s.kafkaPort /\ r.client.http = s.httpPort
       /\ r.headless.selector = {"name", "instance"} /\ r.client.selector = {"name", "instance"}
       /\ r.headless.name = "headless"
  BY DEF render, headless_service, client_service
<1>11. /\ r.statefulset.template.labels = {"name", "instance"}
       /\ r.statefulset.service_name = "headless"
  BY DEF render, build_statefulset, pod_selector
<1>12. Cardinality({c.kafka, c.http, c.raft}) = 3
  BY <1>8, ThreePorts
<1> HIDE DEF r, c
<1>13. /\ \A d \in {r.headless, r.client, c} :
             d.kafka = r.configmap.content.listen_addr /\ d.http = r.configmap.content.http_addr
       /\ \/ UserSets(s, "STREAMLINE_LISTEN_ADDR")
          \/ InForce(c.env, "STREAMLINE_LISTEN_ADDR") = c.kafka
       /\ \/ UserSets(s, "STREAMLINE_HTTP_ADDR")
          \/ InForce(c.env, "STREAMLINE_HTTP_ADDR") = c.http
       /\ \A p \in DOMAIN c.probes : c.probes[p] = c.http
       /\ \A d \in {r.headless, r.client} : d.selector \subseteq r.statefulset.template.labels
       /\ r.statefulset.service_name = r.headless.name
  BY <1>5, <1>6, <1>7, <1>8, <1>9, <1>10, <1>11
<1> QED  BY <1>12, <1>13 DEF Reachable, r, c

\* Whatever users edit and whichever CRDs are installed, the brokers of an
\* accepted cluster can be reached, unless the user's variables name other
\* listen addresses, and get all of their environment.
THEOREM Wired == Spec => []BrokersAreWired
<1>1. SpecInv /\ AcceptedIsValid => BrokersAreWired
  <2> SUFFICES ASSUME SpecInv, AcceptedIsValid, Renders
               PROVE  Reachable(accepted) /\ EnvironmentKept(accepted)
    BY DEF BrokersAreWired
  <2>1. validate(accepted) = {}
    BY DEF AcceptedIsValid
  <2>2. kind = "cluster" /\ Readable(accepted)
    BY DEF SpecInv, Renders
  <2>3. "env" \in Leaves \ TextLeaves
    BY <2>2 DEF Leaves, Defaults, ClusterDefaults, TextLeaves
  <2>4. ClusterTypes["env"] = Seq(EnvVar)
    BY DEF ClusterTypes
  <2>5. accepted.env \in Seq(EnvVar)
    BY <2>2, <2>3, <2>4 DEF Readable, Types
  <2> QED  BY <2>1, <2>5, AcceptedReachable, EnvKept
<1> QED  BY <1>1, SpecInvariance, AcceptedValid, PTL

-------------------------------------------------------------------------------
(***************************************************************************)
(* Nothing that is accepted is dropped: two accepted specs with the same   *)
(* effect differ in no setting but those that Effective names.             *)
(***************************************************************************)

\* A topic: everything but the number of partitions has its only value.
LEMMA TopicShown ==
    ASSUME kind = "topic", NEW s, NEW t, Readable(s), Readable(t),
           unsupported_fields(s) = {}, unsupported_fields(t) = {},
           s.partitions = t.partitions
    PROVE  \A f \in Leaves : s[f] = t[f]
<1>1. ASSUME NEW u, Readable(u), unsupported_fields(u) = {}
      PROVE  /\ u.replicationFactor = 1 /\ u.custom = {}
             /\ \A f \in DOMAIN config_defaults : u[f] = config_defaults[f]
             /\ \A f \in ConfigLeaves : u[f] = Absent
  <2> DEFINE reject(f) == Rejection(f, remediation_for_value(f, u[f]))
             factor == Rejection("replicationFactor",
                           remediation_for("replicationFactor", u.replicationFactor = 2))
             differ == {g \in DOMAIN config_defaults : u[g] # config_defaults[g]}
             given  == {g \in ConfigLeaves : u[g] # Absent}
             wrong  == u.replicationFactor # 1
             rest   == When(u.partitions < 1, Rejection("partitions", Absent))
  <2>1. unsupported_fields(u) =
           When(wrong, factor) \cup rest
           \cup {reject(f) : f \in differ} \cup {reject(f) : f \in given}
           \cup {Rejection("custom", Absent) : k \in u.custom}
    BY DEF unsupported_fields
  <2>2. u.custom \in SUBSET STRING
    <3>1. "custom" \in Leaves \ TextLeaves /\ Types = TopicTypes
      BY DEF Leaves, Defaults, TopicDefaults, TextLeaves, Types
    <3>2. TopicTypes["custom"] = SUBSET STRING
      BY DEF TopicTypes
    <3> QED  BY <1>1, <3>1, <3>2 DEF Readable
  <2> HIDE DEF reject, factor, wrong, rest, differ, given
  <2>3. ~wrong /\ differ = {} /\ given = {} /\ u.custom = {}
    BY <1>1, <2>1, <2>2 DEF When
  <2> QED  BY <2>3 DEF wrong, differ, given
<1>2. Leaves = {"partitions", "replicationFactor", "custom"}
               \cup DOMAIN config_defaults \cup ConfigLeaves
  <2>1. Leaves = TopicLeaves
    BY DEF Leaves, Defaults, TopicLeaves, TopicParent, TopicDefaults
  <2>2. DOMAIN config_defaults = {"retentionMs", "retentionBytes", "cleanupPolicy", "compression"}
    BY DEF config_defaults
  <2>3. TopicLeaves = {"partitions", "replicationFactor", "retentionMs", "retentionBytes",
                       "cleanupPolicy", "compression", "minInsyncReplicas",
                       "maxMessageBytes", "segmentBytes", "indexIntervalBytes",
                       "flushIntervalMs", "flushMessages", "custom"}
    BY DEF TopicLeaves, TopicParent
  <2>4. \A f \in {"minInsyncReplicas", "maxMessageBytes", "segmentBytes",
                  "indexIntervalBytes", "flushIntervalMs", "flushMessages"} : f \in ConfigLeaves
    BY DEF TopicLeaves, TopicParent, ConfigLeaves
  <2>5. ConfigLeaves \subseteq TopicLeaves
    BY DEF ConfigLeaves
  <2> QED  BY <2>1, <2>2, <2>3, <2>4, <2>5
<1> QED  BY <1>1, <1>2

\* A cluster: the four leaves that Effective changes, and the others.
EffectiveTls(s) ==
    IF ~Tls(s) THEN Absent
    ELSE IF Mtls(s) THEN s.tls ELSE [s.tls EXCEPT !.caSecretName = Absent]

\* Effective, leaf by leaf.
LEMMA EffectiveLeaves ==
    ASSUME kind = "cluster", NEW s, DOMAIN s = ClusterLeaves
    PROVE  Effective(s) = [f \in ClusterLeaves |->
               CASE f = "metricsEnabled" -> TRUE
                 [] f = "autoscaling" -> Absent
                 [] f = "updateStrategy" -> build_update_strategy(s.updateStrategy)
                 [] f = "tls" -> EffectiveTls(s)
                 [] OTHER -> s[f]]
<1> DEFINE u == build_update_strategy(s.updateStrategy)
           t == EffectiveTls(s)
<1>1. Effective(s) = [s EXCEPT !.metricsEnabled = TRUE, !.autoscaling = Absent,
                               !.updateStrategy = u, !.tls = t]
  BY DEF Effective, EffectiveTls
<1> HIDE DEF u, t
<1>2. [s EXCEPT !.metricsEnabled = TRUE, !.autoscaling = Absent,
                !.updateStrategy = u, !.tls = t]
         = [f \in ClusterLeaves |->
               CASE f = "metricsEnabled" -> TRUE
                 [] f = "autoscaling" -> Absent
                 [] f = "updateStrategy" -> u
                 [] f = "tls" -> t
                 [] OTHER -> s[f]]
  OBVIOUS
<1> QED  BY <1>1, <1>2 DEF u, t

\* A storage block has three settings (the default has them, and the API server
\* lets no other pass).
Shaped(v) == v = [storageClassName |-> v.storageClassName, size |-> v.size,
                  accessModes |-> v.accessModes]

\* What render shows of a spec as it is.
LEMMA ShownAsIs ==
    ASSUME NEW s, NEW t, render(s) = render(t)
    PROVE  /\ s.kafkaPort = t.kafkaPort /\ s.httpPort = t.httpPort /\ s.raftPort = t.raftPort
           /\ s.logLevel = t.logLevel /\ s.replicas = t.replicas
           /\ s.image = t.image /\ s.imagePullPolicy = t.imagePullPolicy
           /\ s.serviceAccountName = t.serviceAccountName
           /\ NonEmpty(s.nodeSelector) = NonEmpty(t.nodeSelector)
           /\ s.storage.storageClassName = t.storage.storageClassName
           /\ s.storage.size = t.storage.size
           /\ s.storage.accessModes = t.storage.accessModes
           /\ build_update_strategy(s.updateStrategy) = build_update_strategy(t.updateStrategy)
           /\ tls_files(s) = tls_files(t) /\ build_volumes(s) = build_volumes(t)
           /\ quantities(s.resources.limits) = quantities(t.resources.limits)
           /\ quantities(s.resources.requests) = quantities(t.resources.requests)
           /\ build_container(s).env = build_container(t).env
<1>1. ASSUME NEW u
      PROVE  /\ render(u).configmap.content = render_config(u)
             /\ render(u).headless.raft = u.raftPort
             /\ render(u).statefulset = build_statefulset(u)
  BY DEF render, build_configmap, headless_service
<1>2. render_config(s) = render_config(t) /\ s.raftPort = t.raftPort
      /\ build_statefulset(s) = build_statefulset(t)
  BY <1>1
<1>3. ASSUME NEW u
      PROVE  /\ render_config(u).listen_addr = u.kafkaPort
             /\ render_config(u).http_addr = u.httpPort
             /\ render_config(u).log_level = u.logLevel
             /\ render_config(u).tls_files = tls_files(u)
  BY DEF render_config
<1>4. /\ s.kafkaPort = t.kafkaPort /\ s.httpPort = t.httpPort
      /\ s.logLevel = t.logLevel /\ tls_files(s) = tls_files(t)
  BY <1>2, <1>3
<1>5. ASSUME NEW u
      PROVE  /\ build_statefulset(u).replicas = u.replicas
             /\ build_statefulset(u).template.container = build_container(u)
             /\ build_statefulset(u).template.serviceAccountName = u.serviceAccountName
             /\ build_statefulset(u).template.nodeSelector = NonEmpty(u.nodeSelector)
             /\ build_statefulset(u).template.volumes = build_volumes(u)
             /\ build_statefulset(u).claims = build_volume_claim_templates(u.storage)
             /\ build_statefulset(u).update_strategy = build_update_strategy(u.updateStrategy)
  BY DEF build_statefulset
<1>6. /\ s.replicas = t.replicas /\ build_container(s) = build_container(t)
      /\ s.serviceAccountName = t.serviceAccountName
      /\ NonEmpty(s.nodeSelector) = NonEmpty(t.nodeSelector)
      /\ build_volumes(s) = build_volumes(t)
      /\ build_volume_claim_templates(s.storage) = build_volume_claim_templates(t.storage)
      /\ build_update_strategy(s.updateStrategy) = build_update_strategy(t.updateStrategy)
  BY <1>2, <1>5
<1>7. ASSUME NEW u
      PROVE  /\ build_container(u).image = u.image
             /\ build_container(u).imagePullPolicy = u.imagePullPolicy
             /\ build_container(u).resources.limits = quantities(u.resources.limits)
             /\ build_container(u).resources.requests = quantities(u.resources.requests)
  BY DEF build_container, build_resources
<1>8. /\ s.image = t.image /\ s.imagePullPolicy = t.imagePullPolicy
      /\ quantities(s.resources.limits) = quantities(t.resources.limits)
      /\ quantities(s.resources.requests) = quantities(t.resources.requests)
      /\ build_container(s).env = build_container(t).env
  BY <1>6, <1>7
<1>9. /\ s.storage.storageClassName = t.storage.storageClassName
      /\ s.storage.size = t.storage.size
      /\ s.storage.accessModes = t.storage.accessModes
  BY <1>6 DEF build_volume_claim_templates
<1> QED  BY <1>2, <1>4, <1>6, <1>8, <1>9

\* A block that is left out when it is empty is still known.
LEMMA BlockShown ==
    ASSUME NEW A, NEW B, NonEmpty(A) = NonEmpty(B)
    PROVE  A = B
BY DEF NonEmpty

\* Quantities are copied.
LEMMA QuantitiesShown ==
    ASSUME NEW a \in Quantities, NEW b \in Quantities, quantities(a) = quantities(b)
    PROVE  a = b
<1> DEFINE given(l) == {<<k, l[k]>> : k \in {i \in {"cpu", "memory"} : l[i] # Absent}}
<1>1. given(a) = given(b)
  <2>1. NonEmpty(given(a)) = NonEmpty(given(b))
    BY DEF quantities
  <2> HIDE DEF given
  <2> QED  BY <2>1, BlockShown
<1>2. ASSUME NEW l, NEW k \in {"cpu", "memory"}, NEW v
      PROVE  <<k, v>> \in given(l) <=> (l[k] # Absent /\ v = l[k])
  OBVIOUS
<1> HIDE DEF given
<1>3. ASSUME NEW k \in {"cpu", "memory"} PROVE a[k] = b[k]
  <2>1. CASE a[k] # Absent
    <3>1. <<k, a[k]>> \in given(b)
      BY <1>1, <1>2, <2>1
    <3> QED  BY <1>2, <3>1
  <2>2. CASE a[k] = Absent
    <3>1. ~(b[k] # Absent)
      <4> SUFFICES ASSUME b[k] # Absent PROVE FALSE
        OBVIOUS
      <4>1. <<k, b[k]>> \in given(a)
        BY <1>1, <1>2
      <4> QED  BY <1>2, <2>2, <4>1
    <3> QED  BY <2>2, <3>1
  <2> QED  BY <2>1, <2>2
<1> QED  BY <1>3 DEF Quantities

\* The user's part of the environment.
LEMMA EnvShown ==
    ASSUME NEW s, NEW t, validate(s) = {}, validate(t) = {},
           s.env \in Seq(EnvVar), t.env \in Seq(EnvVar),
           build_container(s).env = build_container(t).env
    PROVE  s.env = t.env
<1> DEFINE e == build_container(s).env
           f == build_container(t).env
           n == Len(s.env)
           m == Len(t.env)
<1>1. /\ Len(e) = 7 + n /\ \A i \in 1..n : e[7 + i] = s.env[i]
      /\ Len(f) = 7 + m /\ \A i \in 1..m : f[7 + i] = t.env[i]
  BY BrokerEnv
<1>2. n \in Nat /\ m \in Nat
  BY LenProperties
<1>3. e = f
  OBVIOUS
<1> HIDE DEF e, f
<1>4. n = m
  <2>1. 7 + n = 7 + m
    BY <1>1, <1>3
  <2> HIDE DEF n, m
  <2> QED  BY <1>2, <2>1
<1>5. \A i \in 1..n : s.env[i] = t.env[i]
  BY <1>1, <1>3, <1>4
<1> QED  BY <1>4, <1>5, SeqEqual DEF n, m

\* A TLS block with another CA Secret.
TlsBlock(e, n, m, c, i) ==
    [enabled |-> e, secretName |-> n, mtlsEnabled |-> m, caSecretName |-> c,
     insecureSkipVerify |-> i]

\* Another CA in a TLS block.
LEMMA OtherCa ==
    ASSUME NEW e, NEW n, NEW m, NEW c, NEW i, NEW x
    PROVE  [TlsBlock(e, n, m, c, i) EXCEPT !.caSecretName = x] = TlsBlock(e, n, m, x, i)
BY DEF TlsBlock

\* The volumes show the TLS settings, and validation leaves no choice for the
\* one that has no volume.
LEMMA TlsShown ==
    ASSUME NEW s, NEW t, validate(s) = {}, validate(t) = {},
           s.tls \in Optional(ClusterTls), t.tls \in Optional(ClusterTls),
           build_volumes(s) = build_volumes(t)
    PROVE  EffectiveTls(s) = EffectiveTls(t)
<1> DEFINE secret(v) == Volume("tls", TLS_MOUNT_PATH, v)
           ca(v)     == Volume("tls-ca", TLS_CA_MOUNT_PATH, v)
<1>1. ASSUME NEW u, validate(u) = {}, u.tls \in Optional(ClusterTls)
      PROVE  /\ \A v : secret(v) \in build_volumes(u) <=> (Tls(u) /\ v = u.tls.secretName)
             /\ \A v : ca(v) \in build_volumes(u) <=> (Mtls(u) /\ v = u.tls.caSecretName)
             /\ Tls(u) => u.tls = [enabled |-> TRUE, secretName |-> u.tls.secretName,
                                   mtlsEnabled |-> Mtls(u), caSecretName |-> u.tls.caSecretName,
                                   insecureSkipVerify |-> FALSE]
             /\ Mtls(u) => Tls(u)
  <2>1. build_volumes(u) = Mounts(u) \ {Volume("data", DataPath, "data")}
    BY <1>1, MountsOfAccepted
  <2>2. \A v : secret(v) \in build_volumes(u) <=> (Tls(u) /\ v = u.tls.secretName)
    BY <2>1 DEF Mounts, Volume
  <2>3. \A v : ca(v) \in build_volumes(u) <=> (Mtls(u) /\ v = u.tls.caSecretName)
    BY <2>1 DEF Mounts, Volume
  <2>4. ASSUME Tls(u)
        PROVE  u.tls = [enabled |-> TRUE, secretName |-> u.tls.secretName,
                        mtlsEnabled |-> Mtls(u), caSecretName |-> u.tls.caSecretName,
                        insecureSkipVerify |-> FALSE]
    <3>1. u.tls # Absent /\ u.tls.enabled /\ u.tls \in ClusterTls
      BY <1>1, <2>4 DEF Tls, Optional
    <3>2. ~u.tls.insecureSkipVerify
      BY <1>1, <3>1, NoErrors DEF tls_errors, When
    <3>3. Mtls(u) <=> u.tls.mtlsEnabled
      BY <2>4 DEF Mtls
    <3>4. Mtls(u) \in BOOLEAN
      BY DEF Mtls
    <3> DEFINE m == Mtls(u)
    <3>5. m \in BOOLEAN /\ (m <=> u.tls.mtlsEnabled)
      BY <3>3, <3>4
    <3> HIDE DEF m
    <3>6. /\ u.tls.enabled = TRUE /\ u.tls.insecureSkipVerify = FALSE /\ u.tls.mtlsEnabled = m
      BY <3>1, <3>2, <3>5 DEF ClusterTls
    <3>7. u.tls = [enabled |-> TRUE, secretName |-> u.tls.secretName,
                   mtlsEnabled |-> m, caSecretName |-> u.tls.caSecretName,
                   insecureSkipVerify |-> FALSE]
      BY <3>1, <3>6 DEF ClusterTls
    <3> QED  BY <3>7 DEF m
  <2>5. Mtls(u) => Tls(u)
    BY DEF Mtls
  <2> QED  BY <2>2, <2>3, <2>4, <2>5
<1>2. (Tls(s) <=> Tls(t)) /\ (Tls(s) => s.tls.secretName = t.tls.secretName)
  <2>1. secret(s.tls.secretName) \in build_volumes(s)
           <=> (Tls(t) /\ s.tls.secretName = t.tls.secretName)
    BY <1>1
  <2>2. secret(t.tls.secretName) \in build_volumes(t)
           <=> (Tls(s) /\ t.tls.secretName = s.tls.secretName)
    BY <1>1
  <2>3. /\ secret(s.tls.secretName) \in build_volumes(s) <=> Tls(s)
        /\ secret(t.tls.secretName) \in build_volumes(t) <=> Tls(t)
    BY <1>1
  <2> HIDE DEF secret
  <2> QED  BY <2>1, <2>2, <2>3
<1>3. (Mtls(s) <=> Mtls(t)) /\ (Mtls(s) => s.tls.caSecretName = t.tls.caSecretName)
  <2>1. ca(s.tls.caSecretName) \in build_volumes(s)
           <=> (Mtls(t) /\ s.tls.caSecretName = t.tls.caSecretName)
    BY <1>1
  <2>2. ca(t.tls.caSecretName) \in build_volumes(t)
           <=> (Mtls(s) /\ t.tls.caSecretName = s.tls.caSecretName)
    BY <1>1
  <2>3. /\ ca(s.tls.caSecretName) \in build_volumes(s) <=> Mtls(s)
        /\ ca(t.tls.caSecretName) \in build_volumes(t) <=> Mtls(t)
    BY <1>1
  <2> HIDE DEF ca
  <2> QED  BY <2>1, <2>2, <2>3
<1>4. CASE ~Tls(s)
  BY <1>2, <1>4 DEF EffectiveTls
<1>5. ASSUME Tls(s) PROVE EffectiveTls(s) = EffectiveTls(t)
  <2> DEFINE on  == TRUE
             off == FALSE
             block(n, m, c) == TlsBlock(on, n, m, c, off)
  <2>1. /\ s.tls = block(s.tls.secretName, Mtls(s), s.tls.caSecretName)
        /\ t.tls = block(t.tls.secretName, Mtls(t), t.tls.caSecretName)
    BY <1>1, <1>2, <1>5 DEF TlsBlock
  <2> HIDE DEF on, off
  <2>2. CASE Mtls(s)
    <3>1. s.tls = block(s.tls.secretName, on, s.tls.caSecretName)
          /\ t.tls = block(t.tls.secretName, on, t.tls.caSecretName)
      <4>1. Mtls(s) = on /\ Mtls(t) = on
        BY <1>3, <2>2 DEF Mtls, on
      <4> QED  BY <2>1, <4>1
    <3> HIDE DEF block
    <3>2. s.tls = t.tls
      BY <1>2, <1>3, <1>5, <2>2, <3>1
    <3> QED  BY <1>2, <1>3, <1>5, <2>2, <3>2 DEF EffectiveTls
  <2>3. CASE ~Mtls(s)
    <3>1. s.tls = block(s.tls.secretName, off, s.tls.caSecretName)
          /\ t.tls = block(t.tls.secretName, off, t.tls.caSecretName)
      <4>1. Mtls(s) = off /\ Mtls(t) = off
        BY <1>3, <2>3 DEF Mtls, off
      <4> QED  BY <2>1, <4>1
    <3>2. ASSUME NEW n, NEW c
          PROVE  [block(n, off, c) EXCEPT !.caSecretName = Absent] = block(n, off, Absent)
      BY OtherCa
    <3> HIDE DEF block
    <3>3. [s.tls EXCEPT !.caSecretName = Absent] = block(s.tls.secretName, off, Absent)
      BY <3>1, <3>2
    <3>4. [t.tls EXCEPT !.caSecretName = Absent] = block(t.tls.secretName, off, Absent)
      BY <3>1, <3>2
    <3>5. EffectiveTls(s) = [s.tls EXCEPT !.caSecretName = Absent]
      BY <1>5, <2>3 DEF EffectiveTls
    <3>6. EffectiveTls(t) = [t.tls EXCEPT !.caSecretName = Absent]
      BY <1>2, <1>3, <1>5, <2>3 DEF EffectiveTls
    <3> QED  BY <1>2, <1>5, <3>3, <3>4, <3>5, <3>6
  <2> QED  BY <2>2, <2>3
<1> QED  BY <1>4, <1>5

\* The leaves that validation leaves one value only.
LEMMA OneValue ==
    ASSUME NEW s, validate(s) = {}, s.tolerations \in Nat,
           s.podAntiAffinity \in BOOLEAN, s.rackAwareness \in BOOLEAN
    PROVE  s.tolerations = 0 /\ s.podAntiAffinity = FALSE /\ s.rackAwareness = FALSE
<1>1. ~s.podAntiAffinity
  <2> DEFINE r == Rejection("podAntiAffinity", remediation_for("podAntiAffinity", TRUE))
  <2>1. When(s.podAntiAffinity, r) = {}
    BY DEF validate
  <2> HIDE DEF r
  <2> QED  BY <2>1 DEF When
<1>2. plain_errors(s) = {}
  <2> SUFFICES ASSUME NEW f \in plain_errors(s) PROVE FALSE
    OBVIOUS
  <2>1. Rejection(f, Absent) \in validate(s)
    BY DEF validate
  <2> QED  BY <2>1
<1>3. When(s.rackAwareness, "rackAwareness.enabled") = {}
      /\ When(s.tolerations > 0, "tolerations") = {}
  BY <1>2 DEF plain_errors
<1>4. ~s.rackAwareness
  BY <1>3 DEF When
<1>5. ~(s.tolerations > 0)
  BY <1>3 DEF When
<1>6. s.tolerations = 0
  BY <1>5
<1> QED  BY <1>1, <1>4, <1>6

\* What Reconcile hands on.
Accepts(s) ==
    /\ s = [f \in Leaves |-> s[f]] /\ Readable(s) /\ Rejections(s) = {}
    /\ kind = "cluster" => Shaped(s.storage)

\* A cluster: leaf by leaf.
LEMMA ClusterShown ==
    ASSUME kind = "cluster", NEW s, NEW t, Accepts(s), Accepts(t), render(s) = render(t)
    PROVE  Effective(s) = Effective(t)
<1>1. ASSUME NEW u, Accepts(u)
      PROVE  /\ DOMAIN u = ClusterLeaves /\ validate(u) = {}
             /\ u.env \in Seq(EnvVar) /\ u.tls \in Optional(ClusterTls)
             /\ u.resources \in [limits : Quantities, requests : Quantities]
             /\ u.tolerations \in Nat /\ u.podAntiAffinity \in BOOLEAN
             /\ u.rackAwareness \in BOOLEAN
  <2>1. Leaves = ClusterLeaves /\ Types = ClusterTypes
    BY DEF Leaves, Defaults, ClusterLeaves, Types
  <2>2. {"env", "tls", "resources", "tolerations", "podAntiAffinity", "rackAwareness"}
           \subseteq ClusterLeaves \ TextLeaves
    BY DEF ClusterLeaves, ClusterDefaults, TextLeaves
  <2>3. /\ ClusterTypes["env"] = Seq(EnvVar) /\ ClusterTypes["tls"] = Optional(ClusterTls)
        /\ ClusterTypes["resources"] = [limits : Quantities, requests : Quantities]
        /\ ClusterTypes["tolerations"] = Nat /\ ClusterTypes["podAntiAffinity"] = BOOLEAN
        /\ ClusterTypes["rackAwareness"] = BOOLEAN
    BY DEF ClusterTypes
  <2>4. \A f \in ClusterLeaves \ TextLeaves : u[f] \in ClusterTypes[f]
    BY <1>1, <2>1 DEF Accepts, Readable
  <2>5. DOMAIN u = ClusterLeaves /\ validate(u) = {}
    BY <1>1, <2>1 DEF Accepts, Readable, Rejections
  <2>6. \A f \in {"env", "tls", "resources", "tolerations", "podAntiAffinity", "rackAwareness"} :
           u[f] \in ClusterTypes[f]
    BY <2>2, <2>4
  <2>7. u["env"] \in Seq(EnvVar)
    BY <2>3, <2>6
  <2>8. u["tls"] \in Optional(ClusterTls)
    BY <2>3, <2>6
  <2>9. u["resources"] \in [limits : Quantities, requests : Quantities]
    BY <2>3, <2>6
  <2>10. u["tolerations"] \in Nat
    BY <2>3, <2>6
  <2>11. u["podAntiAffinity"] \in BOOLEAN /\ u["rackAwareness"] \in BOOLEAN
    BY <2>3, <2>6
  <2> QED  BY <2>5, <2>7, <2>8, <2>9, <2>10, <2>11
<1>2. \A f \in {"kafkaPort", "httpPort", "raftPort", "logLevel", "replicas", "image",
                "imagePullPolicy", "serviceAccountName"} : s[f] = t[f]
  BY ShownAsIs
<1>3. s.nodeSelector = t.nodeSelector
  BY ShownAsIs, BlockShown
<1>4. s.storage = t.storage
  <2>1. Shaped(s.storage) /\ Shaped(t.storage)
    BY DEF Accepts
  <2> QED  BY <2>1, ShownAsIs DEF Shaped
<1>5. s.resources = t.resources
  <2>1. ASSUME NEW u, Accepts(u)
        PROVE  /\ u.resources.limits \in Quantities /\ u.resources.requests \in Quantities
               /\ u.resources = [limits |-> u.resources.limits, requests |-> u.resources.requests]
    BY <1>1, <2>1
  <2>2. s.resources.limits = t.resources.limits
    <3>1. quantities(s.resources.limits) = quantities(t.resources.limits)
      BY ShownAsIs
    <3>2. s.resources.limits \in Quantities /\ t.resources.limits \in Quantities
      BY <2>1
    <3> QED  BY <3>1, <3>2, QuantitiesShown
  <2>3. s.resources.requests = t.resources.requests
    <3>1. quantities(s.resources.requests) = quantities(t.resources.requests)
      BY ShownAsIs
    <3>2. s.resources.requests \in Quantities /\ t.resources.requests \in Quantities
      BY <2>1
    <3> QED  BY <3>1, <3>2, QuantitiesShown
  <2> QED  BY <2>1, <2>2, <2>3
<1>6. s.env = t.env
  BY <1>1, ShownAsIs, EnvShown
<1>7. EffectiveTls(s) = EffectiveTls(t)
  BY <1>1, ShownAsIs, TlsShown
<1>8. /\ s.tolerations = t.tolerations /\ s.podAntiAffinity = t.podAntiAffinity
      /\ s.rackAwareness = t.rackAwareness
  BY <1>1, OneValue
<1>9. build_update_strategy(s.updateStrategy) = build_update_strategy(t.updateStrategy)
  BY ShownAsIs
<1> DEFINE leaf(u, f) == CASE f = "metricsEnabled" -> TRUE
                           [] f = "autoscaling" -> Absent
                           [] f = "updateStrategy" -> build_update_strategy(u.updateStrategy)
                           [] f = "tls" -> EffectiveTls(u)
                           [] OTHER -> u[f]
<1>10. /\ Effective(s) = [f \in ClusterLeaves |-> leaf(s, f)]
       /\ Effective(t) = [f \in ClusterLeaves |-> leaf(t, f)]
  BY <1>1, EffectiveLeaves
<1>11. ASSUME NEW f \in ClusterLeaves PROVE leaf(s, f) = leaf(t, f)
  <2>1. CASE f \in {"metricsEnabled", "autoscaling"}
    BY <2>1
  <2>2. CASE f = "updateStrategy"
    BY <1>9, <2>2
  <2>3. CASE f = "tls"
    BY <1>7, <2>3
  <2>4. ASSUME f \notin {"metricsEnabled", "autoscaling", "updateStrategy", "tls"}
        PROVE  s[f] = t[f]
    <3>1. f \in {"replicas", "image", "imagePullPolicy", "resources", "storage", "kafkaPort",
                 "httpPort", "raftPort", "env", "nodeSelector", "tolerations",
                 "podAntiAffinity", "rackAwareness", "serviceAccountName", "logLevel"}
      BY <2>4 DEF ClusterLeaves, ClusterDefaults
    <3> QED  BY <1>2, <1>3, <1>4, <1>5, <1>6, <1>8, <3>1
  <2>5. CASE f \notin {"metricsEnabled", "autoscaling", "updateStrategy", "tls"}
    <3>1. leaf(s, f) = s[f] /\ leaf(t, f) = t[f]
      BY <2>5
    <3> QED  BY <2>4, <2>5, <3>1
  <2> QED  BY <2>1, <2>2, <2>3, <2>5
<1> HIDE DEF leaf
<1> QED  BY <1>10, <1>11

\* Whatever is accepted can be read off its effect.
LEMMA EffectShown ==
    ASSUME kind \in {"cluster", "topic"}, NEW s, NEW t, Accepts(s), Accepts(t),
           Effect(s) = Effect(t)
    PROVE  Effective(s) = Effective(t)
<1>1. CASE kind = "cluster"
  <2>1. Effect(s) = [objects |-> render(s)] /\ Effect(t) = [objects |-> render(t)]
    BY <1>1 DEF Effect
  <2>2. \A a, b : [objects |-> a] = [objects |-> b] => a = b
    OBVIOUS
  <2>3. render(s) = render(t)
    BY <2>1, <2>2
  <2> QED  BY <1>1, <2>3, ClusterShown
<1>2. CASE kind = "topic"
  <2>1. Effect(s) = [partitions |-> s.partitions] /\ Effect(t) = [partitions |-> t.partitions]
    BY <1>2 DEF Effect
  <2>2. \A a, b : [partitions |-> a] = [partitions |-> b] => a = b
    OBVIOUS
  <2>3. s.partitions = t.partitions
    BY <2>1, <2>2
  <2>4. unsupported_fields(s) = {} /\ unsupported_fields(t) = {} /\ Readable(s) /\ Readable(t)
    BY <1>2 DEF Accepts, Rejections
  <2>5. \A f \in Leaves : s[f] = t[f]
    BY <1>2, <2>3, <2>4, TopicShown
  <2>6. s = [f \in Leaves |-> s[f]] /\ t = [f \in Leaves |-> t[f]]
    BY DEF Accepts
  <2>7. s = t
    BY <2>5, <2>6
  <2> QED  BY <1>2, <2>7 DEF Effective
<1> QED  BY <1>1, <1>2

\* The shape of the storage block in etcd, and of what is handed on.
StorageShaped(s) == kind = "cluster" => s["storage"] = Absent \/ Shaped(s["storage"])

ShapeInv == StorageShaped(stored) /\ (accepted # Absent => Accepts(accepted))

\* A storage block that is filled in is whole.
LEMMA StorageDefault ==
    ASSUME kind = "cluster", NEW c
    PROVE  "storage" \in Leaves /\ Shaped(Defaults["storage"]) /\ Shaped(Default(c, "storage"))
<1>1. "storage" \in Leaves /\ Defaults["storage"] = ClusterDefaults["storage"]
  BY DEF Leaves, Defaults, ClusterDefaults
<1>2. ClusterDefaults["storage"] = [storageClassName |-> Absent, size |-> "10Gi",
                                    accessModes |-> <<"ReadWriteOnce">>]
  BY DEF ClusterDefaults
<1>3. Shaped(ClusterDefaults["storage"])
  BY <1>2 DEF Shaped
<1>4. "storage" \notin DOMAIN OldDefaults
  BY SMT DEF OldDefaults
<1> QED  BY <1>1, <1>3, <1>4 DEF Default

\* A write leaves the storage block absent or whole.
LEMMA WriteShapes ==
    ASSUME kind' = kind, NEW s, NEW b, NEW written, StorageShaped(s), Write(s, b, written)
    PROVE  StorageShaped(stored)'
<1> SUFFICES ASSUME kind = "cluster"
             PROVE  stored'["storage"] = Absent \/ Shaped(stored'["storage"])
  BY DEF StorageShaped, Shaped
<1> DEFINE bs == b \cup SchemaBlocks(crd)
<1>1. stored' = Defaulted(crd, s, bs)
  BY DEF Write
<1>2. stored'["storage"] = IF Fills("storage", s, bs) THEN Default(crd, "storage")
                           ELSE s["storage"]
  BY <1>1, StorageDefault DEF Defaulted
<1> HIDE DEF bs
<1> QED  BY <1>2, StorageDefault DEF StorageShaped

\* What v0.3.0 left behind has that shape.
LEMMA ShapeInit == Init => ShapeInv
<1> SUFFICES ASSUME Init PROVE ShapeInv
  OBVIOUS
<1>1. accepted = Absent
  BY DEF Init
<1>2. ASSUME kind = "cluster" PROVE stored["storage"] = Absent \/ Shaped(stored["storage"])
  <2> DEFINE none == [f \in Leaves |-> Absent]
  <2>1. stored = Defaulted(crd, none, blocks)
    BY DEF Init
  <2>2. stored["storage"] = IF Fills("storage", none, blocks) THEN Default(crd, "storage")
                            ELSE Absent
    BY <1>2, <2>1, StorageDefault DEF Defaulted
  <2> HIDE DEF none
  <2> QED  BY <1>2, <2>2, StorageDefault
<1> QED  BY <1>1, <1>2 DEF ShapeInv, StorageShaped

\* What the operator reads without rejections can be handed on.
LEMMA ViewAccepts ==
    ASSUME SpecInv, ShapeInv, Rejections(View) = {}
    PROVE  Accepts(View)
<1>1. View = [f \in Leaves |-> View[f]]
  BY DEF View
<1>2. Readable(View)
  BY ViewReadable DEF SpecInv
<1>3. ASSUME kind = "cluster" PROVE Shaped(View["storage"])
  <2>1. View["storage"] = ViewOf("storage")
    BY <1>3, StorageDefault DEF View
  <2>2. Shaped(ViewOf("storage"))
    BY <1>3, StorageDefault DEF ViewOf, ShapeInv, StorageShaped
  <2> QED  BY <2>1, <2>2
<1> QED  BY <1>1, <1>2, <1>3 DEF Accepts

\* Only what was read and not rejected is handed on.
LEMMA HandedOn ==
    ASSUME [Next]_vars
    PROVE  accepted' = accepted \/ (accepted' = View /\ Rejections(View) = {})
<1>1. CASE Reconcile
  <2> DEFINE clean == Rejections(View) = {}
             view  == View
  <2>1. accepted' = IF clean THEN view ELSE accepted
    BY <1>1 DEF Reconcile
  <2> HIDE DEF clean, view
  <2>2. accepted' = accepted \/ (accepted' = view /\ clean)
    BY <2>1
  <2> QED  BY <2>2 DEF clean, view
<1>2. CASE UNCHANGED accepted
  BY <1>2
<1>3. Reconcile \/ UNCHANGED accepted
  BY DEF Next, EditField, InstallCrds, RollBackCrds, FollowAdvice, vars
<1> QED  BY <1>1, <1>2, <1>3

\* Every step keeps the shape.
LEMMA ShapeStep == SpecInv /\ ShapeInv /\ [Next]_vars => ShapeInv'
<1> SUFFICES ASSUME SpecInv, ShapeInv, [Next]_vars PROVE ShapeInv'
  OBVIOUS
<1>1. kind' = kind
  BY DEF Next, EditField, InstallCrds, RollBackCrds, FollowAdvice, Reconcile, vars
<1>2. \A s : (Accepts(s) <=> Accepts(s)') /\ (StorageShaped(s) <=> StorageShaped(s)')
  BY <1>1 DEF Accepts, Leaves, Defaults, Readable, Types, Rejections, Shaped, StorageShaped
<1>3. ASSUME NEW f \in DOMAIN Edits, NEW v \in Edits[f], EditField(f, v) PROVE ShapeInv'
  <2> DEFINE s == [stored EXCEPT ![f] = v]
  <2>1. StorageShaped(s)
    <3> SUFFICES ASSUME kind = "cluster" PROVE s["storage"] = Absent \/ Shaped(s["storage"])
      BY DEF StorageShaped
    <3>1. "storage" \in DOMAIN stored
      BY StorageDefault DEF SpecInv, Storable
    <3>2. CASE f = "storage"
      <4>1. s["storage"] = v
        BY <3>1, <3>2
      <4>2. v \in ClusterTypes["storage"] \cup {Absent}
        BY <3>2, SpecUpgradeAssumption DEF Edits
      <4>3. ClusterTypes["storage"] = [storageClassName : Optional(STRING), size : STRING,
                                       accessModes : Seq(STRING)]
        BY DEF ClusterTypes
      <4>4. v = Absent \/ Shaped(v)
        BY <4>2, <4>3 DEF Shaped
      <4> QED  BY <4>1, <4>4
    <3>3. CASE f # "storage"
      <4>1. s["storage"] = stored["storage"]
        BY <3>1, <3>3
      <4> QED  BY <4>1 DEF ShapeInv, StorageShaped
    <3> QED  BY <3>2, <3>3
  <2>2. Write(s, blocks \cup Opened(f), {f})
    BY <1>3 DEF EditField
  <2> HIDE DEF s
  <2>3. StorageShaped(stored)'
    BY <1>1, <2>1, <2>2, WriteShapes
  <2> QED  BY <1>2, <1>3, <2>3 DEF EditField, ShapeInv
<1>4. ASSUME NEW r \in advice, FollowAdvice(r) PROVE ShapeInv'
  <2> DEFINE s == [stored EXCEPT ![r.field] = Defaults[r.field]]
  <2>1. r.advice # Absent
    BY <1>4 DEF FollowAdvice
  <2>2. Merged(r.advice.patch) = s /\ r.field \notin TextLeaves
    BY <2>1, AdviceSupports
  <2>3. s["storage"] = stored["storage"]
    <3>1. r.field # "storage"
      BY <2>2 DEF TextLeaves
    <3> QED  BY <3>1 DEF SpecInv, Storable
  <2>4. StorageShaped(s)
    BY <2>3 DEF ShapeInv, StorageShaped
  <2>5. Write(s, blocks \cup Opened(r.field), {r.field})
    BY <1>4, <2>2 DEF FollowAdvice
  <2> HIDE DEF s
  <2>6. StorageShaped(stored)'
    BY <1>1, <2>4, <2>5, WriteShapes
  <2> QED  BY <1>2, <1>4, <2>6 DEF FollowAdvice, ShapeInv
<1>5. CASE Reconcile
  <2>1. stored' = stored
    BY <1>5 DEF Reconcile
  <2>2. accepted' = accepted \/ (accepted' = View /\ Rejections(View) = {})
    BY HandedOn
  <2> QED  BY <1>2, <2>1, <2>2, ViewAccepts DEF ShapeInv
<1>6. CASE UNCHANGED <<stored, accepted>>
  BY <1>2, <1>6 DEF ShapeInv
<1>7. InstallCrds \/ RollBackCrds \/ UNCHANGED vars => UNCHANGED <<stored, accepted>>
  BY DEF InstallCrds, RollBackCrds, vars
<1> QED  BY <1>3, <1>4, <1>5, <1>6, <1>7 DEF Next

\* No setting that is accepted is silently dropped: whatever an edit changes
\* between two accepted specs, apart from the settings that Effective names,
\* changes the objects of the cluster or the topic.
THEOREM EditsShow == Spec => EditsTakeEffect
<1>1. Spec => [](SpecInv /\ ShapeInv)
  <2>1. Spec => []SpecInv
    BY SpecInvariance
  <2>2. Spec /\ []SpecInv => []ShapeInv
    BY ShapeInit, ShapeStep, PTL DEF Spec
  <2> QED  BY <2>1, <2>2, PTL
<1>2. SpecInv /\ ShapeInv /\ [Next]_vars =>
         [accepted # Absent /\ Effective(accepted') # Effective(accepted)
              => Effect(accepted') # Effect(accepted)]_vars
  <2> SUFFICES ASSUME SpecInv, ShapeInv, [Next]_vars, accepted # Absent,
                      Effect(accepted') = Effect(accepted)
               PROVE  Effective(accepted') = Effective(accepted)
    OBVIOUS
  <2>1. accepted' = accepted \/ (accepted' = View /\ Rejections(View) = {})
    BY HandedOn
  <2>2. CASE accepted' = View /\ Rejections(View) = {}
    <3>1. Accepts(accepted) /\ Accepts(View)
      BY <2>2, ViewAccepts DEF ShapeInv
    <3>2. Effect(View) = Effect(accepted)
      BY <2>2
    <3>3. Effective(View) = Effective(accepted)
      BY <3>1, <3>2, EffectShown DEF SpecInv
    <3> QED  BY <2>2, <3>3
  <2> QED  BY <2>1, <2>2
<1> QED  BY <1>1, <1>2, PTL DEF Spec, EditsTakeEffect

================================================================================
