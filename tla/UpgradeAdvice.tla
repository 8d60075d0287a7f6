---------------------------- MODULE UpgradeAdvice ----------------------------
(***************************************************************************)
(* src/upgrade.rs: the schema defaults of v0.3.0 that the operator rejects *)
(* and what a rejection tells the user to do about each of them.           *)
(*                                                                         *)
(* A value is compared with the legacy one as the rejection renders it;    *)
(* rendering is injective on each field, so the values themselves are      *)
(* compared here.  The wording is left out, its statements are kept.       *)
(***************************************************************************)
EXTENDS Integers

CONSTANT Absent     \* a key that is not there; `null` in a merge patch

TopLevel == "spec"

\* Fields of LegacyDefault: the block that holds the key, the value that
\* v0.3.0 persisted and the supported one.  Remediation follows from the
\* latter: Absent removes the key, any other value is set.
LegacyDefault(kind, parent, legacy, supported) ==
    [kind |-> kind, parent |-> parent,
     legacy_value |-> legacy, supported_value |-> supported]

\* Mutant of LEGACY_DEFAULTS: the unsupported minimum is set, not removed.
LEGACY_DEFAULTS_minimum ==
    [replicas          |-> LegacyDefault("cluster", TopLevel, 3, 1),
     podAntiAffinity   |-> LegacyDefault("cluster", TopLevel, TRUE, FALSE),
     replicationFactor |-> LegacyDefault("topic", TopLevel, 2, 1),
     retentionMs       |-> LegacyDefault("topic", "retention", 604800000, -1),
     minInsyncReplicas |-> LegacyDefault("topic", "config", 1, 2),
     maxMessageBytes   |-> LegacyDefault("topic", "config", 1048576, Absent)]

LEGACY_DEFAULTS ==
    [replicas          |-> LegacyDefault("cluster", TopLevel, 3, 1),
     podAntiAffinity   |-> LegacyDefault("cluster", TopLevel, TRUE, FALSE),
     replicationFactor |-> LegacyDefault("topic", TopLevel, 2, 1),
     retentionMs       |-> LegacyDefault("topic", "retention", 604800000, -1),
     minInsyncReplicas |-> LegacyDefault("topic", "config", 1, Absent),
     maxMessageBytes   |-> LegacyDefault("topic", "config", 1048576, Absent)]

removes_the_key(f) == LEGACY_DEFAULTS[f].supported_value = Absent

\* Mutant of needs_corrected_crds_first: patches are taken to stick anyway.
needs_corrected_crds_never(f) == FALSE
needs_corrected_crds_first(f) == removes_the_key(f)

\* Mutant of observed_is_legacy: compared with the supported value.
observed_is_supported(f, observed) == observed = LEGACY_DEFAULTS[f].supported_value
observed_is_legacy(f, observed)    == observed = LEGACY_DEFAULTS[f].legacy_value

\* Mutant of merge_patch: the block is nulled, not the leaf.
merge_patch_block(f) ==
    [parent |-> LEGACY_DEFAULTS[f].parent, leaf |-> f, whole_block |-> removes_the_key(f),
     value |-> LEGACY_DEFAULTS[f].supported_value]
merge_patch(f) ==
    [parent |-> LEGACY_DEFAULTS[f].parent, leaf |-> f, whole_block |-> FALSE,
     value |-> LEGACY_DEFAULTS[f].supported_value]

\* What a rejection says: the patch, whether it has to wait for the corrected
\* CRDs, and whom it says the value comes from: nobody in particular, or the
\* API server, which put it into every resource or into opened blocks only.
remediation(f, is_legacy) ==
    [patch |-> merge_patch(f),
     crds_first |-> needs_corrected_crds_first(f),
     provenance |-> CASE ~is_legacy -> "none"
                      [] is_legacy /\ LEGACY_DEFAULTS[f].parent = TopLevel -> "every resource"
                      [] OTHER -> "every opened block"]

\* A field outside the table degrades to no advice.
remediation_for(f, is_legacy) ==
    IF f \in DOMAIN LEGACY_DEFAULTS THEN remediation(f, is_legacy) ELSE Absent

remediation_for_value(f, observed) ==
    IF f \in DOMAIN LEGACY_DEFAULTS
    THEN remediation(f, observed_is_legacy(f, observed)) ELSE Absent

\* Absent is not one of the values it stands in for.
ASSUME AbsentAssumption ==
    /\ Absent \notin Int /\ Absent \notin BOOLEAN
    /\ \A f \in DOMAIN LEGACY_DEFAULTS : \A l \in BOOLEAN : remediation(f, l) # Absent

Rejection(f, advice) == [field |-> f, advice |-> advice]
When(condition, rejection) == IF condition THEN {rejection} ELSE {}
==============================================================================
