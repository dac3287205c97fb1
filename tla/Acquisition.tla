----------------------------- MODULE Acquisition -----------------------------
(* The verified acquisition of a release (src/src/installer): what a signed *)
(* channel document, the release manifest, the tarball and its unpacked     *)
(* tree are checked for, in which order, and with which error the first     *)
(* failing check ends the acquisition.  What the origin (or a handed-over   *)
(* directory) serves is an offer: the set of the defects it has.            *)
EXTENDS Naturals, Sequences

CONSTANT Channels
ASSUME ChannelsAssumption == Channels \subseteq {"beta", "stable"}

NoError == "none"

\* The newest listed release of the channel, or the one that is pinned, is the
\* one looked at.  One row per check, in the order of the code: the defect it looks for, the
\* error of the network path and the error of the handoff path ("unchecked"
\* where that path has no such check).
ListingChecks == <<
  <<"listing-fails",       "network",                   "unchecked">>,
  <<"no-release",          "channel-unknown-version",   "unchecked">> >>

ChannelChecks == <<
  <<"channel-unreachable", "network",                   "network">>,
  <<"channel-unsigned",    "channel-signature-invalid", "channel-signature-invalid">>,
  <<"channel-malformed",   "channel-metadata-invalid",  "channel-metadata-invalid">>,
  <<"channel-of-other",    "channel-metadata-invalid",  "unchecked">>,
  <<"no-snapshot",         "channel-unknown-version",   "channel-metadata-invalid">> >>

\* evaluateChannelMetadata collects all three and names the first.
EvaluationChecks == <<
  <<"rollback",            "channel-rollback-detected", "channel-rollback-detected">>,
  <<"stale",               "channel-stale",             "channel-stale">>,
  <<"frozen",              "channel-frozen",            "channel-frozen">> >>

ManifestChecks == <<
  <<"no-target-entry",     "target-unsupported",        "target-unsupported">>,
  <<"manifest-unreachable", "network",                  "network">>,
  <<"manifest-unsigned",   "channel-signature-invalid", "manifest-signature-invalid">>,
  <<"manifest-malformed",  "channel-metadata-invalid",  "manifest-invalid">>,
  <<"manifest-of-other",   "manifest-identity-mismatch", "manifest-identity-mismatch">> >>

\* resolveTargetArtifact, then the comparison of the two documents.
TargetChecks(channel) == <<
  <<"target-missing",      "target-unsupported",        "target-unsupported">>,
  <<IF channel = "stable" THEN "experimental" ELSE "-", "target-unsupported", "target-unsupported">>,
  <<IF channel = "stable" THEN "gaps" ELSE "-", "target-not-qualified", "target-not-qualified">>,
  <<"not-qualified",       "target-not-qualified",      "target-not-qualified">>,
  <<"bytes-disagree",      "manifest-identity-mismatch", "manifest-identity-mismatch">> >>

\* The tarball on disk, before anything is unpacked.
BytesChecks == <<
  <<"download-fails",      "network",                   "network">>,
  <<"signature-missing",   "artifact-signature-missing", "unchecked">>,
  <<"wrong-sha256",        "artifact-sha256-mismatch",  "artifact-sha256-mismatch">>,
  <<"wrong-size",          "artifact-size-mismatch",    "artifact-size-mismatch">>,
  <<"signature-missing",   "unchecked",                 "artifact-signature-missing">>,
  <<"signature-invalid",   "artifact-signature-invalid", "artifact-signature-invalid">> >>

\* The unpacked tree, after tar.
TreeChecks == <<
  <<"not-a-tarball",       "artifact-tree-invalid",     "artifact-tree-invalid">>,
  <<"identity-diverges",   "manifest-identity-mismatch", "manifest-identity-mismatch">>,
  <<"wrong-digest-file",   "artifact-digest-mismatch",  "artifact-digest-mismatch">>,
  <<"no-candidate",        "candidate-invalid",         "candidate-invalid">>,
  <<"wrong-tree",          "artifact-digest-mismatch",  "artifact-digest-mismatch">> >>

MetadataChecks(channel) ==
  ListingChecks \o ChannelChecks \o EvaluationChecks \o ManifestChecks \o TargetChecks(channel)

AllChecks(channel) == MetadataChecks(channel) \o BytesChecks \o TreeChecks

Defects == {AllChecks("stable")[i][1] : i \in DOMAIN AllChecks("stable")}

\* A document is a rollback when its counter is below the highest observed.
WithRollback(offer, version, highest) ==
  IF version < highest THEN offer \cup {"rollback"} ELSE offer

Column(path) == IF path = "network" THEN 2 ELSE 3

\* The checks of a list that find a defect of the offer on a path.
Failing(checks, offer, path) ==
  {i \in DOMAIN checks : checks[i][1] \in offer /\ checks[i][Column(path)] # "unchecked"}

\* The error of the first check that fails, NoError when none does.
Refusal(checks, offer, path) ==
  LET failing == Failing(checks, offer, path)
  IN  IF failing = {} THEN NoError
      ELSE checks[CHOOSE i \in failing : \A j \in failing : i <= j][Column(path)]

\* The channel an install or update follows: the one named, or the one the
\* running build was released on; a dev build follows stable.
ResolveChannel(named, buildChannel) ==
  CASE named \in {"beta", "stable"} -> named
    [] named = "current" /\ buildChannel \in {"beta", "stable"} -> buildChannel
    [] OTHER -> "stable"
=============================================================================
