-------------------------------- MODULE Deploy --------------------------------
(* tools/deploy/k8s/deploy.py: deploy applies the manifests in order and stops *)
(* at the first that fails; delete removes them in the reverse order and goes  *)
(* on. The cluster is what kubectl makes of it: a namespace, and in it what    *)
(* each manifest describes. As it is, run_kubectl passes bytes to a process    *)
(* that it opens in text mode, so that no manifest reaches kubectl; asText is  *)
(* the same program with text passed.                                          *)
EXTENDS Naturals, Sequences, FiniteSets, SequencesExt

CONSTANTS
  Manifests,      \* TEMPLATES_APPLY_ORDER; the first is the namespace
  Claim,          \* db-pvc.yaml.j2
  Ingress,        \* ingress.yaml.j2, which dev does not enable
  MaxCommands     \* bound on the commands given

ASSUME DeployAssumption ==
  /\ Manifests \in Seq(Range(Manifests)) \ {<<>>} /\ IsInjective(Manifests)
  /\ {Claim, Ingress} \subseteq Range(Manifests)
  /\ Head(Manifests) \notin {Claim, Ingress}
  /\ MaxCommands \in Nat

VARIABLES
  environment,    \* "dev" or "prod"
  asText,         \* whether run_kubectl passes text
  cluster,        \* the manifests whose objects exist
  command,        \* "none", "deploy" or "delete"
  flags,          \* of the command: "pvc", "namespace"
  left,           \* the manifests it has still to process
  commands,       \* commands given
  skipped         \* history: whether a manifest's deletion failed in this namespace

deployVars == <<environment, asText, cluster, command, flags, left, commands, skipped>>

Namespace == Head(Manifests)
Environments == {"dev", "prod"}
IngressEnabled == environment = "prod"

TEMPLATES_DELETE_ORDER == Reverse(Manifests)

DeployTypeOK ==
  /\ environment \in Environments /\ asText \in BOOLEAN
  /\ cluster \subseteq Range(Manifests)
  /\ command \in {"none", "deploy", "delete"}
  /\ flags \subseteq {"pvc", "namespace"}
  /\ IsSuffix(left, IF command = "delete" THEN TEMPLATES_DELETE_ORDER ELSE Manifests)
  /\ commands \in 0..MaxCommands
  /\ skipped \in BOOLEAN

DeployInit ==
  /\ environment \in Environments /\ asText \in BOOLEAN
  /\ cluster = {} /\ command = "none" /\ flags = {} /\ left = <<>>
  /\ commands = 0 /\ skipped = FALSE

----------------------------------------------------------------------------
Begin(name, options, manifests) ==
  /\ command = "none" /\ commands < MaxCommands
  /\ command' = name /\ flags' = options /\ left' = manifests
  /\ commands' = commands + 1
  /\ UNCHANGED <<environment, asText>>

\* An exit, an exception or an interrupt ends a command where it is.
Quit ==
  /\ command' = "none" /\ flags' = {} /\ left' = <<>>

Enabled(manifest) == manifest = Ingress => IngressEnabled
Manifest == Head(left)
Advance == left' = Tail(left) /\ UNCHANGED <<command, flags>>

\* Without a required secret, and for prod without a tag, nothing is done. The result of
\* creating the namespace is not looked at.
StartDeploy(tagged, secrets) ==
  /\ secrets /\ (environment = "prod" => tagged)
  /\ Begin("deploy", {}, Manifests)
  /\ cluster' \in {cluster, cluster \cup {Namespace}}
  /\ UNCHANGED skipped

\* Mutant of Apply: the namespace need not exist, and a failure is passed over.
ApplyOn ==
  /\ command = "deploy" /\ left # <<>> /\ Enabled(Manifest) /\ asText
  /\ cluster' \in {cluster, cluster \cup {Manifest}}
  /\ Advance
  /\ UNCHANGED <<environment, asText, commands, skipped>>

\* apply_manifest in a namespace that is there
Apply ==
  /\ command = "deploy" /\ left # <<>> /\ Enabled(Manifest) /\ asText
  /\ Manifest = Namespace \/ Namespace \in cluster
  /\ cluster' = cluster \cup {Manifest}
  /\ Advance
  /\ UNCHANGED <<environment, asText, commands, skipped>>

SkipManifest ==
  /\ command # "none" /\ left # <<>>
  /\ \/ ~Enabled(Manifest)
     \/ command = "delete" /\ Manifest = Claim /\ "pvc" \notin flags
  /\ Advance
  /\ UNCHANGED <<environment, asText, cluster, commands, skipped>>

\* A render error and an error of run_kubectl itself exit, which delete does not catch; a
\* failed apply raises out of deploy; and the operator may interrupt.
Fail ==
  /\ command # "none"
  /\ Quit
  /\ UNCHANGED <<environment, asText, cluster, commands, skipped>>

\* The waits for the database and the rollouts only warn.
Deployed ==
  /\ command = "deploy" /\ left = <<>>
  /\ Quit
  /\ skipped' = FALSE
  /\ UNCHANGED <<environment, asText, cluster, commands>>

StartDelete(options) ==
  /\ Begin("delete", options, TEMPLATES_DELETE_ORDER)
  /\ UNCHANGED <<cluster, skipped>>

\* Deleting a namespace deletes what is in it.
Without(manifest) == IF manifest = Namespace THEN {} ELSE cluster \ {manifest}

Deleting == command = "delete" /\ left # <<>> /\ Enabled(Manifest)
              /\ (Manifest = Claim => "pvc" \in flags) /\ asText
DeleteManifest ==
  /\ Deleting
  /\ cluster' = Without(Manifest)
  /\ skipped' = (skipped /\ Manifest # Namespace)
  /\ Advance
  /\ UNCHANGED <<environment, asText, commands>>

\* check=False: kubectl fails, and the next manifest follows
DeleteFails ==
  /\ Deleting
  /\ skipped' = TRUE
  /\ Advance
  /\ UNCHANGED <<environment, asText, cluster, commands>>

\* For prod --delete-namespace asks, and "no" aborts; kubectl's failure is not looked at.
FinishDelete ==
  /\ command = "delete" /\ left = <<>>
  /\ \/ cluster' = cluster
     \/ "namespace" \in flags /\ cluster' = {}
  /\ skipped' = (skipped /\ cluster' # {})
  /\ Quit
  /\ UNCHANGED <<environment, asText, commands>>

DeployNext ==
  \/ \E tagged, secrets \in BOOLEAN : StartDeploy(tagged, secrets)
  \/ Apply \/ SkipManifest \/ Fail \/ Deployed
  \/ \E options \in SUBSET {"pvc", "namespace"} : StartDelete(options)
  \/ DeleteManifest \/ DeleteFails \/ FinishDelete
DeploySpec == DeployInit /\ [][DeployNext]_deployVars

----------------------------------------------------------------------------
\* What a manifest needs is what stands before it in the order, the claim aside, which a
\* deletion leaves. Unless a deletion failed, an object is never there without what it needs,
\* whatever commands were given and wherever they stopped; and as the program is, no object
\* but the namespace is ever there.
Needs(manifest) ==
  {Manifests[i] : i \in 1..(CHOOSE i \in DOMAIN Manifests : Manifests[i] = manifest)}
NeedsMet(manifest) == {n \in Needs(manifest) : Enabled(n)} \subseteq cluster
DependenciesPresent ==
  /\ ~skipped => \A manifest \in cluster \ {Claim} : NeedsMet(manifest)
  /\ ~asText => cluster \subseteq {Namespace}

=============================================================================
