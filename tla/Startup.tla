------------------------------ MODULE Startup ------------------------------
(***************************************************************************)
(* How cwproxy finds out where it runs and what it is called: metadata.Load *)
(* (internal/metadata/metadata.go) asks the ECS endpoint twice, looks for  *)
(* signs of Kubernetes and asks EC2's instance metadata, one after the     *)
(* other under one deadline; then config.LoadFromEnv, InferDefaultAppName  *)
(* and InferAWSRegion make the name, the log groups, the ports and the     *)
(* region from the environment and the snapshot.                           *)
(*                                                                         *)
(* Texts are atoms, "" if empty.  A pod name is the sequence of its parts  *)
(* between dashes: "hash" looks like the hash of a replica set, "rand" like *)
(* the random suffix of its pods, any other part is a word.  An ARN is the *)
(* region it holds.  The settings of retries and health URLs are modelled  *)
(* in RetryPolicy and HealthURLs.                                          *)
(***************************************************************************)
EXTENDS Integers, Sequences, SequencesExt

CONSTANTS
    Budget,     \* the 200 ms of main's metadata context, in units
    Delays,     \* how long an answer may take; beyond Budget it never comes
    Region,     \* regions that answers may name; the environment names "env"
    PodName,    \* the names a pod may have
    DefaultAppPort,
    Port,       \* ports that may be configured or listened on
    Unset,      \* APP_PORT is not in the environment
    Blank       \* it is, and holds nothing but spaces

Empty == ""

StartupAssumption ==
    /\ Budget \in Nat
    /\ Delays \subseteq Nat
    /\ PodName \subseteq Seq(STRING)
    /\ DefaultAppPort \in Nat /\ Port \subseteq Nat \ {0}
    /\ Unset # Blank /\ {Unset, Blank} \cap (Port \cup {0}) = {}
    /\ Empty \notin Region

VARIABLES
    phase,     \* "task", "container", "eks", "ec2", "child", "config", "region", "ready" or "failed"
    spent,     \* units of time since the metadata context was made
    task,      \* the task document: [loaded, family, region, zone], the regions
               \* its ARN and its availability zone lie in
    container, \* the container document
    eks,       \* [found, deployment]
    ec2,       \* EC2's region
    portEnv,   \* APP_PORT: Unset, Blank or a port
    child,     \* the port the target will listen on, 0 in normal mode
    detected,  \* the port found in inspector mode, 0 if it was not looked for
    cfg,       \* the configuration
    region,    \* what resolveAWSRegion returns
    \* What has happened, for the properties:
    signs,     \* Kubernetes was detected
    told       \* the regions named by answers that came in time

vars == <<phase, spent, task, container, eks, ec2, portEnv, child, detected, cfg, region, signs, told>>

Nothing == [loaded |-> FALSE, family |-> Empty, region |-> Empty, zone |-> Empty]

Init ==
    /\ phase = "task"
    /\ spent = 0
    /\ task = Nothing
    /\ container = Nothing
    /\ eks = <<>>
    /\ ec2 = Empty
    /\ portEnv \in {Unset, Blank} \cup Port
    /\ child \in {0} \cup Port
    /\ detected = 0
    /\ cfg = <<>>
    /\ region = Empty
    /\ signs = FALSE
    /\ told = {}

----------------------------------------------------------------------------
(* metadata.Load. *)

\* Mutant of SpentAfter: every request has a deadline of its own.
OwnDeadline(delay) == spent + (IF delay =< Budget THEN delay ELSE Budget)

\* A request that would end after the deadline ends at the deadline.
SpentAfter(delay) == IF spent + delay =< Budget THEN spent + delay ELSE Budget

InTime(delay) == spent + delay =< Budget

NoECS ==
    /\ phase = "task"
    /\ phase' = "eks"
    /\ UNCHANGED <<spent, task, container, eks, ec2, portEnv, child, detected, cfg, region, signs, told>>

\* readJSON: "refused" is an error of any kind that leaves the target alone,
\* "mistyped" a document with a field of the wrong type, which is an error too
\* but leaves the other fields in the target.
Answer(delay, kind, family, r, zone) ==
    IF InTime(delay) /\ kind # "refused"
    THEN [loaded |-> kind = "ok", family |-> family, region |-> r, zone |-> zone]
    ELSE Nothing

Kinds == {"ok", "refused", "mistyped"}

readTask(delay, kind, family, r, zone) ==
    /\ phase = "task"
    /\ task' = Answer(delay, kind, family, r, zone)
    /\ spent' = SpentAfter(delay)
    /\ phase' = "container"
    /\ UNCHANGED <<container, eks, ec2, portEnv, child, detected, cfg, region, signs, told>>

readContainer(delay, kind, r) ==
    /\ phase = "container"
    /\ container' = Answer(delay, kind, Empty, r, Empty)
    /\ spent' = SpentAfter(delay)
    /\ phase' = "eks"
    /\ told' = IF task.loaded \/ container'.loaded
               THEN {task.region, task.zone, container'.region} \ {Empty} ELSE {}
    /\ UNCHANGED <<task, eks, ec2, portEnv, child, detected, cfg, region, signs>>

\* loadECS returns nil unless one of the two requests succeeded.
ECS == task.loaded \/ container.loaded

looksLikeDeployment(pod) ==
    Len(pod) >= 3 /\ pod[Len(pod)] = "rand" /\ pod[Len(pod) - 1] = "hash"

\* The deployment of a pod; a name of another shape has none.
inferDeploymentName(pod) == IF looksLikeDeployment(pod) THEN SubSeq(pod, 1, Len(pod) - 2) ELSE <<>>

FirstOf(a, b) == IF a # <<>> THEN a ELSE b

\* Mutant of PodOf: the host name is taken for a pod name before the detection.
HostNameFirst(env, token, marker, host) ==
    LET pod == FirstOf(FirstOf(env, token), host) IN [detected |-> marker \/ pod # <<>>, pod |-> pod]

\* The pod is named by POD_NAME, else by the token, else, once Kubernetes is
\* detected by this or another sign, by HOSTNAME.
PodOf(env, token, marker, host) ==
    LET pod == FirstOf(env, token)
    IN  [detected |-> marker \/ pod # <<>>,
         pod |-> IF marker \/ pod # <<>> THEN FirstOf(pod, host) ELSE <<>>]

\* marker stands for KUBERNETES_SERVICE_HOST, an execution environment of EKS, a
\* cluster name, a service account, and the two files.
loadEKS(env, token, marker, host) ==
    /\ phase = "eks"
    /\ LET found == PodOf(env, token, marker, host)
       IN  eks' = [found |-> found.detected, deployment |-> inferDeploymentName(found.pod)]
    /\ signs' = (marker \/ env # <<>> \/ token # <<>>)
    /\ phase' = "ec2"
    /\ UNCHANGED <<spent, task, container, ec2, portEnv, child, detected, cfg, region, told>>

loadEC2(delay, r) ==
    /\ phase = "ec2"
    /\ ec2' = IF InTime(delay) THEN r ELSE Empty
    /\ told' = told \cup ({ec2'} \ {Empty})
    /\ spent' = SpentAfter(delay)
    /\ phase' = "child"
    /\ UNCHANGED <<task, container, eks, portEnv, child, detected, cfg, region, signs>>

----------------------------------------------------------------------------
(* The configuration. *)

\* Inspector mode looks for the target's port unless APP_PORT is in the
\* environment, be it blank.  How it looks is Lifecycle's subject.
DetectPort ==
    /\ phase = "child"
    /\ detected' = IF child # 0 /\ portEnv = Unset THEN child ELSE 0
    /\ phase' = "config"
    /\ UNCHANGED <<spent, task, container, eks, ec2, portEnv, child, cfg, region, signs, told>>

InferDefaultAppName ==
    CASE eks.found /\ eks.deployment # <<>> -> eks.deployment
      [] ECS /\ ~(eks.found /\ eks.deployment # <<>>) -> IF task.family = Empty THEN <<>> ELSE <<task.family>>
      [] OTHER -> <<>>

\* Mutant of AppName: a blank host name is kept.
AnyHostName(env, host) ==
    CASE env # Empty -> <<env>>
      [] env = Empty /\ InferDefaultAppName # <<>> -> InferDefaultAppName
      [] OTHER -> IF host = Empty THEN <<>> ELSE <<host>>

\* APP_NAME, the deployment, the task family, the host name, "cwproxy"; the host
\* name is Empty when it is blank or cannot be read.
AppName(env, host) ==
    CASE env # Empty -> <<env>>
      [] env = Empty /\ InferDefaultAppName # <<>> -> InferDefaultAppName
      [] OTHER -> IF host = Empty THEN <<"cwproxy">> ELSE <<host>>

LogGroup(env, default) == IF env # Empty THEN <<env>> ELSE default

\* Mutant of AppPort: the port that was found is not passed on.
ConfiguredOnly == IF portEnv \in Port THEN portEnv ELSE DefaultAppPort

\* withEnvOverride puts the detected port in the place of APP_PORT; for the
\* loader a blank text is no text.
AppPort ==
    CASE detected # 0 -> detected
      [] detected = 0 /\ portEnv \in Port -> portEnv
      [] OTHER -> DefaultAppPort

\* One of the texts is invalid: LoadFromEnv returns the first error.
BadSetting ==
    /\ phase = "config"
    /\ phase' = "failed"
    /\ UNCHANGED <<spent, task, container, eks, ec2, portEnv, child, detected, cfg, region, signs, told>>

LoadFromEnv(name, host, group, healthGroup) ==
    /\ phase = "config"
    /\ LET app == AppName(name, host)
       IN  cfg' = [appName |-> app,
                   logGroup |-> LogGroup(group, <<"/app/log">> \o app),
                   healthLogGroup |-> LogGroup(healthGroup, <<"/app/log">> \o app \o <<"health">>),
                   appPort |-> AppPort]
    /\ phase' = "region"
    /\ UNCHANGED <<spent, task, container, eks, ec2, portEnv, child, detected, region, signs, told>>

\* Mutant of InferAWSRegion: on ECS only the task is asked.
TaskOnly == IF ECS THEN task.region ELSE ec2

InferAWSRegion ==
    CASE ec2 # Empty -> ec2
      [] ec2 = Empty /\ ECS /\ task.region # Empty -> task.region
      [] ec2 = Empty /\ ECS /\ task.region = Empty /\ container.region # Empty -> container.region
      [] ec2 = Empty /\ ECS /\ task.region = Empty /\ container.region = Empty -> task.zone
      [] OTHER -> Empty

\* AWS_REGION, AWS_DEFAULT_REGION, the snapshot; without a region CloudWatch
\* stays disabled for the life of the process.
resolveAWSRegion(env) ==
    /\ phase = "region"
    /\ region' = IF env # Empty THEN env ELSE InferAWSRegion
    /\ phase' = "ready"
    /\ UNCHANGED <<spent, task, container, eks, ec2, portEnv, child, detected, cfg, signs, told>>

Next ==
    \/ NoECS
    \/ \E delay \in Delays, kind \in Kinds, family \in {Empty, "family"}, r, zone \in Region \cup {Empty} :
           readTask(delay, kind, family, r, zone)
    \/ \E delay \in Delays, kind \in Kinds, r \in Region \cup {Empty} : readContainer(delay, kind, r)
    \/ \E env, token, host \in PodName \cup {<<>>}, marker \in BOOLEAN : loadEKS(env, token, marker, host)
    \/ \E delay \in Delays, r \in Region \cup {Empty} : loadEC2(delay, r)
    \/ DetectPort
    \/ BadSetting
    \/ \E name \in {Empty, "name"}, host \in {Empty, "host"}, group, healthGroup \in {Empty, "group"} :
           LoadFromEnv(name, host, group, healthGroup)
    \/ \E env \in {Empty, "env"} : resolveAWSRegion(env)

Spec == Init /\ [][Next]_vars

----------------------------------------------------------------------------
(* Properties. *)

\* Type invariant.
TypeOK ==
    /\ phase \in {"task", "container", "eks", "ec2", "child", "config", "region", "ready", "failed"}
    /\ spent \in Nat
    /\ ec2 \in Region \cup {Empty}
    /\ {child, detected} \subseteq Port \cup {0}
    /\ portEnv \in Port \cup {Unset, Blank}
    /\ region \in Region \cup {Empty, "env"}
    /\ phase \in {"region", "ready"} => <<>> \notin {cfg.appName, cfg.logGroup, cfg.healthLogGroup}

\* Looking for metadata delays the start by the deadline of main's context at
\* most, however many of the three sources hang.
StartsInTime == spent =< Budget

\* CloudWatch is left disabled only when the environment names no region and no
\* answer that came did: an ECS task, a container or an instance alone suffices,
\* also when another source failed or knew nothing.
RegionFromAnySource ==
    phase = "ready" /\ region = Empty => told = {}

\* A machine without a sign of Kubernetes is not named after a pod, though its
\* host name may look like one: loadEKS looks at HOSTNAME only afterwards.
NoFalseDeployment ==
    phase \in {"region", "ready"} /\ ~signs
        => cfg.appName \in {<<"name">>, <<"family">>, <<"host">>, <<"cwproxy">>}

\* The proxy forwards to the port the target really listens on, unless the
\* environment names another one, and never looks for a port in normal mode.  Nothing
\* is claimed of a blank APP_PORT beside a target: run takes it for a port that is
\* configured, parsePortEnv for none, and SPEC.md would have the port detected.
PortOfTheChild ==
    phase \in {"region", "ready"} =>
        /\ portEnv \in Port => cfg.appPort = portEnv
        /\ portEnv \notin Port /\ child = 0 => cfg.appPort = DefaultAppPort
        /\ portEnv = Unset /\ child # 0 => cfg.appPort = child
=============================================================================
