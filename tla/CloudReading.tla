---------------------------- MODULE CloudReading ----------------------------
(* What the hook says a cloud or cluster command does and which identity it
   acts as (internal/endpoint/hooks/cloud.go). `env` holds the assignments of
   the command, `x` the call: x.cwd, and x.env, the agent's environment. *)
EXTENDS Words

CONSTANTS
  AwsConfig,    \* AWS config files by name ("" the default one) -> profile -> [account, source]
  KubeContext,  \* kubeconfigs by name -> the current context
  KubeFiles,    \* values of KUBECONFIG -> the files they list, in order
  GcloudConfig, \* gcloud directories by name -> [active, project]: project by configuration
  AzureDefault, \* az directories by name -> the default subscription's <<id, name>>
  TfWorkspace   \* directories -> the workspace .terraform/environment selects

GetEnv(env, x, name) == IF name \in DOMAIN env THEN env[name] ELSE Given(x.env, name)
Known(name, value) == When(value # "", {<<name, value>>})

-----------------------------------------------------------------------------
(* Identities: a flag, else the environment, else what the CLI's files say. *)

\* A profile's account: its own, else that of the profiles it comes from.
AwsAccount(config, profile) ==
  LET Of(p) == IF p \in DOMAIN config THEN config[p] ELSE [account |-> "", source |-> ""]
      Third(one, two) == FirstGiven(<<one.account, two.account, Of(two.source).account>>)
      Second(one) == Third(one, Of(one.source))
  IN Second(Of(profile))

AwsNamed(env, x, named) ==
  LET profile == IF named = "" THEN "default" ELSE named
      file    == GetEnv(env, x, "AWS_CONFIG_FILE")
      config  == IF file \in DOMAIN AwsConfig THEN AwsConfig[file] ELSE <<>>
  IN IF named = "" /\ GetEnv(env, x, "AWS_ACCESS_KEY_ID") # "" THEN {}
     ELSE {<<"aws_profile", profile>>} \cup Known("aws_account", AwsAccount(config, profile))

AwsIdentity(args, env, x) ==
  AwsNamed(env, x, FirstGiven(<<FlagValue(args, {"--profile"}), GetEnv(env, x, "AWS_PROFILE"), GetEnv(env, x, "AWS_DEFAULT_PROFILE")>>))

KubeIdentity(args, env, x, flag) ==
  LET Files(given, listed) ==
        CASE given # <<>> -> FirstN(given, 1)
          [] given = <<>> /\ listed # "" -> KubeFiles[listed]
          [] OTHER -> <<"">>
      Found(files) == FirstGiven([i \in DOMAIN files |-> Given(KubeContext, files[i])])
      Context(given) == IF given # <<>> THEN given[1]
                        ELSE Found(Files(FlagValues(args, {"--kubeconfig"}), GetEnv(env, x, "KUBECONFIG")))
  IN Known("kube_context", Context(FlagValues(args, {flag})))

GcloudIdentity(args, env, x) ==
  LET At(dir) == IF dir \in DOMAIN GcloudConfig THEN GcloudConfig[dir] ELSE [active |-> "", project |-> <<>>]
      Configuration(at) == FirstGiven(<<FlagValue(args, {"--configuration"}), GetEnv(env, x, "CLOUDSDK_ACTIVE_CONFIG_NAME"), at.active, "default">>)
      Project(at) == FirstGiven(<<FlagValue(args, {"--project"}), GetEnv(env, x, "CLOUDSDK_CORE_PROJECT"), Given(at.project, Configuration(at))>>)
  IN Known("gcloud_project", Project(At(GetEnv(env, x, "CLOUDSDK_CONFIG"))))

AzureIdentity(args, env, x) ==
  LET Default(dir) == When(dir \in DOMAIN AzureDefault,
                           {<<"azure_subscription", AzureDefault[dir][1]>>, <<"azure_subscription_name", AzureDefault[dir][2]>>})
      By(given) == IF given # <<>> THEN {<<"azure_subscription", given[1]>>} ELSE Default(GetEnv(env, x, "AZURE_CONFIG_DIR"))
  IN By(FlagValues(args, {"--subscription"}))

TerraformIdentity(args, env, x) ==
  LET Dir(chdir) == IF chdir = "" THEN x.cwd ELSE Resolve(chdir, x.cwd)
      Selected == Given(TfWorkspace, Dir(FlagValue(args, {"-chdir"})))
  IN {<<"terraform_workspace", FirstGiven(<<GetEnv(env, x, "TF_WORKSPACE"), Selected, "default">>)>>}
     \cup Known("aws_profile", GetEnv(env, x, "AWS_PROFILE"))
     \cup Known("azure_subscription", GetEnv(env, x, "ARM_SUBSCRIPTION_ID"))
     \cup Known("gcloud_project", GetEnv(env, x, "GOOGLE_PROJECT"))

Identified(attrs) ==
  \E a \in attrs : a[1] \in {"aws_profile", "aws_account", "kube_context", "gcloud_project", "azure_subscription",
                             "terraform_workspace", "pulumi_stack"}

-----------------------------------------------------------------------------
(* What the command does to it; "" for what touches no cloud resource. *)

CloudCLIs == {"aws", "gcloud", "az", "kubectl", "helm", "terraform", "pulumi", "eksctl"}
CloudValued == {"--profile", "--region", "--output", "--project", "--subscription", "--context", "-n", "--namespace", "--kubeconfig",
                "-o", "--kube-context", "-s", "--stack", "--configuration", "-g", "-f", "--filename", "-target"}

Verb(verbs, destroy, read) ==
  CASE verbs \cap destroy # {} -> "cloud_destroy"
    [] verbs \cap destroy = {} /\ verbs \cap read # {} -> "access"
    [] OTHER -> "cloud_change"

\* The verbs stand for the prefixes of the code's regular expressions.
AwsDestroys == {"terminate-instances", "delete-bucket", "stop-instances"}
AwsReads == {"describe-instances", "list-buckets", "get-object"}
S3Urls == {"s3://bucket"}

AwsKind(pos, args) ==
  LET S3(verb, deletes) ==
        CASE verb \in {"rb", "rm", "mv"} \/ (verb = "sync" /\ deletes) -> "cloud_destroy"
          [] verb \in {"mb", "website"} \/ (verb = "sync" /\ ~deletes) -> "cloud_change"
          [] verb = "cp" /\ Len(pos) >= 4 /\ Last(pos) \in S3Urls -> "cloud_change"
          [] OTHER -> "access"
  IN CASE Len(pos) < 2 \/ Word(pos, 1) \in {"configure", "sso", "help", "history"} -> ""
       [] Len(pos) > 1 /\ pos[1] = "s3" -> S3(pos[2], HasFlag(args, {"--delete"}))
       [] OTHER -> Verb({pos[2]}, AwsDestroys, AwsReads)

CloudKind(prog, pos, args) ==
  LET Does(verb, next, destroys) ==
        CASE prog = "aws" -> AwsKind(pos, args)
          [] prog = "gcloud" -> IF verb \in {"config", "auth", "components", "info", "init"} THEN ""
                                ELSE Verb(ToWords(pos), {"delete", "remove", "destroy"}, {"list", "describe", "get", "show", "read"})
          [] prog = "az" -> IF verb \in {"login", "logout", "account", "config"} THEN ""
                            ELSE Verb(ToWords(pos), {"delete", "purge", "remove"}, {"list", "show", "get", "query", "download"})
          [] prog = "kubectl" -> IF verb \in {"config", "version", "explain"} THEN ""
                                 ELSE Verb({verb}, {"delete", "drain"}, {"get", "describe", "logs", "top", "diff", "port-forward"})
          [] prog = "helm" -> CASE verb \in {"uninstall", "delete", "del", "un"} -> "cloud_destroy"
                                [] verb \in {"install", "upgrade", "rollback", "i"} -> "cloud_change"
                                [] OTHER -> ""
          [] prog = "eksctl" -> Verb({verb}, {"delete", "drain"}, {"get", "info", "version", "utils"})
          [] prog = "terraform" ->
               CASE verb = "destroy" \/ (verb = "apply" /\ destroys) \/ (verb = "state" /\ next = "rm") -> "cloud_destroy"
                 [] verb \in {"import", "taint", "untaint", "run-all", "force-unlock"} \/ (verb = "apply" /\ ~destroys)
                    \/ (verb = "state" /\ next # "rm") -> "cloud_change"
                 [] verb \in {"plan", "refresh"} -> "access"
                 [] OTHER -> ""
          [] prog = "pulumi" ->
               CASE verb = "destroy" \/ (verb = "stack" /\ next = "rm") -> "cloud_destroy"
                 [] verb \in {"up", "update", "refresh", "import", "state", "cancel"} -> "cloud_change"
                 [] verb = "preview" -> "access"
                 [] OTHER -> ""
          [] OTHER -> ""
  IN IF pos = <<>> THEN "" ELSE Does(Word(pos, 1), Word(pos, 2), HasFlag(args, {"-destroy", "--destroy"}))

CloudIdentity(prog, args, env, x) ==
  CASE prog \in {"aws", "eksctl", "pulumi"} ->
         AwsIdentity(args, env, x) \cup When(prog = "pulumi", Known("pulumi_stack", FlagValue(args, {"-s", "--stack"})))
    [] prog = "gcloud" -> GcloudIdentity(args, env, x)
    [] prog = "az" -> AzureIdentity(args, env, x)
    [] prog \in {"kubectl", "helm"} -> KubeIdentity(args, env, x, IF prog = "helm" THEN "--kube-context" ELSE "--context")
    [] prog = "terraform" -> TerraformIdentity(args, env, x)

CloudActs(prog, args, pos, kind, known) ==
  When(kind # "", {Act(kind, <<prog>> \o FirstN(pos, 3), known \cup When(~Identified(known), {<<"target", "unknown">>}))})
  \cup When(prog = "kubectl" /\ Word(pos, 1) = "get" /\ Word(pos, 2) \in {"secret", "secrets"} /\ HasFlag(args, {"-o", "--output"}),
            {Act("credential_read", <<"kubectl", "get", "secrets">>, known)})

Cloud(prog, args, env, x) ==
  LET pos == Positional(args, CloudValued)
  IN CloudActs(prog, args, pos, CloudKind(prog, pos, args), CloudIdentity(prog, args, env, x))
=============================================================================
