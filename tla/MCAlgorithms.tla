---------------------------- MODULE MCAlgorithms ----------------------------
(* The parts that have no concurrency of their own, checked in one run: each   *)
(* behaviour has one of them work, from any of its inputs, and the others stay *)
(* at one input.                                                              *)
EXTENDS Cron, Passwords, Validation, Discovery, Deploy

VARIABLE part     \* the part that works

\* A calendar of three months, in which a weekday falls on every day of a month
MCMonthDays == <<3, 4, 3>>
MCYears == {AnyValue, <<Value(1)>>, <<Value(2)>>, <<Span(5, 6, 1)>>}
MCExpressions ==
  [minute : {AnyValue, <<Value(1)>>, <<Span(3, 4, 1)>>},
   hour : {AnyValue, <<Every(2)>>},
   day : {AnyValue, <<Value(4)>>, <<Value(1), FromEvery(2, 2)>>},
   month : {AnyValue, <<Value(3)>>, <<Value(1), Value(3)>>, <<Value(4)>>},
   weekday : {AnyValue, <<Value(7)>>, <<Span(0, 7, 3)>>},
   year : MCYears]
MCZones == {[turn |-> t, at |-> 10] : t \in {"none", "back", "forward"}}

MCTexts == [f \in Fields |->
  CASE f = "email" ->
         {l \o d : l \in SeqOf({"a", "A", "1", ".", "+", "test", "noreply", "space", "!"}, 3),
                   d \in {<<>>} \cup {<<"@">> \o e : e \in
                     {<<"a", ".", "com">>, <<"A", ".", "com", "space">>, <<"mailinator", ".", "com">>,
                      <<"b", "-", ".", "com">>, <<"-", ".", "a", "b">>, <<"a", ".", ".", "com">>,
                      <<"a", ".", "a">>, <<"a", ".", "1", "com">>, <<"a", "@", "a", ".", "com">>}}}
    [] f = "name" -> SeqOf({"a", "1", "space", "tab"}, 6)
    [] f = "username" -> SeqOf({"a", "A", "ADMIN", "-", "space", "!"}, 5)
    [] f = "slug" -> SeqOf({"a", "A", "-", "underscore", "space"}, 5)
    [] f = "url" ->
         {s \o c \o h : s \in {<<>>, <<"http">>, <<"HTTP">>, <<"space", "https">>, <<"ftp">>,
                               <<"ctrl", "space", "http">>, <<"http", "tab">>, <<"http", "ctrl">>},
                         c \in {<<":">>, <<":", "/", "/">>, <<":", "tab", "/", "/">>},
                         h \in SeqOf({"a", "LOCALHOST", "/", ":", "@", "FILE", "tab"}, 3)}]
MCMaxLength == [f \in Fields |-> CASE f = "email" -> 6
                                   [] f \in {"slug", "username"} -> 4
                                   [] f = "name" -> 5
                                   [] f = "url" -> 8]
MCMinLength == [f \in Fields |-> CASE f \in {"email", "username"} -> 2
                                   [] f \in {"name", "slug"} -> 1
                                   [] OTHER -> 0]

\* The jobs of the accounts are one module. In the system, health re-registers, ad hoc, a
\* job that cleanup schedules.
MCPackages == {"system", "accounts", "tools"}
In(modules) == [i \in DOMAIN modules |-> <<"system", modules[i]>>]
MCJobModules == [p \in MCPackages |-> IF p = "system" THEN In(<<"cleanup", "health", "report">>) ELSE <<>>]
MCReExports == [p \in MCPackages |-> IF p = "system" THEN In(<<"cleanup", "health">>) ELSE <<>>]
MCRegisters == [x \in Sources |->
  CASE x[2] = "cleanup" -> <<[name |-> "clean", schedule |-> "cron"], [name |-> "sync", schedule |-> "cron"]>>
    [] x[2] = "health" -> <<[name |-> "check", schedule |-> "interval"], [name |-> "sync", schedule |-> "none"]>>
    [] x[2] = "report" \/ x = <<"accounts", "jobs">> -> <<[name |-> "send", schedule |-> "none"]>>
    [] OTHER -> <<>>]
MCClasses == [p \in MCPackages |->
  {[name |-> p, kind |-> k, imported |-> i, private |-> v] :
     k \in {"controller", "other"}, i \in BOOLEAN, v \in BOOLEAN}]
MCListeners == [p \in Packages |-> IF p = "accounts" THEN {"user_created"} ELSE {}]

MCManifests == <<"namespace", "secrets", "pvc", "statefulset", "deployment", "ingress">>

Parts == {"cron", "passwords", "validation", "discovery", "deploy"}

AlgorithmsTypeOK ==
  /\ part \in Parts
  /\ CronTypeOK /\ DiscoveryTypeOK /\ DeployTypeOK
  /\ field \in Fields /\ text \in Texts[field]

AnExpression == CHOOSE e \in Expressions : Valid(e)
APassword == CHOOSE p \in Passwords : TRUE
AZone == CHOOSE z \in Zones : TRUE
AStart == CHOOSE t \in Starts : TRUE

\* Every part starts in a state of its own; those that do not work, in one of them only.
AlgorithmsInit ==
  /\ part \in Parts
  /\ part # "validation" => field = "slug" /\ text = <<>>
  /\ ValidationInit
  /\ part # "passwords" => password = APassword
  /\ PasswordInit
  /\ part # "cron" => expression = AnExpression /\ zone = AZone /\ after = AStart
  /\ CronInit
  /\ part # "discovery" => fault = [x \in Sources |-> "none"]
  /\ DiscoveryInit
  /\ DeployInit /\ (part # "deploy" => environment = "dev" /\ asText)

Still(name, variables) == part # name => UNCHANGED variables

AlgorithmsNext ==
  /\ \/ part = "cron" /\ CronNext
     \/ part = "discovery" /\ DiscoveryNext
     \/ part = "deploy" /\ DeployNext
  /\ Still("cron", cronVars) /\ Still("discovery", discoveryVars) /\ Still("deploy", deployVars)
  /\ UNCHANGED <<password, field, text, part>>

algorithmsVars == <<cronVars, password, field, text, discoveryVars, deployVars, part>>
AlgorithmsSpec == AlgorithmsInit /\ [][AlgorithmsNext]_algorithmsVars

=============================================================================
