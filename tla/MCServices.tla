----------------------------- MODULE MCServices -----------------------------
(* The services that share no state, checked in one run: the components are  *)
(* independent, so each behaviour moves one of them and the others stay in   *)
(* their initial states.                                                     *)
EXTENDS Access, Roles, ResetTokens, Realtime, CloudRun, Installation

VARIABLE part     \* the component that moves

\* slugify maps "user!" to "user", like the name that the CLI and the settings use
MCNames == {"User", "Superuser", "user!"}
MCBase == [n \in MCNames |-> IF n = "Superuser" THEN "superuser" ELSE "user"]
MCDefaults == <<"User", "Superuser">>

Parts == {"access", "roles", "tokens", "realtime", "cloudrun", "installation"}

ServicesTypeOK ==
  /\ part \in Parts
  /\ AccessTypeOK /\ RolesTypeOK /\ TokensTypeOK
  /\ RealtimeTypeOK /\ CloudTypeOK /\ InstallTypeOK

ServicesInit ==
  /\ part \in Parts
  /\ AccessInit /\ RolesInit /\ TokensInit
  /\ RealtimeInit /\ CloudInit /\ InstallInit
  \* only the component that moves has a choice of initial states
  /\ part # "access" => amended /\ hasRole = RoleSlugs
  /\ part # "tokens" => tokenDefaults
  /\ part # "installation" => dotenv = "unset"

Still(name, variables) == part # name => UNCHANGED variables

ServicesNext ==
  /\ \/ part = "access" /\ AccessNext
     \/ part = "roles" /\ RolesNext
     \/ part = "tokens" /\ TokensNext
     \/ part = "realtime" /\ RealtimeNext
     \/ part = "cloudrun" /\ CloudNext
     \/ part = "installation" /\ InstallNext
  /\ Still("access", accessVars) /\ Still("roles", roleVars) /\ Still("tokens", tokenVars)
  /\ Still("realtime", realtimeVars) /\ Still("cloudrun", cloudVars)
  /\ Still("installation", installVars)
  /\ UNCHANGED part

servicesVars == <<accessVars, roleVars, tokenVars, realtimeVars, cloudVars, installVars, part>>
ServicesSpec == ServicesInit /\ [][ServicesNext]_servicesVars

=============================================================================
