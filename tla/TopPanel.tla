------------------------------ MODULE TopPanel ------------------------------
(***************************************************************************)
(* The top of the page of ext-helicopter: tenants and projects to choose   *)
(* from (TopPanel.tsx), the choice the rest of the page works with         *)
(* (App.tsx), and the session: tokens in localStorage, Keycloak, the       *)
(* refresh every 15 minutes, logins and logouts, which leave the page and  *)
(* come back to a new one (TopMenu.tsx, keycloak.ts).  Answers are applied *)
(* in the order they arrive, and are rendered by a later step.             *)
(***************************************************************************)
EXTENDS Naturals, Sequences, FiniteSets, SequencesExt

CONSTANTS
  TenantLists,            \* lists of tenants the service may answer
  ProjectLists,           \* ProjectLists[t]: lists of projects of a tenant
  DefaultTenant, DefaultProject, FirstProject,
  MaxCalls,               \* bound: calls of the service in flight
  MaxActs,                \* bound: events of the user, ticks of the interval
  None                    \* undefined

VARIABLES
  projects, projectId,    \* the state of the panel with every answer applied
  tenantIds, tenantId,
  app,                    \* projectId and tenantId of App
  shown,                  \* the lists as rendered
  calls,                  \* getTenants and getProjects in flight, oldest first
  initializing,           \* keycloak.init in flight
  refreshes,              \* refreshToken() in flight
  jwt, refresh,           \* localStorage
  kcToken,                \* the token keycloak-js holds
  session,                \* the session at Keycloak
  isTokenValid,
  leaving,                \* "no", or the redirect the page waits for
  acts,
  owner,                  \* history: the tenant of the list of projects
  overtaken,              \* history: that list is the answer to an older call
  raced,                  \* history: a choice from a list that was being replaced
  out                     \* history: logged out, and nothing since to log in

lists == <<projects, projectId, tenantIds, tenantId, app, shown>>
token == <<jwt, refresh, kcToken, session, isTokenValid>>
history == <<owner, overtaken, raced>>
vars == <<lists, calls, initializing, refreshes, token, leaving, acts, history, out>>

Lists == [projects |-> projects, tenantIds |-> tenantIds]
Act == acts < MaxActs /\ acts' = acts + 1
Here == leaving = "no"

Tenants == UNION {ToSet(l) : l \in TenantLists}
Projects == {FirstProject} \cup UNION {UNION {ToSet(l) : l \in ProjectLists[t]} : t \in Tenants}

(* A list the service answers with is not empty, or it is the empty answer. *)
ASSUME ListsAssumption ==
  /\ \A l \in TenantLists : l \in Seq(Tenants) /\ l # <<>>
  /\ \A t \in Tenants : \A l \in ProjectLists[t] : l \in Seq(Projects) /\ l # <<>>

\* mutant: the default even if the list does not have it
PickDefault(list, default) == default

(* The default when the list has it, else the first. *)
Pick(list, default) == IF default \in ToSet(list) THEN default ELSE list[1]

(* A call, with the tenant, whether it carried a token, and (history) whether *)
(* a newer one has been answered.                                             *)
Call(op, t, stored) == [op |-> op, tenant |-> t, token |-> stored # "", old |-> FALSE]
GetTenants(stored) == Call("tenants", None, stored)
GetProjects(t) == Call("projects", t, jwt)

(* A new page: TopMenu's effect calls initKeycloak, TopPanel's loads tenants. *)
PageState ==
  /\ projects' = <<FirstProject>> /\ projectId' = FirstProject
  /\ tenantIds' = <<>> /\ tenantId' = None
  /\ app' = [projectId |-> FirstProject, tenantId |-> DefaultTenant]
  /\ shown' = [projects |-> <<FirstProject>>, tenantIds |-> <<>>]
  /\ calls' = <<GetTenants(jwt)>>
  /\ initializing' = TRUE
  /\ refreshes' = {}
  /\ kcToken' = FALSE
  /\ isTokenValid' = FALSE
  /\ leaving' = "no"
  /\ owner' = None /\ overtaken' = FALSE /\ raced' = FALSE

Init ==
  /\ projects = <<FirstProject>> /\ projectId = FirstProject
  /\ tenantIds = <<>> /\ tenantId = None
  /\ app = [projectId |-> FirstProject, tenantId |-> DefaultTenant]
  /\ shown = Lists
  /\ calls = <<GetTenants("")>>
  /\ initializing = TRUE
  /\ refreshes = {}
  /\ jwt = "" /\ refresh = ""
  /\ kcToken = FALSE
  /\ session \in BOOLEAN
  /\ isTokenValid = FALSE
  /\ leaving = "no"
  /\ acts = 0
  /\ owner = None /\ overtaken = FALSE /\ raced = FALSE
  /\ out = FALSE
-----------------------------------------------------------------------------
(* loadTenants after its await: the answer, the default and its projects. *)
TenantsAnswer(i, answer) ==
  LET rest == RemoveAt(calls, i)
  IN /\ calls[i].op = "tenants"
     /\ answer \in IF calls[i].token THEN TenantLists \cup {<<>>} ELSE {<<>>}
     /\ tenantIds' = answer
     /\ IF answer = <<>>
        THEN /\ calls' = rest
             /\ UNCHANGED <<tenantId, app>>
        ELSE /\ tenantId' = Pick(answer, DefaultTenant)
             /\ app' = [app EXCEPT !.tenantId = tenantId']
             /\ calls' = Append(rest, GetProjects(tenantId'))
     /\ UNCHANGED <<projects, projectId, shown, initializing, refreshes, token, leaving,
                    acts, history, out>>

(* The calls that are left once the i-th is answered: it has overtaken the older. *)
Outdated(i) ==
  RemoveAt([j \in DOMAIN calls |->
              IF j < i /\ calls[j].op = "projects" THEN [calls[j] EXCEPT !.old = TRUE]
              ELSE calls[j]], i)

(* loadProjects after its await, when it got a list. *)
SetProjects(answer) ==
  /\ projects' = answer
  /\ projectId' = Pick(answer, DefaultProject)
  /\ app' = [app EXCEPT !.projectId = projectId']

\* mutant: the panel does not tell App that there is no project
SetNoProjectsHere ==
  /\ projects' = <<>>
  /\ projectId' = ""
  /\ UNCHANGED app

(* The same when it got none: an empty list, or an error. *)
SetNoProjects ==
  /\ projects' = <<>>
  /\ projectId' = ""
  /\ app' = [app EXCEPT !.projectId = ""]

ProjectsAnswer(i, answer) ==
  LET call == calls[i]
  IN /\ call.op = "projects"
     /\ answer \in IF call.token THEN ProjectLists[call.tenant] \cup {<<>>} ELSE {<<>>}
     /\ IF answer = <<>> THEN SetNoProjects ELSE SetProjects(answer)
     /\ calls' = Outdated(i)
     /\ owner' = call.tenant
     /\ overtaken' = call.old
     /\ raced' = FALSE
     /\ UNCHANGED <<tenantIds, tenantId, shown, initializing, refreshes, token, leaving,
                    acts, out>>

(* A render, with the effect on projects and projectId. *)
Render ==
  /\ shown # Lists
  /\ shown' = Lists
  /\ IF projects = <<>> \/ projectId = ""
     THEN /\ projectId' = IF projects = <<>> THEN "" ELSE projects[1]
          /\ app' = [app EXCEPT !.projectId = projectId']
     ELSE UNCHANGED <<projectId, app>>
  /\ raced' = (raced /\ projects # <<>>)
  /\ UNCHANGED <<projects, tenantIds, tenantId, calls, initializing, refreshes, token,
                 leaving, acts, owner, overtaken, out>>

HandleProjectIdChange(p) ==
  /\ Act /\ Here
  /\ p \in ToSet(shown.projects)
  /\ projectId' = p
  /\ app' = [app EXCEPT !.projectId = p]
  /\ raced' = (p \notin ToSet(projects))
  /\ UNCHANGED <<projects, tenantIds, tenantId, shown, calls, initializing, refreshes,
                 token, leaving, owner, overtaken, out>>

\* mutant: another tenant, and its projects are not loaded
HandleTenantIdChangeOnly(t) ==
  /\ Act /\ Here
  /\ t \in ToSet(shown.tenantIds)
  /\ tenantId' = t
  /\ app' = [app EXCEPT !.tenantId = t]
  /\ UNCHANGED <<projects, projectId, tenantIds, shown, calls, initializing, refreshes,
                 token, leaving, history, out>>

HandleTenantIdChange(t) ==
  /\ Act /\ Here
  /\ t \in ToSet(shown.tenantIds)
  /\ Len(calls) < MaxCalls
  /\ tenantId' = t
  /\ app' = [app EXCEPT !.tenantId = t]
  /\ calls' = Append(calls, GetProjects(t))
  /\ UNCHANGED <<projects, projectId, tenantIds, shown, initializing, refreshes, token,
                 leaving, history, out>>
-----------------------------------------------------------------------------
(* keycloak.init answers: the tokens of a session it found, and loadTenants again. *)
Initialized(found) ==
  /\ initializing
  /\ initializing' = FALSE
  /\ found => session
  /\ IF found
     THEN /\ jwt' = "keycloak" /\ refresh' = "keycloak"
          /\ kcToken' = TRUE
          /\ isTokenValid' = TRUE
          /\ calls' = Append(calls, GetTenants(jwt'))
          /\ out' = FALSE
     ELSE /\ isTokenValid' = kcToken
          /\ UNCHANGED <<jwt, refresh, kcToken, calls, out>>
  /\ UNCHANGED <<lists, refreshes, session, leaving, acts, history>>

(* A token from the clipboard: the refresh token in the store is another's. *)
HandleJwtLogin ==
  /\ Act /\ Here
  /\ Len(calls) < MaxCalls
  /\ jwt' = "pasted"
  /\ calls' = Append(calls, GetTenants("pasted"))
  /\ out' = FALSE
  /\ UNCHANGED <<lists, initializing, refreshes, refresh, kcToken, session, isTokenValid,
                 leaving, history>>

\* mutant: the refresh token stays
LogoutToken ==
  /\ jwt' = ""
  /\ UNCHANGED refresh

(* logout(): both tokens leave the store. *)
Logout ==
  /\ jwt' = ""
  /\ refresh' = ""

HandleKeycloakAuth ==
  /\ Act /\ Here
  /\ IF kcToken
     THEN /\ Logout
          /\ isTokenValid' = FALSE
          /\ leaving' = "logout"
          /\ out' = TRUE
          /\ refreshes' = {[r EXCEPT !.old = TRUE] : r \in refreshes}
     ELSE /\ leaving' = "login"
          /\ UNCHANGED <<jwt, refresh, isTokenValid, out, refreshes>>
  /\ UNCHANGED <<lists, calls, initializing, kcToken, session, history>>

(* The page comes back from Keycloak, where the user has logged in or out or   *)
(* thought better of it; or the user reloads it. What was in flight is lost.  *)
Reload ==
  /\ Act
  /\ session' \in CASE leaving = "login" -> {session, TRUE}
                    [] leaving = "logout" -> {session, FALSE}
                    [] OTHER -> {session}
  /\ PageState
  /\ UNCHANGED <<jwt, refresh, out>>

(* The interval: refreshToken() reads the token it sends when it starts. *)
RefreshToken ==
  /\ Act
  /\ refreshes = {}
  /\ refreshes' = {[token |-> refresh, old |-> FALSE]}
  /\ UNCHANGED <<lists, calls, initializing, token, leaving, history, out>>

RefreshAnswer(r, ok) ==
  /\ r \in refreshes
  /\ refreshes' = refreshes \ {r}
  /\ ok => r.token # "" /\ (session \/ r.old)
  /\ IF ok
     THEN /\ jwt' = "keycloak" /\ refresh' = "keycloak"
          /\ out' = (out /\ ~ r.old)
     ELSE UNCHANGED <<jwt, refresh, out>>
  /\ isTokenValid' = ok
  /\ UNCHANGED <<lists, calls, initializing, kcToken, session, leaving, acts, history>>

Answers ==
  \/ \E i \in DOMAIN calls, a \in TenantLists \cup {<<>>} : TenantsAnswer(i, a)
  \/ \E i \in DOMAIN calls, a \in (UNION {ProjectLists[t] : t \in Tenants}) \cup {<<>>} :
       ProjectsAnswer(i, a)
  \/ \E found \in BOOLEAN : Initialized(found)
  \/ \E r \in refreshes, ok \in BOOLEAN : RefreshAnswer(r, ok)

Next ==
  \/ Answers
  \/ Render
  \/ \E p \in Projects : HandleProjectIdChange(p)
  \/ \E t \in Tenants : HandleTenantIdChange(t)
  \/ HandleJwtLogin
  \/ HandleKeycloakAuth
  \/ Reload
  \/ RefreshToken

Spec == Init /\ [][Next]_vars
-----------------------------------------------------------------------------
(* Types of the lists, the choices, the calls and the tokens. *)
TypeOK ==
  /\ projects \in Seq(Projects) /\ projectId \in Projects \cup {""}
  /\ tenantIds \in Seq(Tenants) /\ tenantId \in Tenants \cup {None}
  /\ app \in [projectId : Projects \cup {""}, tenantId : Tenants \cup {DefaultTenant}]
  /\ shown \in [projects : Seq(Projects), tenantIds : Seq(Tenants)]
  /\ calls \in Seq([op : {"tenants", "projects"}, tenant : Tenants \cup {None},
                    token : BOOLEAN, old : BOOLEAN])
  /\ refreshes \subseteq [token : {"", "keycloak"}, old : BOOLEAN]
  /\ jwt \in {"", "keycloak", "pasted"} /\ refresh \in {"", "keycloak"}
  /\ leaving \in {"no", "login", "logout"}

(* The diagram works with the project the panel shows, and with its tenant  *)
(* once there is one (TopPanel.tsx:40-110 sets a state of its own and App's  *)
(* in six places).                                                           *)
Mirror ==
  /\ app.projectId = projectId
  /\ tenantId # None => app.tenantId = tenantId

(* The chosen project is one of the list, or there is no list: whichever     *)
(* answers arrive in whichever order, unless the user chose from a list that *)
(* was just being replaced by another.                                       *)
ProjectListed ==
  \/ projectId \in ToSet(projects)
  \/ projects = <<>> /\ projectId = ""
  \/ raced

(* When nothing is in flight the projects are those of the chosen tenant,    *)
(* unless an older call was answered after a newer one.                      *)
ListsOfTenant ==
  (\A i \in DOMAIN calls : calls[i].op = "tenants") /\ ~ overtaken /\ tenantId # None
    => owner = tenantId

(* After a logout no interval and no reload brings a token back: only a login, *)
(* a pasted token, a session Keycloak still had, or a refresh that was in      *)
(* flight.                                                                     *)
LogoutForgets == out => jwt = ""
=============================================================================
