--------------------------- MODULE TopPanelProofs ---------------------------
(***************************************************************************)
(* What holds of the top panel and the session for any lists of tenants    *)
(* and projects, any number of calls, events and answers in any order.     *)
(***************************************************************************)
EXTENDS TopPanel, SequenceTheorems, TLAPS

(* What App keeps is a record with what the panel keeps; before the first tenant *)
(* App works with the default.                                                   *)
MirrorInv ==
  /\ app = [projectId |-> projectId, tenantId |-> app.tenantId]
  /\ tenantId # None => app.tenantId = tenantId

LEMMA StepMirror == MirrorInv /\ [Next]_vars => MirrorInv'
<1>. SUFFICES ASSUME MirrorInv, [Next]_vars PROVE MirrorInv'
  OBVIOUS
<1>1. ASSUME NEW i \in DOMAIN calls, NEW a \in TenantLists \cup {<<>>}, TenantsAnswer(i, a)
      PROVE MirrorInv'
  <2>1. CASE a = <<>> BY <1>1, <2>1 DEF TenantsAnswer, MirrorInv
  <2>2. CASE a # <<>> BY <1>1, <2>2 DEF TenantsAnswer, MirrorInv
  <2>. QED BY <2>1, <2>2
<1>2. ASSUME NEW i \in DOMAIN calls,
             NEW a \in (UNION {ProjectLists[t] : t \in Tenants}) \cup {<<>>},
             ProjectsAnswer(i, a)
      PROVE MirrorInv'
  <2>1. CASE a = <<>> BY <1>2, <2>1 DEF ProjectsAnswer, SetNoProjects, MirrorInv
  <2>2. CASE a # <<>> BY <1>2, <2>2 DEF ProjectsAnswer, SetProjects, MirrorInv
  <2>. QED BY <2>1, <2>2
<1>3. CASE \E found \in BOOLEAN : Initialized(found)
  BY <1>3 DEF Initialized, lists, MirrorInv
<1>4. CASE \E r \in refreshes, ok \in BOOLEAN : RefreshAnswer(r, ok)
  BY <1>4 DEF RefreshAnswer, lists, MirrorInv
<1>5. CASE Render
  <2>1. CASE projects = <<>> \/ projectId = "" BY <1>5, <2>1 DEF Render, MirrorInv
  <2>2. CASE ~ (projects = <<>> \/ projectId = "") BY <1>5, <2>2 DEF Render, MirrorInv
  <2>. QED BY <2>1, <2>2
<1>6. CASE \E p \in Projects : HandleProjectIdChange(p)
  BY <1>6 DEF HandleProjectIdChange, MirrorInv
<1>7. CASE \E t \in Tenants : HandleTenantIdChange(t)
  BY <1>7 DEF HandleTenantIdChange, MirrorInv
<1>8. CASE HandleJwtLogin \/ HandleKeycloakAuth \/ RefreshToken
  BY <1>8 DEF HandleJwtLogin, HandleKeycloakAuth, RefreshToken, lists, MirrorInv
<1>9. CASE Reload BY <1>9 DEF Reload, PageState, MirrorInv
<1>10. CASE UNCHANGED vars BY <1>10 DEF vars, lists, MirrorInv
<1>. QED
  BY <1>1, <1>2, <1>3, <1>4, <1>5, <1>6, <1>7, <1>8, <1>9, <1>10 DEF Next, Answers

(* The diagram works with the project and the tenant the panel shows: the six    *)
(* places that set one set the other (TopPanel.tsx:40-110).                       *)
THEOREM AlwaysMirror == Spec => []Mirror
<1>1. Init => MirrorInv
  <2>. SUFFICES ASSUME Init PROVE MirrorInv
    OBVIOUS
  <2>1. app = [projectId |-> projectId, tenantId |-> DefaultTenant] BY DEF Init
  <2>2. tenantId = None BY DEF Init
  <2>. QED BY <2>1, <2>2 DEF MirrorInv
<1>2. MirrorInv => Mirror BY DEF MirrorInv, Mirror
<1>. QED BY <1>1, <1>2, StepMirror, PTL DEF Spec
-----------------------------------------------------------------------------
LEMMA FirstIsMember ==
  ASSUME NEW S, NEW l \in Seq(S), l # <<>>
  PROVE  l[1] \in ToSet(l) /\ l[1] \in S
BY DEF ToSet

LEMMA PickIsMember ==
  ASSUME NEW S, NEW l \in Seq(S), l # <<>>, NEW default
  PROVE  Pick(l, default) \in ToSet(l)
BY FirstIsMember DEF Pick

LEMMA Empty == <<>> \in Seq(Projects)
OBVIOUS

LEMMA ListsAreTyped ==
  ASSUME NEW a \in (UNION {ProjectLists[t] : t \in Tenants}) \cup {<<>>}, a # <<>>
  PROVE  a \in Seq(Projects)
<1>1. PICK t \in Tenants : a \in ProjectLists[t]
  OBVIOUS
<1>. QED BY <1>1, ListsAssumption

ProjectInv == ProjectListed /\ projects \in Seq(Projects)

LEMMA StepProject == ProjectInv /\ [Next]_vars => ProjectInv'
<1>. SUFFICES ASSUME ProjectInv, [Next]_vars PROVE ProjectInv'
  OBVIOUS
<1>1. ASSUME NEW i \in DOMAIN calls, NEW a \in TenantLists \cup {<<>>}, TenantsAnswer(i, a)
      PROVE ProjectInv'
  BY <1>1 DEF TenantsAnswer, history, ProjectInv, ProjectListed
<1>2. ASSUME NEW i \in DOMAIN calls,
             NEW a \in (UNION {ProjectLists[t] : t \in Tenants}) \cup {<<>>},
             ProjectsAnswer(i, a)
      PROVE ProjectInv'
  <2>1. CASE a = <<>>
    <3>1. projects' = <<>> /\ projectId' = ""
      BY <1>2, <2>1 DEF ProjectsAnswer, SetNoProjects
    <3>. QED BY <3>1, Empty DEF ProjectInv, ProjectListed
  <2>2. CASE a # <<>>
    <3>2. a \in Seq(Projects) BY <2>2, ListsAreTyped
    <3>3. Pick(a, DefaultProject) \in ToSet(a) BY <2>2, <3>2, PickIsMember
    <3>4. projects' = a /\ projectId' = Pick(a, DefaultProject)
      BY <1>2, <2>2 DEF ProjectsAnswer, SetProjects
    <3>. QED BY <3>2, <3>3, <3>4 DEF ProjectInv, ProjectListed
  <2>. QED BY <2>1, <2>2
<1>3. CASE \E found \in BOOLEAN : Initialized(found)
  <2>1. UNCHANGED <<projects, projectId, raced>> BY <1>3 DEF Initialized, lists, history
  <2>. QED BY <2>1 DEF ProjectInv, ProjectListed
<1>4. CASE \E r \in refreshes, ok \in BOOLEAN : RefreshAnswer(r, ok)
  <2>1. UNCHANGED <<projects, projectId, raced>> BY <1>4 DEF RefreshAnswer, lists, history
  <2>. QED BY <2>1 DEF ProjectInv, ProjectListed
<1>5. CASE Render
  <2>1. CASE projects = <<>> BY <1>5, <2>1 DEF Render, ProjectInv, ProjectListed
  <2>2. CASE projects # <<>> /\ projectId = ""
    <3>1. projects[1] \in ToSet(projects) BY <2>2, FirstIsMember DEF ProjectInv
    <3>. QED BY <1>5, <2>2, <3>1 DEF Render, ProjectInv, ProjectListed
  <2>3. CASE projects # <<>> /\ projectId # ""
    BY <1>5, <2>3 DEF Render, ProjectInv, ProjectListed
  <2>. QED BY <2>1, <2>2, <2>3
<1>6. CASE \E p \in Projects : HandleProjectIdChange(p)
  BY <1>6 DEF HandleProjectIdChange, ProjectInv, ProjectListed
<1>7. CASE \E t \in Tenants : HandleTenantIdChange(t)
  <2>1. UNCHANGED <<projects, projectId, raced>> BY <1>7 DEF HandleTenantIdChange, history
  <2>. QED BY <2>1 DEF ProjectInv, ProjectListed
<1>8. CASE HandleJwtLogin \/ HandleKeycloakAuth \/ RefreshToken
  BY <1>8 DEF HandleJwtLogin, HandleKeycloakAuth, RefreshToken, lists, history,
              ProjectInv, ProjectListed
<1>9. CASE Reload
  <2>1. <<FirstProject>> \in Seq(Projects) BY DEF Projects
  <2>2. FirstProject \in ToSet(<<FirstProject>>) BY <2>1, FirstIsMember
  <2>. QED BY <1>9, <2>1, <2>2 DEF Reload, PageState, ProjectInv, ProjectListed
<1>10. CASE UNCHANGED vars BY <1>10 DEF vars, lists, history, ProjectInv, ProjectListed
<1>. QED
  BY <1>1, <1>2, <1>3, <1>4, <1>5, <1>6, <1>7, <1>8, <1>9, <1>10 DEF Next, Answers

(* The chosen project is one of the projects listed, whichever answers arrive in *)
(* whichever order (TopPanel.tsx:40-110), or it was chosen from a list that was   *)
(* being replaced.                                                                *)
THEOREM AlwaysListed == Spec => []ProjectListed
<1>1. Init => ProjectInv
  <2>1. <<FirstProject>> \in Seq(Projects) BY DEF Projects
  <2>2. FirstProject \in ToSet(<<FirstProject>>) BY <2>1, FirstIsMember
  <2>. QED BY <2>1, <2>2 DEF Init, ProjectInv, ProjectListed
<1>2. ProjectInv => ProjectListed BY DEF ProjectInv
<1>. QED BY <1>1, <1>2, StepProject, PTL DEF Spec
-----------------------------------------------------------------------------
(* Why nobody is logged in again: both tokens have left the store, and a refresh *)
(* on the way was there before the logout or carries no token.                   *)
OutInv ==
  /\ out \in BOOLEAN
  /\ refreshes \subseteq [token : {"", "keycloak"}, old : BOOLEAN]
  /\ refresh \in {"", "keycloak"}
  /\ out => /\ jwt = "" /\ refresh = ""
            /\ \A r \in refreshes : r.old \/ r.token = ""

LEMMA StepOut == OutInv /\ [Next]_vars => OutInv'
<1>. SUFFICES ASSUME OutInv, [Next]_vars PROVE OutInv'
  OBVIOUS
<1>1. CASE \E i \in DOMAIN calls, a \in TenantLists \cup {<<>>} : TenantsAnswer(i, a)
  <2>1. UNCHANGED <<out, refreshes, jwt, refresh>> BY <1>1 DEF TenantsAnswer, token
  <2>. QED BY <2>1 DEF OutInv
<1>2. CASE \E i \in DOMAIN calls, a \in (UNION {ProjectLists[t] : t \in Tenants}) \cup {<<>>} :
             ProjectsAnswer(i, a)
  <2>1. UNCHANGED <<out, refreshes, jwt, refresh>> BY <1>2 DEF ProjectsAnswer, token
  <2>. QED BY <2>1 DEF OutInv
<1>3. ASSUME NEW found \in BOOLEAN, Initialized(found) PROVE OutInv'
  <2>1. CASE found BY <1>3, <2>1 DEF Initialized, OutInv
  <2>2. CASE ~ found BY <1>3, <2>2 DEF Initialized, OutInv
  <2>. QED BY <2>1, <2>2
<1>4. ASSUME NEW r \in refreshes, NEW ok \in BOOLEAN, RefreshAnswer(r, ok) PROVE OutInv'
  <2>1. CASE ok BY <1>4, <2>1 DEF RefreshAnswer, OutInv
  <2>2. CASE ~ ok BY <1>4, <2>2 DEF RefreshAnswer, OutInv
  <2>. QED BY <2>1, <2>2
<1>5. CASE Render \/ (\E p \in Projects : HandleProjectIdChange(p))
                  \/ (\E t \in Tenants : HandleTenantIdChange(t))
  <2>1. UNCHANGED <<out, refreshes, jwt, refresh>>
    BY <1>5 DEF Render, HandleProjectIdChange, HandleTenantIdChange, token
  <2>. QED BY <2>1 DEF OutInv
<1>6. CASE HandleJwtLogin BY <1>6 DEF HandleJwtLogin, OutInv
<1>7. CASE HandleKeycloakAuth
  <2>1. CASE kcToken
    <3>1. \A r \in refreshes : [r EXCEPT !.old = TRUE] \in [token : {"", "keycloak"}, old : BOOLEAN]
      BY DEF OutInv
    <3>2. \A r \in refreshes : [r EXCEPT !.old = TRUE].old = TRUE BY DEF OutInv
    <3>3. /\ out' = TRUE /\ jwt' = "" /\ refresh' = ""
          /\ refreshes' = {[r EXCEPT !.old = TRUE] : r \in refreshes}
      BY <1>7, <2>1 DEF HandleKeycloakAuth, Logout
    <3>4. refreshes' \subseteq [token : {"", "keycloak"}, old : BOOLEAN] BY <3>1, <3>3
    <3>5. \A r \in refreshes' : r.old = TRUE BY <3>2, <3>3
    <3>. QED BY <3>3, <3>4, <3>5 DEF OutInv
  <2>2. CASE ~ kcToken BY <1>7, <2>2 DEF HandleKeycloakAuth, OutInv
  <2>. QED BY <2>1, <2>2
<1>8. CASE RefreshToken
  <2>1. /\ UNCHANGED <<out, jwt, refresh>>
        /\ refreshes' = {[token |-> refresh, old |-> FALSE]}
    BY <1>8 DEF RefreshToken, token
  <2>a. [token |-> refresh, old |-> FALSE] \in [token : {"", "keycloak"}, old : BOOLEAN]
    BY DEF OutInv
  <2>2. refreshes' \subseteq [token : {"", "keycloak"}, old : BOOLEAN] BY <2>1, <2>a
  <2>3. \A r \in refreshes' : r.token = refresh BY <2>1
  <2>. QED BY <2>1, <2>2, <2>3 DEF OutInv
<1>9. CASE Reload BY <1>9 DEF Reload, PageState, OutInv
<1>10. CASE UNCHANGED vars
  <2>1. UNCHANGED <<out, refreshes, jwt, refresh>> BY <1>10 DEF vars, token
  <2>. QED BY <2>1 DEF OutInv
<1>. QED
  BY <1>1, <1>2, <1>3, <1>4, <1>5, <1>6, <1>7, <1>8, <1>9, <1>10 DEF Next, Answers

(* A logout is final: no interval and no reload brings a token back              *)
(* (TopMenu.tsx:60-86), other than a refresh that was in flight.                  *)
THEOREM LogoutIsFinal == Spec => []LogoutForgets
<1>1. Init => OutInv BY DEF Init, OutInv
<1>2. OutInv => LogoutForgets BY DEF OutInv, LogoutForgets
<1>. QED BY <1>1, <1>2, StepOut, PTL DEF Spec
-----------------------------------------------------------------------------
(* The types, in three parts that different steps disturb. *)
Calls == [op : {"tenants", "projects"}, tenant : Tenants \cup {None},
          token : BOOLEAN, old : BOOLEAN]
Refreshes == [token : {"", "keycloak"}, old : BOOLEAN]
ListsType ==
  /\ projects \in Seq(Projects) /\ projectId \in Projects \cup {""}
  /\ tenantIds \in Seq(Tenants) /\ tenantId \in Tenants \cup {None}
  /\ app \in [projectId : Projects \cup {""}, tenantId : Tenants \cup {DefaultTenant}]
  /\ shown \in [projects : Seq(Projects), tenantIds : Seq(Tenants)]
CallsType == calls \in Seq(Calls)
TokenType ==
  /\ refreshes \subseteq Refreshes
  /\ jwt \in {"", "keycloak", "pasted"} /\ refresh \in {"", "keycloak"}
  /\ leaving \in {"no", "login", "logout"}

LEMMA CallType ==
  /\ \A stored : GetTenants(stored) \in Calls
  /\ \A t \in Tenants : GetProjects(t) \in Calls
BY DEF GetTenants, GetProjects, Call, Calls

LEMMA Removed ==
  ASSUME NEW S, NEW s \in Seq(S), NEW i \in DOMAIN s
  PROVE  RemoveAt(s, i) \in Seq(S)
<1>1. Len(s) \in Nat /\ DOMAIN s = 1..Len(s) BY LenProperties
<1>2. \A j \in 1..Len(s) : s[j] \in S BY ElementOfSeq
<1>3. SubSeq(s, 1, i - 1) \in Seq(S)
  <2>1. 1 \in Int /\ i - 1 \in Int /\ \A j \in 1 .. (i - 1) : s[j] \in S BY <1>1, <1>2
  <2>. QED BY <2>1, SubSeqProperties
<1>4. SubSeq(s, i + 1, Len(s)) \in Seq(S)
  <2>1. i + 1 \in Int /\ Len(s) \in Int /\ \A j \in (i + 1) .. Len(s) : s[j] \in S
    BY <1>1, <1>2
  <2>. QED BY <2>1, SubSeqProperties
<1>. QED BY <1>3, <1>4, ConcatProperties DEF RemoveAt

LEMMA StillCalls ==
  ASSUME CallsType, NEW i \in DOMAIN calls
  PROVE  Outdated(i) \in Seq(Calls)
<1>. DEFINE l == [j \in DOMAIN calls |->
                    IF j < i /\ calls[j].op = "projects" THEN [calls[j] EXCEPT !.old = TRUE]
                    ELSE calls[j]]
<1>1. Len(calls) \in Nat /\ DOMAIN calls = 1..Len(calls) BY LenProperties DEF CallsType
<1>2. \A j \in 1..Len(calls) : calls[j] \in Calls BY ElementOfSeq DEF CallsType
<1>3. \A j \in 1..Len(calls) : [calls[j] EXCEPT !.old = TRUE] \in Calls BY <1>2 DEF Calls
<1>4. l \in Seq(Calls) /\ DOMAIN l = DOMAIN calls BY <1>1, <1>2, <1>3, IsASeq
<1>. HIDE DEF l
<1>5. RemoveAt(l, i) \in Seq(Calls) BY <1>4, Removed
<1>. QED BY <1>5 DEF Outdated, l

LEMMA PageTypes ==
  PageState => ListsType' /\ CallsType' /\ refreshes' = {} /\ leaving' = "no"
<1>. SUFFICES ASSUME PageState PROVE ListsType' /\ CallsType'
  BY DEF PageState
<1>1. <<FirstProject>> \in Seq(Projects) /\ FirstProject \in Projects BY DEF Projects
<1>a. <<>> \in Seq(Tenants) OBVIOUS
<1>2. ListsType' BY <1>1, <1>a DEF PageState, ListsType
<1>3. calls' = <<GetTenants(jwt)>> BY DEF PageState
<1>4. CallsType' BY <1>3, CallType DEF CallsType
<1>. QED BY <1>2, <1>4

LEMMA TenantsType ==
  ASSUME ListsType, CallsType, NEW i \in DOMAIN calls,
         NEW a \in TenantLists \cup {<<>>}, TenantsAnswer(i, a)
  PROVE  ListsType' /\ CallsType'
<1>1. RemoveAt(calls, i) \in Seq(Calls) BY Removed DEF CallsType
<1>2. CASE a = <<>>
  <2>1. /\ tenantIds' = <<>> /\ calls' = RemoveAt(calls, i)
        /\ UNCHANGED <<projects, projectId, tenantId, app, shown>>
    BY <1>2 DEF TenantsAnswer
  <2>2. <<>> \in Seq(Tenants) OBVIOUS
  <2>. QED BY <1>1, <2>1, <2>2 DEF ListsType, CallsType
<1>3. CASE a # <<>>
  <2>1. a \in Seq(Tenants) BY <1>3, ListsAssumption
  <2>2. Pick(a, DefaultTenant) \in Tenants BY <1>3, <2>1, PickIsMember DEF ToSet
  <2>3. /\ tenantIds' = a /\ tenantId' = Pick(a, DefaultTenant)
        /\ app' = [app EXCEPT !.tenantId = tenantId']
        /\ calls' = Append(RemoveAt(calls, i), GetProjects(tenantId'))
        /\ UNCHANGED <<projects, projectId, shown>>
    BY <1>3 DEF TenantsAnswer
  <2>4. ListsType' BY <2>1, <2>2, <2>3 DEF ListsType
  <2>5. GetProjects(tenantId') \in Calls BY <2>2, <2>3, CallType
  <2>6. CallsType' BY <1>1, <2>3, <2>5, AppendProperties DEF CallsType
  <2>. QED BY <2>4, <2>6
<1>. QED BY <1>2, <1>3

LEMMA ProjectsType ==
  ASSUME ListsType, CallsType, NEW i \in DOMAIN calls,
         NEW a \in (UNION {ProjectLists[t] : t \in Tenants}) \cup {<<>>}, ProjectsAnswer(i, a)
  PROVE  ListsType' /\ CallsType'
<1>1. CallsType' BY StillCalls DEF ProjectsAnswer, CallsType
<1>2. CASE a = <<>>
  <2>1. /\ projects' = <<>> /\ projectId' = "" /\ app' = [app EXCEPT !.projectId = ""]
        /\ UNCHANGED <<tenantIds, tenantId, shown>>
    BY <1>2 DEF ProjectsAnswer, SetNoProjects
  <2>. QED BY <1>1, <2>1, Empty DEF ListsType
<1>3. CASE a # <<>>
  <2>1. a \in Seq(Projects) BY <1>3, ListsAreTyped
  <2>2. Pick(a, DefaultProject) \in Projects BY <1>3, <2>1, PickIsMember DEF ToSet
  <2>3. /\ projects' = a /\ projectId' = Pick(a, DefaultProject)
        /\ app' = [app EXCEPT !.projectId = projectId']
        /\ UNCHANGED <<tenantIds, tenantId, shown>>
    BY <1>3 DEF ProjectsAnswer, SetProjects
  <2>. QED BY <1>1, <2>1, <2>2, <2>3 DEF ListsType
<1>. QED BY <1>2, <1>3

LEMMA StepLists == ListsType /\ CallsType /\ [Next]_vars => ListsType' /\ CallsType'
<1>. SUFFICES ASSUME ListsType, CallsType, [Next]_vars PROVE ListsType' /\ CallsType'
  OBVIOUS
<1>1. CASE \E found \in BOOLEAN : Initialized(found)
  <2>1. UNCHANGED lists /\ (calls' = Append(calls, GetTenants(jwt')) \/ calls' = calls)
    BY <1>1 DEF Initialized
  <2>2. CallsType' BY <2>1, CallType, AppendProperties DEF CallsType
  <2>. QED BY <2>1, <2>2 DEF lists, ListsType
<1>2. CASE Render
  <2>1. /\ UNCHANGED <<projects, tenantIds, tenantId, calls>>
        /\ shown' = [projects |-> projects, tenantIds |-> tenantIds]
    BY <1>2 DEF Render, Lists
  <2>2. projectId' \in Projects \cup {""} /\
        app' \in [projectId : Projects \cup {""}, tenantId : Tenants \cup {DefaultTenant}]
    <3>1. CASE projects = <<>> BY <1>2, <3>1 DEF Render, ListsType
    <3>2. CASE projects # <<>> /\ projectId = ""
      <4>1. projects[1] \in Projects BY <3>2, FirstIsMember DEF ListsType
      <4>. QED BY <1>2, <3>2, <4>1 DEF Render, ListsType
    <3>3. CASE projects # <<>> /\ projectId # ""
      BY <1>2, <3>3 DEF Render, ListsType
    <3>. QED BY <3>1, <3>2, <3>3
  <2>. QED BY <2>1, <2>2 DEF ListsType, CallsType
<1>3. CASE \E p \in Projects : HandleProjectIdChange(p)
  BY <1>3 DEF HandleProjectIdChange, ListsType, CallsType
<1>4. ASSUME NEW t \in Tenants, HandleTenantIdChange(t) PROVE ListsType' /\ CallsType'
  <2>1. ListsType' BY <1>4 DEF HandleTenantIdChange, ListsType
  <2>2. CallsType' BY <1>4, CallType, AppendProperties DEF HandleTenantIdChange, CallsType
  <2>. QED BY <2>1, <2>2
<1>5. CASE HandleJwtLogin
  <2>1. UNCHANGED lists /\ calls' = Append(calls, GetTenants("pasted"))
    BY <1>5 DEF HandleJwtLogin
  <2>2. CallsType' BY <2>1, CallType, AppendProperties DEF CallsType
  <2>. QED BY <2>1, <2>2 DEF lists, ListsType
<1>6. CASE \/ HandleKeycloakAuth \/ RefreshToken
           \/ \E r \in refreshes, ok \in BOOLEAN : RefreshAnswer(r, ok)
           \/ UNCHANGED vars
  <2>1. UNCHANGED lists /\ UNCHANGED calls
    BY <1>6 DEF HandleKeycloakAuth, RefreshToken, RefreshAnswer, vars
  <2>. QED BY <2>1 DEF lists, ListsType, CallsType
<1>7. CASE Reload BY <1>7, PageTypes DEF Reload
<1>. QED
  BY <1>1, <1>2, <1>3, <1>4, <1>5, <1>6, <1>7, TenantsType, ProjectsType DEF Next, Answers

LEMMA StepToken == TokenType /\ OutInv /\ [Next]_vars => TokenType'
<1>. SUFFICES ASSUME TokenType, OutInv, [Next]_vars PROVE TokenType'
  OBVIOUS
<1>1. OutInv' BY StepOut
<1>2. CASE \/ \E i \in DOMAIN calls, a \in TenantLists \cup {<<>>} : TenantsAnswer(i, a)
           \/ \E i \in DOMAIN calls,
                 a \in (UNION {ProjectLists[t] : t \in Tenants}) \cup {<<>>} :
                   ProjectsAnswer(i, a)
           \/ Render
           \/ \E p \in Projects : HandleProjectIdChange(p)
           \/ \E t \in Tenants : HandleTenantIdChange(t)
           \/ UNCHANGED vars
  <2>1. UNCHANGED <<jwt, leaving>>
    BY <1>2 DEF TenantsAnswer, ProjectsAnswer, Render, HandleProjectIdChange,
                HandleTenantIdChange, token, vars
  <2>. QED BY <1>1, <2>1 DEF TokenType, OutInv, Refreshes
<1>3. CASE \/ \E found \in BOOLEAN : Initialized(found)
           \/ HandleJwtLogin \/ HandleKeycloakAuth \/ RefreshToken
           \/ \E r \in refreshes, ok \in BOOLEAN : RefreshAnswer(r, ok)
  <2>1. jwt' \in {"", "keycloak", "pasted"} /\ leaving' \in {"no", "login", "logout"}
    BY <1>3 DEF Initialized, HandleJwtLogin, HandleKeycloakAuth, Logout, RefreshToken,
                RefreshAnswer, token, TokenType
  <2>. QED BY <1>1, <2>1 DEF TokenType, OutInv, Refreshes
<1>4. CASE Reload
  <2>1. jwt' = jwt /\ leaving' = "no" BY <1>4 DEF Reload, PageState
  <2>. QED BY <1>1, <2>1 DEF TokenType, OutInv, Refreshes
<1>. QED BY <1>2, <1>3, <1>4 DEF Next, Answers

LEMMA InitType == Init => ListsType /\ CallsType /\ TokenType /\ OutInv
<1>. SUFFICES ASSUME Init PROVE ListsType /\ CallsType /\ TokenType /\ OutInv
  OBVIOUS
<1>1. <<FirstProject>> \in Seq(Projects) /\ FirstProject \in Projects BY DEF Projects
<1>a. <<>> \in Seq(Tenants) OBVIOUS
<1>b. Lists = [projects |-> <<FirstProject>>, tenantIds |-> <<>>] BY DEF Init, Lists
<1>2. ListsType BY <1>1, <1>a, <1>b DEF Init, ListsType
<1>3. CallsType
  <2>. DEFINE c == GetTenants("")
  <2>1. c \in Calls BY CallType
  <2>2. calls = <<c>> BY DEF Init
  <2>. HIDE DEF c
  <2>. QED BY <2>1, <2>2 DEF CallsType
<1>4. TokenType /\ OutInv BY DEF Init, TokenType, OutInv
<1>. QED BY <1>2, <1>3, <1>4

(* Whichever answers arrive in whichever order, the lists, the choices, the calls *)
(* and the tokens are of their types: a choice is made from a list of its type.    *)
THEOREM TypeCorrect == Spec => []TypeOK
<1>. DEFINE TInv == ListsType /\ CallsType /\ TokenType /\ OutInv
<1>1. Init => TInv BY InitType
<1>2. TInv /\ [Next]_vars => TInv' BY StepLists, StepToken, StepOut
<1>3. TInv => TypeOK BY DEF ListsType, CallsType, TokenType, TypeOK, Calls, Refreshes
<1>. QED BY <1>1, <1>2, <1>3, PTL DEF Spec
-----------------------------------------------------------------------------
LEMMA RemovedAt ==
  ASSUME NEW S, NEW s \in Seq(S), NEW i \in DOMAIN s
  PROVE  /\ Len(RemoveAt(s, i)) = Len(s) - 1
         /\ DOMAIN RemoveAt(s, i) = 1 .. (Len(s) - 1)
         /\ \A j \in 1 .. (Len(s) - 1) : RemoveAt(s, i)[j] = IF j < i THEN s[j] ELSE s[j + 1]
<1>. DEFINE a == SubSeq(s, 1, i - 1)
            b == SubSeq(s, i + 1, Len(s))
            r == a \o b
<1>1. Len(s) \in Nat /\ i \in 1..Len(s) BY LenProperties
<1>2. \A j \in 1..Len(s) : s[j] \in S BY ElementOfSeq
<1>3. /\ a \in Seq(S) /\ Len(a) = i - 1
      /\ \A j \in 1 .. (i - 1) : a[j] = s[j]
  <2>1. 1 \in Int /\ i - 1 \in Int /\ \A j \in 1 .. (i - 1) : s[j] \in S BY <1>1, <1>2
  <2>2. /\ a \in Seq(S) /\ Len(a) = IF 1 <= i - 1 THEN i - 1 - 1 + 1 ELSE 0
        /\ \A j \in 1 .. i - 1 - 1 + 1 : a[j] = s[1 + j - 1]
    BY <2>1, SubSeqProperties
  <2>3. i - 1 - 1 + 1 = i - 1 /\ \A j \in Nat : 1 + j - 1 = j BY <1>1
  <2>. QED BY <2>2, <2>3, <1>1
<1>4. /\ b \in Seq(S) /\ Len(b) = Len(s) - i
      /\ \A j \in 1 .. (Len(s) - i) : b[j] = s[i + j]
  <2>1. i + 1 \in Int /\ Len(s) \in Int /\ \A j \in (i + 1) .. Len(s) : s[j] \in S
    BY <1>1, <1>2
  <2>2. /\ b \in Seq(S) /\ Len(b) = IF i + 1 <= Len(s) THEN Len(s) - (i + 1) + 1 ELSE 0
        /\ \A j \in 1 .. Len(s) - (i + 1) + 1 : b[j] = s[i + 1 + j - 1]
    BY <2>1, SubSeqProperties
  <2>3. Len(s) - (i + 1) + 1 = Len(s) - i /\ (i + 1 <= Len(s) <=> 0 < Len(s) - i) BY <1>1
  <2>4. Len(b) = Len(s) - i BY <2>2, <2>3, <1>1
  <2>5. ASSUME NEW j \in 1 .. (Len(s) - i) PROVE b[j] = s[i + j]
    <3>1. i + 1 + j - 1 = i + j BY <1>1
    <3>. QED BY <2>2, <2>3, <3>1
  <2>. QED BY <2>2, <2>4, <2>5
<1>. HIDE DEF a, b
<1>5. /\ r \in Seq(S) /\ Len(r) = Len(a) + Len(b)
      /\ \A j \in 1 .. Len(a) + Len(b) : r[j] = IF j <= Len(a) THEN a[j] ELSE b[j - Len(a)]
  BY <1>3, <1>4, ConcatProperties
<1>6. Len(a) + Len(b) = Len(s) - 1 BY <1>1, <1>3, <1>4
<1>. HIDE DEF r
<1>7. ASSUME NEW j \in 1 .. (Len(s) - 1) PROVE r[j] = IF j < i THEN s[j] ELSE s[j + 1]
  <2>1. CASE j < i
    <3>0. j \in 1 .. Len(a) + Len(b) /\ j <= Len(a) BY <1>1, <1>3, <1>6, <2>1
    <3>1. r[j] = a[j] BY <1>5, <3>0
    <3>. QED BY <1>1, <1>3, <2>1, <3>1
  <2>2. CASE ~ (j < i)
    <3>0. j \in 1 .. Len(a) + Len(b) /\ ~ (j <= Len(a)) /\ Len(a) = i - 1
      BY <1>1, <1>3, <1>6, <2>2
    <3>1. r[j] = b[j - (i - 1)] BY <1>5, <3>0
    <3>2. j - (i - 1) \in 1 .. (Len(s) - i) /\ i + (j - (i - 1)) = j + 1 BY <1>1, <2>2
    <3>3. b[j - (i - 1)] = s[i + (j - (i - 1))] BY <1>4, <3>2
    <3>. QED BY <2>2, <3>1, <3>2, <3>3
  <2>. QED BY <2>1, <2>2
<1>8. RemoveAt(s, i) = r BY DEF RemoveAt, r, a, b
<1>9. DOMAIN r = 1 .. (Len(s) - 1) BY <1>5, <1>6, LenProperties
<1>. QED BY <1>5, <1>6, <1>7, <1>8, <1>9

(* The call for the projects of the chosen tenant is the newest of its kind, and *)
(* not overtaken; or it has been answered, and only older calls are left.        *)
Newest(k) == /\ calls[k].op = "projects" /\ ~ calls[k].old
             /\ \A j \in DOMAIN calls : j > k => calls[j].op # "projects"
Awaited(t) == \E k \in DOMAIN calls : Newest(k) /\ calls[k].tenant = t
Settled(t) == /\ \A j \in DOMAIN calls : calls[j].op = "projects" => calls[j].old
              /\ overtaken \/ owner = t
TenantInv == tenantId # None => Awaited(tenantId) \/ Settled(tenantId)

LEMMA Unmarked == \A t : ~ GetProjects(t).old /\ GetProjects(t).op = "projects" /\ GetProjects(t).tenant = t
BY DEF GetProjects, Call

LEMMA NotProjects == \A stored : GetTenants(stored).op = "tenants"
BY DEF GetTenants, Call

(* A new call for the projects of t is the newest. *)
LEMMA Asking ==
  ASSUME NEW S, NEW l \in Seq(S), NEW t, GetProjects(t) \in S, calls' = Append(l, GetProjects(t))
  PROVE  Awaited(t)'
<1>. DEFINE c == GetProjects(t)
            k == Len(l) + 1
<1>1. c \in S /\ ~ c.old /\ c.op = "projects" /\ c.tenant = t BY Unmarked
<1>. HIDE DEF c
<1>2. calls' = Append(l, c) BY DEF c
<1>3. Len(l) \in Nat /\ DOMAIN calls' = 1..k /\ calls'[k] = c BY <1>1, <1>2
<1>. QED BY <1>1, <1>3 DEF Awaited, Newest

(* A call of another kind changes nothing. *)
LEMMA OtherCall ==
  ASSUME CallsType, NEW c \in Calls, c.op = "tenants", calls' = Append(calls, c),
         UNCHANGED <<owner, overtaken>>, NEW t
  PROVE  /\ Awaited(t) => Awaited(t)'
         /\ Settled(t) => Settled(t)'
<1>1. Len(calls) \in Nat /\ DOMAIN calls = 1..Len(calls) /\ DOMAIN calls' = 1..(Len(calls) + 1)
  BY DEF CallsType
<1>2. calls'[Len(calls) + 1] = c /\ \A j \in 1..Len(calls) : calls'[j] = calls[j]
  BY DEF CallsType
<1>3. \A j \in DOMAIN calls' : j = Len(calls) + 1 \/ (j \in DOMAIN calls /\ calls'[j] = calls[j])
  BY <1>1, <1>2
<1>4. \A k \in DOMAIN calls : k \in DOMAIN calls' /\ calls'[k] = calls[k] BY <1>1, <1>2
<1>5. calls'[Len(calls) + 1].op # "projects" BY <1>2
<1>6. ASSUME NEW k \in DOMAIN calls, Newest(k), calls[k].tenant = t PROVE Awaited(t)'
  <2>1. k \in DOMAIN calls' /\ calls'[k] = calls[k] BY <1>4
  <2>2. \A j \in DOMAIN calls' : j > k => calls'[j].op # "projects" BY <1>3, <1>5, <1>6 DEF Newest
  <2>. QED BY <1>6, <2>1, <2>2 DEF Newest, Awaited
<1>7. Settled(t) => Settled(t)' BY <1>3, <1>5 DEF Settled
<1>. QED BY <1>6, <1>7 DEF Awaited

(* A call is answered: those that are left keep their order. *)
LEMMA Left ==
  ASSUME NEW l \in Seq(Calls), NEW i \in DOMAIN l, calls' = RemoveAt(l, i)
  PROVE  /\ \A j \in DOMAIN calls' : \E n \in DOMAIN l \ {i} : calls'[j] = l[n]
         /\ \A k \in DOMAIN l \ {i} : \E m \in DOMAIN calls' :
              /\ calls'[m] = l[k]
              /\ \A j \in DOMAIN calls' : j > m => \E n \in DOMAIN l : n > k /\ calls'[j] = l[n]
<1>1. Len(l) \in Nat /\ DOMAIN l = 1..Len(l) BY LenProperties
<1>2. /\ DOMAIN calls' = 1 .. (Len(l) - 1)
      /\ \A j \in 1 .. (Len(l) - 1) : calls'[j] = IF j < i THEN l[j] ELSE l[j + 1]
  BY RemovedAt
<1>3. ASSUME NEW j \in DOMAIN calls' PROVE \E n \in DOMAIN l \ {i} : calls'[j] = l[n]
  <2>1. CASE j < i BY <1>1, <1>2, <2>1
  <2>2. CASE ~ (j < i)
    <3>1. j + 1 \in DOMAIN l \ {i} /\ calls'[j] = l[j + 1] BY <1>1, <1>2, <2>2
    <3>. QED BY <3>1
  <2>. QED BY <2>1, <2>2
<1>4. ASSUME NEW k \in DOMAIN l \ {i}
      PROVE  \E m \in DOMAIN calls' :
              /\ calls'[m] = l[k]
              /\ \A j \in DOMAIN calls' : j > m => \E n \in DOMAIN l : n > k /\ calls'[j] = l[n]
  <2>. DEFINE m == IF k < i THEN k ELSE k - 1
  <2>1. m \in DOMAIN calls' /\ (IF m < i THEN m = k ELSE m + 1 = k) BY <1>1, <1>2
  <2>2. calls'[m] = l[k]
    <3>1. CASE k < i BY <1>2, <2>1, <3>1
    <3>2. CASE ~ (k < i)
      <4>1. m \in 1 .. (Len(l) - 1) /\ ~ (m < i) /\ m + 1 = k BY <1>1, <1>2, <2>1, <3>2
      <4>2. calls'[m] = l[m + 1] BY <1>2, <4>1
      <4>. QED BY <4>1, <4>2
    <3>. QED BY <3>1, <3>2
  <2>3. ASSUME NEW j \in DOMAIN calls', j > m
        PROVE  \E n \in DOMAIN l : n > k /\ calls'[j] = l[n]
    <3>1. CASE j < i
      <4>1. j \in DOMAIN l /\ j > k /\ calls'[j] = l[j] BY <1>1, <1>2, <2>1, <2>3, <3>1
      <4>. QED BY <4>1
    <3>2. CASE ~ (j < i)
      <4>1. j + 1 \in DOMAIN l /\ j + 1 > k /\ calls'[j] = l[j + 1]
        BY <1>1, <1>2, <2>1, <2>3, <3>2
      <4>. QED BY <4>1
    <3>. QED BY <3>1, <3>2
  <2>. QED BY <2>1, <2>2, <2>3
<1>. QED BY <1>3, <1>4

LEMMA StepTenants ==
  ASSUME TenantInv, ListsType, CallsType, NEW i \in DOMAIN calls,
         NEW a \in TenantLists \cup {<<>>}, TenantsAnswer(i, a)
  PROVE  TenantInv'
<1>1. CASE a # <<>>
  <2>1. a \in Seq(Tenants) BY <1>1, ListsAssumption
  <2>2. Pick(a, DefaultTenant) \in Tenants BY <1>1, <2>1, PickIsMember DEF ToSet
  <2>. DEFINE t == Pick(a, DefaultTenant)
              rest == RemoveAt(calls, i)
  <2>3. tenantId' = t /\ calls' = Append(rest, GetProjects(t)) BY <1>1 DEF TenantsAnswer
  <2>4. rest \in Seq(Calls) /\ GetProjects(t) \in Calls BY <2>2, Removed, CallType DEF CallsType
  <2>. HIDE DEF t, rest
  <2>5. Awaited(t)' BY <2>3, <2>4, Asking
  <2>. QED BY <2>3, <2>5 DEF TenantInv, Awaited, Newest
<1>2. CASE a = <<>>
  <2>1. calls' = RemoveAt(calls, i) /\ calls[i].op = "tenants" /\ UNCHANGED <<tenantId, owner, overtaken>>
    BY <1>2 DEF TenantsAnswer, history
  <2>2. ASSUME NEW t, Settled(t) PROVE Settled(t)'
    BY <2>1, <2>2, Left DEF Settled, CallsType
  <2>3. ASSUME NEW t, Awaited(t) PROVE Awaited(t)'
    <3>1. PICK k \in DOMAIN calls : Newest(k) /\ calls[k].tenant = t BY <2>3 DEF Awaited
    <3>2. k # i BY <2>1, <3>1 DEF Newest
    <3>3. PICK m \in DOMAIN calls' :
            /\ calls'[m] = calls[k]
            /\ \A j \in DOMAIN calls' : j > m => \E n \in DOMAIN calls : n > k /\ calls'[j] = calls[n]
      BY <2>1, <3>2, Left DEF CallsType
    <3>. QED BY <3>1, <3>3 DEF Newest, Awaited
  <2>. QED BY <2>1, <2>2, <2>3 DEF TenantInv
<1>. QED BY <1>1, <1>2

LEMMA StepProjects ==
  ASSUME TenantInv, CallsType, NEW i \in DOMAIN calls,
         NEW a \in (UNION {ProjectLists[t] : t \in Tenants}) \cup {<<>>}, ProjectsAnswer(i, a)
  PROVE  TenantInv'
<1>. DEFINE l == [j \in DOMAIN calls |->
                    IF j < i /\ calls[j].op = "projects" THEN [calls[j] EXCEPT !.old = TRUE]
                    ELSE calls[j]]
<1>1. Len(calls) \in Nat /\ DOMAIN calls = 1..Len(calls) BY LenProperties DEF CallsType
<1>2. \A j \in 1..Len(calls) : calls[j] \in Calls BY ElementOfSeq DEF CallsType
<1>3. \A j \in 1..Len(calls) : [calls[j] EXCEPT !.old = TRUE] \in Calls BY <1>2 DEF Calls
<1>4. l \in Seq(Calls) /\ DOMAIN l = DOMAIN calls BY <1>1, <1>2, <1>3, IsASeq
<1>5. ASSUME NEW j \in DOMAIN calls
      PROVE  /\ l[j].op = calls[j].op
             /\ calls[j].old => l[j].old
             /\ j < i /\ calls[j].op = "projects" => l[j].old
             /\ ~ (j < i) => l[j] = calls[j]
  BY <1>1, <1>2 DEF Calls
<1>6. calls' = RemoveAt(l, i) BY DEF ProjectsAnswer, Outdated
<1>. HIDE DEF l
<1>7. /\ calls[i].op = "projects" /\ owner' = calls[i].tenant /\ overtaken' = calls[i].old
      /\ tenantId' = tenantId
  BY DEF ProjectsAnswer
<1>8. ASSUME NEW t, Settled(t) PROVE Settled(t)'
  <2>1. ASSUME NEW n \in DOMAIN l, l[n].op = "projects" PROVE l[n].old
    <3>1. n \in DOMAIN calls /\ calls[n].op = "projects" BY <1>4, <1>5, <2>1
    <3>2. calls[n].old BY <1>8, <3>1 DEF Settled
    <3>. QED BY <1>5, <3>1, <3>2
  <2>2. overtaken' BY <1>7, <1>8 DEF Settled
  <2>. QED BY <1>4, <1>6, <2>1, <2>2, Left DEF Settled
<1>9. ASSUME NEW k \in DOMAIN calls, Newest(k), calls[k].tenant = tenantId
      PROVE  Awaited(tenantId)' \/ Settled(tenantId)'
  <2>1. CASE k = i
    <3>1. \A n \in DOMAIN l \ {i} : l[n].op = "projects" => l[n].old
      BY <1>1, <1>4, <1>5, <1>9, <2>1 DEF Newest
    <3>. QED BY <1>4, <1>6, <1>7, <1>9, <2>1, <3>1, Left DEF Settled
  <2>2. CASE k # i
    <3>1. i < k BY <1>1, <1>7, <1>9, <2>2 DEF Newest
    <3>2. l[k] = calls[k] BY <1>1, <1>5, <1>9, <3>1
    <3>3. PICK m \in DOMAIN calls' :
            /\ calls'[m] = l[k]
            /\ \A j \in DOMAIN calls' : j > m => \E n \in DOMAIN l : n > k /\ calls'[j] = l[n]
      BY <1>4, <1>6, <2>2, Left
    <3>4. \A n \in DOMAIN l : n > k => l[n].op # "projects" BY <1>4, <1>5, <1>9 DEF Newest
    <3>. QED BY <1>7, <1>9, <3>2, <3>3, <3>4 DEF Newest, Awaited
  <2>. QED BY <2>1, <2>2
<1>. QED BY <1>7, <1>8, <1>9 DEF TenantInv, Awaited, Settled, Newest

LEMMA StepTenant == TenantInv /\ ListsType /\ CallsType /\ [Next]_vars => TenantInv'
<1>. SUFFICES ASSUME TenantInv, ListsType, CallsType, [Next]_vars PROVE TenantInv'
  OBVIOUS
<1>1. CASE Reload BY <1>1 DEF Reload, PageState, TenantInv
<1>2. ASSUME NEW t \in Tenants, HandleTenantIdChange(t) PROVE TenantInv'
  <2>1. tenantId' = t /\ calls' = Append(calls, GetProjects(t)) BY <1>2 DEF HandleTenantIdChange
  <2>2. Awaited(t)' BY <2>1, Asking, CallType DEF CallsType
  <2>. QED BY <2>1, <2>2 DEF TenantInv, Awaited, Newest
<1>3. ASSUME NEW c \in Calls, c.op = "tenants", calls' = Append(calls, c),
             UNCHANGED <<tenantId, owner, overtaken>>
      PROVE  TenantInv'
  BY <1>3, OtherCall DEF TenantInv
<1>4. ASSUME UNCHANGED <<calls, tenantId, owner, overtaken>> PROVE TenantInv'
  BY <1>4 DEF TenantInv, Awaited, Settled, Newest
<1>5. CASE \E found \in BOOLEAN : Initialized(found)
  <2>1. /\ UNCHANGED <<tenantId, owner, overtaken>>
        /\ calls' = calls \/ calls' = Append(calls, GetTenants(jwt'))
    BY <1>5 DEF Initialized, lists, history
  <2>. QED BY <1>3, <1>4, <2>1, CallType, NotProjects
<1>6. CASE HandleJwtLogin
  <2>1. UNCHANGED <<tenantId, owner, overtaken>> /\ calls' = Append(calls, GetTenants("pasted"))
    BY <1>6 DEF HandleJwtLogin, lists, history
  <2>. QED BY <1>3, <2>1, CallType, NotProjects
<1>7. CASE \/ Render \/ HandleKeycloakAuth \/ RefreshToken \/ UNCHANGED vars
           \/ \E p \in Projects : HandleProjectIdChange(p)
           \/ \E r \in refreshes, ok \in BOOLEAN : RefreshAnswer(r, ok)
  BY <1>4, <1>7 DEF Render, HandleKeycloakAuth, RefreshToken, HandleProjectIdChange,
                    RefreshAnswer, lists, history, vars
<1>. QED BY <1>1, <1>2, <1>5, <1>6, <1>7, StepTenants, StepProjects DEF Next, Answers

(* When no projects are being loaded those listed are the chosen tenant's, unless *)
(* an older call was answered after a newer one (TopPanel.tsx:40-110: nothing      *)
(* cancels a call, and the tenant is chosen before its projects are loaded).       *)
THEOREM AlwaysOfTenant == Spec => []ListsOfTenant
<1>. DEFINE TInv == ListsType /\ CallsType /\ TenantInv
<1>1. Init => TenantInv BY DEF Init, TenantInv
<1>2. Init => ListsType /\ CallsType BY InitType
<1>3. TInv /\ [Next]_vars => TInv' BY StepLists, StepTenant
<1>4. TInv => ListsOfTenant BY DEF TenantInv, Awaited, Settled, Newest, ListsOfTenant
<1>. QED BY <1>1, <1>2, <1>3, <1>4, PTL DEF Spec
=============================================================================
