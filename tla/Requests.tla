------------------------------- MODULE Requests -------------------------------
(***************************************************************************)
(* What a request passes before its handler runs: JwtAuthGuard loads the   *)
(* user of the bearer token into req.user, PermissionsGuard asks for the   *)
(* permission of the operation, RequestContextInterceptor runs the handler *)
(* in a context that holds the user.  The root fields of a GraphQL         *)
(* document share one req: those of a query run side by side, those of a   *)
(* mutation one after the other; each passes the guards on its own.        *)
(***************************************************************************)
EXTENDS Naturals, FiniteSets

CONSTANTS
    Person,         \* users
    Field,          \* root fields of documents, and REST calls
    NoPerson        \* "no user", "no token"

ASSUME RequestsAssumption == NoPerson \notin Person \cup [id : Person, role : {"ADMIN", "USER"}]

VARIABLES
    person,         \* isActive (and not deleted) and role of each user
    together,       \* all fields belong to one document; if not, each to its own
    kind,           \* what each is a field of: a query, a mutation, a REST call
    bearer,         \* the user of the token of its request
    task,           \* the operation of each field
    gate,           \* the await it is about to perform
    reqUser,        \* req.user
    context,        \* RequestContext of a handler that runs
    vouched         \* history: the user that this field's guards have let in

reqVars == <<person, together, kind, bearer, task, gate, reqUser, context, vouched>>

-----------------------------------------------------------------------------
(* The operations, by kind and by what the guards ask for: "public",       *)
(* "user", or a permission.                                                *)
Ops(k, need, names) == {[name |-> o, kind |-> k, need |-> need] : o \in names}

UsersResolver ==
    Ops("query", "user", {"me"})
    \cup Ops("query", "users.read", {"getUsers"})
    \cup Ops("mutation", "users.create", {"createUser"})
    \cup Ops("mutation", "users.update", {"updateUser"})
    \cup Ops("mutation", "users.delete", {"deleteUser"})
    \cup Ops("mutation", "roles.manage", {"assignUserRole"})
    \cup Ops("mutation", "permissions.manage", {"setUserPermissions"})

RolesResolver ==
    Ops("query", "roles.read", {"getRoles"})
    \cup Ops("mutation", "roles.manage", {"createRole", "updateRole", "deleteRole"})

CampaignsResolver ==
    Ops("query", "campaigns.read", {"getCampaigns", "getCampaign", "getCampaignRecipients"})
    \cup Ops("mutation", "campaigns.manage",
             {"createCampaign", "updateCampaign", "deleteCampaign", "sendCampaign",
              "scheduleCampaign"})

NewsletterResolver ==
    Ops("query", "user", {"myNewsletterSubscription"})
    \cup Ops("query", "newsletter.read", {"getNewsletterSubscribers"})
    \cup Ops("mutation", "user", {"subscribeToNewsletter", "unsubscribeFromNewsletter"})

NotificationsResolver ==
    Ops("query", "user", {"getMyNotifications"})
    \cup Ops("mutation", "user", {"markNotificationRead", "markAllNotificationsRead"})

StorageResolver ==
    Ops("query", "files.read", {"getFiles", "getFile"})
    \cup Ops("mutation", "files.delete", {"deleteFile"})

VisitorsResolver ==
    Ops("mutation", "public", {"trackPageView"})
    \cup Ops("query", "analytics.read", {"getPageViews", "getVisitorStats"})

AuthResolver ==
    Ops("mutation", "public",
        {"registerUser", "verifyEmail", "forgotPassword", "resetPassword", "resendVerification"})
    \cup Ops("query", "user", {"mySessions"})
    \cup Ops("mutation", "user", {"changePassword", "revokeSession"})

PermissionsResolver == Ops("query", "permissions.read", {"getAllPermissions"})

LocaleResolver == Ops("query", "public", {"getSupportedLocales"})

AuthController ==
    Ops("rest", "public",
        {"auth/register", "auth/google", "auth/google/callback", "auth/verify-email",
         "auth/resend-verification", "auth/forgot-password", "auth/reset-password",
         "auth/login", "auth/refresh", "auth/logout"})
    \cup Ops("rest", "user",
             {"auth/change-password", "GET auth/sessions", "DELETE auth/sessions", "auth/logout-all"})

StorageController ==
    Ops("rest", "user", {"files/upload", "files/upload-many", "files/download"})

HealthController == Ops("rest", "public", {"health"})

AppController == Ops("rest", "public", {"getHello"})

Operations ==
    UsersResolver \cup RolesResolver \cup CampaignsResolver \cup NewsletterResolver
    \cup NotificationsResolver \cup StorageResolver \cup VisitorsResolver \cup AuthResolver
    \cup PermissionsResolver \cup LocaleResolver
    \cup AuthController \cup StorageController \cup HealthController \cup AppController

(* requirement.roles *)
AdminPasses == {"createUser", "assignUserRole", "setUserPermissions"}

(* Handlers that use the user without another look: those with @AuthUser() *)
(* and those that ask RequestContext.                                      *)
UsesUser ==
    {"me", "myNewsletterSubscription", "subscribeToNewsletter", "unsubscribeFromNewsletter",
     "getMyNotifications", "markNotificationRead", "markAllNotificationsRead",
     "changePassword", "mySessions", "revokeSession", "auth/change-password",
     "GET auth/sessions", "DELETE auth/sessions", "auth/logout-all",
     "files/upload", "files/upload-many"}

(* What is kept of an operation: the answer to the question for its        *)
(* permission is open (see Permissions), so they are not told apart.       *)
Task(o) ==
    [kind |-> o.kind,
     need |-> IF o.need \in {"public", "user"} THEN o.need ELSE "permission",
     admin |-> o.name \in AdminPasses, usesUser |-> o.name \in UsesUser]

Tasks == {Task(o) : o \in Operations}

NoTask == [kind |-> "none", need |-> "public", admin |-> FALSE, usesUser |-> FALSE]

(* A user as JwtStrategy.validate returns him. *)
Loaded == [id : Person, role : {"ADMIN", "USER"}]

ReqTypeOK ==
    /\ person \in [Person -> [active : BOOLEAN, role : {"ADMIN", "USER"}]]
    /\ together \in BOOLEAN
    /\ kind \in [Field -> {"query", "mutation", "rest"}]
    /\ bearer \in [Field -> Person \cup {NoPerson}]
    /\ task \in [Field -> Tasks \cup {NoTask}]
    /\ gate \in [Field -> {"idle", "auth", "permission", "run"}]
    /\ \A f \in Field : gate[f] = "auth" => bearer[f] \in Person
    /\ reqUser \in [Field -> Loaded \cup {NoPerson}]
    /\ context \in [Field -> Loaded \cup {NoPerson}]
    /\ vouched \in [Field -> Person \cup {NoPerson}]

ReqInit ==
    /\ person = [p \in Person |-> [active |-> TRUE, role |-> "ADMIN"]]
    /\ together = FALSE
    /\ kind = [f \in Field |-> "rest"]
    /\ bearer = [f \in Field |-> NoPerson]
    /\ task = [f \in Field |-> NoTask]
    /\ gate = [f \in Field |-> "idle"]
    /\ reqUser = [f \in Field |-> NoPerson]
    /\ context = [f \in Field |-> NoPerson]
    /\ vouched = [f \in Field |-> NoPerson]

-----------------------------------------------------------------------------
(* Fields of one request. *)
Siblings(f) == IF together THEN Field ELSE {f}

(* A document comes, with a field for each.                                *)
NextDocument(k, b) ==
    /\ \A f \in Field : gate[f] = "idle"
    /\ together' = TRUE
    /\ kind' = [f \in Field |-> k]
    /\ bearer' = [f \in Field |-> b]
    /\ reqUser' = [f \in Field |-> NoPerson]
    /\ vouched' = [f \in Field |-> NoPerson]
    /\ UNCHANGED <<person, task, gate, context>>

(* A request of one field at a time comes.                                 *)
NextRequest(f, k, b) ==
    /\ \A g \in Siblings(f) : gate[g] = "idle"
    /\ together' = FALSE
    /\ kind' = [kind EXCEPT ![f] = k]
    /\ bearer' = [bearer EXCEPT ![f] = b]
    /\ reqUser' = [reqUser EXCEPT ![f] = NoPerson]
    /\ vouched' = [vouched EXCEPT ![f] = NoPerson]
    /\ UNCHANGED <<person, task, gate, context>>

(* A mutant: one context for the process, set by every request. *)
BugRunIn(f, user) ==
    /\ gate' = [gate EXCEPT ![f] = "run"]
    /\ context' = [g \in Field |-> IF g = f \/ gate[g] = "run" THEN user ELSE context[g]]

(* The handler, in its context. *)
RunIn(f, user) ==
    /\ gate' = [gate EXCEPT ![f] = "run"]
    /\ context' = [context EXCEPT ![f] = user]

Leave(f) ==
    /\ gate' = [gate EXCEPT ![f] = "idle"]
    /\ task' = [task EXCEPT ![f] = NoTask]
    /\ context' = [context EXCEPT ![f] = NoPerson]

(* A field that JwtAuthGuard lets pass at once has what req.user has.  The *)
(* fields of a query have all begun before any of them is let in.          *)
Call(f, t) ==
    /\ gate[f] = "idle"
    /\ t.kind = kind[f]
    /\ IF kind[f] = "mutation" THEN \A g \in Siblings(f) : gate[g] = "idle"
                               ELSE reqUser[f] = NoPerson
    /\ task' = [task EXCEPT ![f] = t]
    /\ IF t.need = "public"
       THEN gate' = [gate EXCEPT ![f] = "run"] /\ context' = [context EXCEPT ![f] = reqUser[f]]
       ELSE bearer[f] # NoPerson /\ gate' = [gate EXCEPT ![f] = "auth"] /\ UNCHANGED context
    /\ vouched' = [vouched EXCEPT ![f] = NoPerson]
    /\ UNCHANGED <<person, together, kind, bearer, reqUser>>

(* JwtStrategy.validate, then PermissionsGuard up to its query.            *)
Authenticate(f) ==
    /\ gate[f] = "auth"
    /\ LET p == bearer[f]
           user == [id |-> p, role |-> person[p].role]
       IN  IF person[p].active
           THEN /\ reqUser' = [g \in Field |-> IF g \in Siblings(f) THEN user ELSE reqUser[g]]
                /\ vouched' = [vouched EXCEPT ![f] = p]
                /\ IF task[f].need = "user" \/ (task[f].admin /\ user.role = "ADMIN")
                   THEN RunIn(f, user) /\ UNCHANGED task
                   ELSE /\ gate' = [gate EXCEPT ![f] = "permission"]
                        /\ UNCHANGED <<task, context>>
           ELSE Leave(f) /\ UNCHANGED <<reqUser, vouched>>
    /\ UNCHANGED <<person, together, kind, bearer>>

(* hasPermission has answered.  The context takes req.user as it is now.   *)
CheckPermission(f, allowed) ==
    /\ gate[f] = "permission"
    /\ IF allowed THEN RunIn(f, reqUser[f]) /\ UNCHANGED task ELSE Leave(f)
    /\ UNCHANGED <<person, together, kind, bearer, reqUser, vouched>>

Finish(f) ==
    /\ gate[f] = "run"
    /\ Leave(f)
    /\ UNCHANGED <<person, together, kind, bearer, reqUser, vouched>>

(* An administrator deactivates or deletes a user, or changes his role.    *)
PersonChanges(p, v) ==
    /\ person[p] # v
    /\ person' = [person EXCEPT ![p] = v]
    /\ UNCHANGED <<together, kind, bearer, task, gate, reqUser, context, vouched>>

-----------------------------------------------------------------------------
ReqNext ==
    \/ \E k \in {"query", "mutation"}, b \in Person \cup {NoPerson} : NextDocument(k, b)
    \/ \E f \in Field, k \in {"query", "mutation", "rest"}, b \in Person \cup {NoPerson} :
          NextRequest(f, k, b)
    \/ \E f \in Field :
          \/ \E t \in Tasks : Call(f, t)
          \/ Authenticate(f) \/ Finish(f)
          \/ \E allowed \in BOOLEAN : CheckPermission(f, allowed)
    \/ \E p \in Person, v \in [active : BOOLEAN, role : {"ADMIN", "USER"}] : PersonChanges(p, v)

ReqSpec == ReqInit /\ [][ReqNext]_reqVars

-----------------------------------------------------------------------------
(* A handler runs with the user of its own request or with none, whatever  *)
(* runs at the same time; one that needs a user has one, whom the guards   *)
(* of this very field have loaded, although the field before has left one  *)
(* in req.user; and no public REST call has a user.                        *)
HandlersHaveTheirUser ==
    \A f \in Field :
        gate[f] = "run" =>
            /\ context[f] # NoPerson => context[f].id = bearer[f]
            /\ task[f].usesUser \/ task[f].need # "public" =>
                  context[f] # NoPerson /\ vouched[f] = context[f].id
            /\ kind[f] = "rest" /\ task[f].need = "public" => context[f] = NoPerson
=============================================================================
