---------------------------- MODULE Client_proofs ----------------------------
(***************************************************************************)
(* Proofs about Client, for any secrets, client IDs and base URLs: what may *)
(* leave a public client, which requests are keyed, that the two clients    *)
(* agree on every operation, that every list can be cut into pages and that *)
(* what a method makes of an answer follows from its request.              *)
(***************************************************************************)
EXTENDS Client, Naturals, Sequences, TLAPS

\* A public client has no API key, whatever it was offered; a request is that
\* of the client, and is keyed as its method asks.
PublicKeyless == client # None /\ client.public => client.key = None

SentByClient ==
  sent # None =>
    /\ client # None
    /\ client.public => sent.client_secret = None
                        /\ sent.headers.authorization \in {None, AccessToken}
    /\ sent.operation.via # "build_url" =>
         IF sent.method = "POST"
         THEN sent.headers.idempotency \notin {None, Empty} \/ Empty \in sent.asked.keys
         ELSE sent.headers.idempotency # FreshKey

Inv == PublicKeyless /\ SentByClient

\* The operator Or on the two values that are falsy.
LEMMA OrFalsy == \A x \in {None, Empty} : \A y : Or(x, y) = y
  BY DEF Or

LEMMA OrTruthy == \A x, y : x \notin {None, Empty} => Or(x, y) = x
  BY DEF Or

\* A client without a key puts none among the fields and none in the header.
LEMMA KeylessCall ==
  ASSUME client.key = None, NEW op
  PROVE  ClientSecret(op) = None /\ Authorization(op) \in {None, AccessToken}
<1>1. Or(client.key, None) = None
  BY OrFalsy
<1>2. ClientSecret(op) = None
  BY <1>1 DEF ClientSecret
<1>3. Authorization(op) \in {None, AccessToken}
  BY <1>1 DEF Authorization
<1> QED
  BY <1>2, <1>3

\* The key of a request is fresh only if it is a POST that was given none, and
\* missing only if it is no POST or was given an empty one.
LEMMA KeyOfCall ==
  ASSUME NEW op, NEW key \in {None, Empty, GivenKey}
  PROVE  IF Upper[op.method] = "POST"
         THEN IdempotencyKey(op, key) \notin {None, Empty} \/ key = Empty
         ELSE IdempotencyKey(op, key) # FreshKey
<1>1. FreshKey \notin {None, Empty} /\ GivenKey \notin {None, Empty, FreshKey}
  BY DistinctAssumption
<1>2. CASE key = None
  BY <1>1, <1>2 DEF IdempotencyKey, IsPost
<1>3. CASE key = Empty
  BY <1>1, <1>3, OrFalsy, DistinctAssumption DEF IdempotencyKey
<1>4. CASE key = GivenKey
  BY <1>1, <1>4, OrTruthy DEF IdempotencyKey
<1> QED
  BY <1>2, <1>3, <1>4
-----------------------------------------------------------------------------
LEMMA InitInv == Init => Inv
  BY DEF Init, Inv, PublicKeyless, SentByClient

LEMMA ConfigureInv ==
  ASSUME Inv, Configure
  PROVE  Inv'
<1>1. sent = None
  BY DEF Inv, SentByClient, Configure
<1>2. PICK flavour, public, given, env : Construct(flavour, public, given, env)
  BY DEF Configure, CreatePublic
<1>3. sent' = None
  BY <1>1, <1>2 DEF Construct
<1>4. client'.public = public /\ client'.key = ResolveKey(public, given.key, env.key)
  BY <1>2 DEF Construct
<1>5. PublicKeyless'
  BY <1>4 DEF PublicKeyless, ResolveKey
<1> QED
  BY <1>3, <1>5 DEF Inv, SentByClient

LEMMA CallsInv ==
  ASSUME Inv, Calls
  PROVE  Inv'
<1>1. client # None
  BY DEF Calls
<1>2. PICK op \in OperationsOf[client.flavour] :
        \E fields \in {{}, op.takes}, own \in Maybe(ClientIds),
           key \in {None, Empty, GivenKey}, base \in Bases \cup {None},
           extra \in ExtraHeaders :
          Call(op, fields, own, key, base, extra)
  BY DEF Calls
<1>2a. PICK fields \in {{}, op.takes}, own \in Maybe(ClientIds),
         key \in {None, Empty, GivenKey}, base \in Bases \cup {None},
         extra \in ExtraHeaders :
           Call(op, fields, own, key, base, extra)
  BY <1>2
<1>3. client' = client
  BY <1>2a DEF Call
<1>4. /\ sent'.operation = op /\ sent'.method = Upper[op.method]
      /\ sent'.client_secret = ClientSecret(op)
      /\ sent'.headers = Headers(op, key, extra)
      /\ sent'.asked.keys = {key, extra.idempotency}
  BY <1>2a DEF Call
<1>5. client.public => sent'.client_secret = None
                       /\ sent'.headers.authorization \in {None, AccessToken}
  <2> SUFFICES ASSUME client.public
               PROVE  /\ sent'.client_secret = None
                      /\ sent'.headers.authorization \in {None, AccessToken}
    OBVIOUS
  <2>1. client.key = None
    BY <1>1 DEF Inv, PublicKeyless
  <2>2. ClientSecret(op) = None /\ Authorization(op) \in {None, AccessToken}
    BY <2>1, KeylessCall
  <2> QED
    BY <1>4, <2>2 DEF Headers, Merged, ExtraHeaders
<1>6. op.via # "build_url" =>
        IF Upper[op.method] = "POST"
        THEN sent'.headers.idempotency \notin {None, Empty} \/ Empty \in sent'.asked.keys
        ELSE sent'.headers.idempotency # FreshKey
  <2>1. op.via # "build_url" =>
          sent'.headers.idempotency = Merged(extra.idempotency, IdempotencyKey(op, key))
    BY <1>4 DEF Headers
  <2>2. extra.idempotency \in {None, Empty, GivenKey} /\ GivenKey \notin {None, Empty, FreshKey}
        /\ FreshKey # Empty
    BY DistinctAssumption DEF ExtraHeaders
  <2> QED BY <1>4, <2>1, <2>2, KeyOfCall DEF Merged
<1>7. SentByClient'
  BY <1>1, <1>3, <1>4, <1>5, <1>6 DEF SentByClient
<1>8. PublicKeyless'
  BY <1>3 DEF Inv, PublicKeyless
<1> QED
  BY <1>7, <1>8 DEF Inv

LEMMA NextPageInv ==
  ASSUME Inv, NextPage
  PROVE  Inv'
<1>1. sent # None /\ client' = client
  BY DEF NextPage
<1>2. /\ sent'.operation = sent.operation /\ sent'.method = sent.method
      /\ sent'.client_secret = sent.client_secret
      /\ sent'.headers = sent.headers /\ sent'.asked = sent.asked
  BY DEF NextPage
<1> QED
  BY <1>1, <1>2 DEF Inv, PublicKeyless, SentByClient

\* What public clients and requests are holds in every reachable state.
THEOREM Invariance == Spec => []Inv
<1>1. Inv /\ [Next]_vars => Inv'
  <2> SUFFICES ASSUME Inv, [Next]_vars PROVE Inv'
    OBVIOUS
  <2>1. CASE Configure BY <2>1, ConfigureInv
  <2>2. CASE Calls BY <2>2, CallsInv
  <2>3. CASE NextPage BY <2>3, NextPageInv
  <2>4. CASE Return BY <2>4 DEF Return, Inv, PublicKeyless, SentByClient
  <2>5. CASE UNCHANGED vars BY <2>5 DEF vars, Inv, PublicKeyless, SentByClient
  <2> QED
    BY <2>1, <2>2, <2>3, <2>4, <2>5 DEF Next
<1> QED
  BY <1>1, InitInv, PTL DEF Spec

\* No API key leaves a public client, in any method of any resource.
THEOREM NoSecretSent == Spec => []NoSecretFromPublic
<1>1. None \notin SecretKeys /\ AccessToken \notin SecretKeys
  BY DistinctAssumption
<1>2. Inv => NoSecretFromPublic
  BY <1>1 DEF Inv, SentByClient, NoSecretFromPublic
<1> QED
  BY <1>2, Invariance, PTL

\* Every POST of every resource is keyed, however its method is spelt.
THEOREM EveryPostKeyed == Spec => []PostsKeyed
<1>1. Inv => PostsKeyed
  BY DEF Inv, SentByClient, PostsKeyed
<1> QED
  BY <1>1, Invariance, PTL

\* A client's settings and a request's method are of their types.
THEOREM TypeCorrect == Spec => []TypeOK
<1>1. Init => TypeOK
  BY DEF Init, TypeOK
<1>2. ASSUME TypeOK, Inv, Configure PROVE TypeOK'
  <2>1. PICK flavour \in Flavours, public \in BOOLEAN, given \in Settings, env \in Settings :
          Construct(flavour, public, given, env)
    BY <1>2 DEF Configure, CreatePublic, Flavours
  <2>2. /\ ResolveKey(public, given.key, env.key) \in Maybe(SecretKeys)
        /\ Or(given.id, env.id) \in Maybe(ClientIds)
        /\ Or(given.base, IF env.base = None THEN DefaultBase ELSE env.base)
             \in Bases \cup {DefaultBase}
    BY DEF Settings, ResolveKey, Or, Maybe
  <2>3. sent' = None
    BY <1>2, <2>1 DEF Construct, Inv, SentByClient, Configure
  <2> QED BY <2>1, <2>2, <2>3 DEF Construct, TypeOK
<1>3. ASSUME TypeOK, Calls PROVE TypeOK'
  <2>1. PICK op \in OperationsOf[client.flavour] :
          UNCHANGED client /\ sent'.operation = op
    BY <1>3 DEF Calls, Call
  <2> QED BY <1>3, <2>1 DEF TypeOK
<1>4. ASSUME TypeOK, NextPage PROVE TypeOK'
  BY <1>4 DEF NextPage, TypeOK
<1>5. ASSUME TypeOK, Return \/ UNCHANGED vars PROVE TypeOK'
  BY <1>5 DEF Return, vars, TypeOK
<1>6. Inv /\ TypeOK /\ [Next]_vars => TypeOK'
  BY <1>2, <1>3, <1>4, <1>5 DEF Next
<1> QED
  BY <1>1, <1>6, Invariance, PTL DEF Spec
-----------------------------------------------------------------------------
(***************************************************************************)
(* The catalogue: the two clients have the same operations, and every list  *)
(* takes the cursor that a further page adds.                               *)
(***************************************************************************)
LEMMA SameOperations == Sync!Operations = Async!Operations
<1>1. Sync!ClientApi = Async!ClientApi
  BY Zenon
     DEF Sync!ClientApi, Async!ClientApi, Sync!client_api_create_token,
         Async!client_api_create_token, Sync!Request, Async!Request
<1>2. Sync!MultiFactorAuth = Async!MultiFactorAuth
  BY Zenon
     DEF Sync!MultiFactorAuth, Async!MultiFactorAuth, Sync!verify_challenge,
         Async!verify_challenge, Sync!enroll_factor, Async!enroll_factor,
         Sync!get_factor, Async!get_factor, Sync!delete_factor, Async!delete_factor,
         Sync!challenge_factor, Async!challenge_factor, Sync!list_user_auth_factors,
         Async!list_user_auth_factors, Sync!create_user_auth_factor,
         Async!create_user_auth_factor, Sync!Request, Async!Request, Sync!Page,
         Async!Page, Sync!Cursors, Async!Cursors, Sync!Id, Async!Id, Sync!NoModel,
         Async!NoModel
<1>3. Sync!OrganizationMembershipService = Async!OrganizationMembershipService
  BY Zenon
     DEF Sync!OrganizationMembershipService, Async!OrganizationMembershipService,
         Sync!list_organization_memberships, Async!list_organization_memberships,
         Sync!create_organization_membership, Async!create_organization_membership,
         Sync!get_organization_membership, Async!get_organization_membership,
         Sync!update_organization_membership, Async!update_organization_membership,
         Sync!delete_organization_membership, Async!delete_organization_membership,
         Sync!deactivate_organization_membership,
         Async!deactivate_organization_membership,
         Sync!reactivate_organization_membership,
         Async!reactivate_organization_membership,
         Sync!list_organization_membership_groups,
         Async!list_organization_membership_groups, Sync!Request, Async!Request,
         Sync!Page, Async!Page, Sync!Cursors, Async!Cursors, Sync!Id, Async!Id,
         Sync!NoModel, Async!NoModel
<1>4. Sync!Radar = Async!Radar
  BY Zenon
     DEF Sync!Radar, Async!Radar, Sync!create_attempt, Async!create_attempt,
         Sync!update_attempt, Async!update_attempt, Sync!add_list_entry,
         Async!add_list_entry, Sync!remove_list_entry, Async!remove_list_entry,
         Sync!Request, Async!Request, Sync!Id, Async!Id, Sync!NoModel, Async!NoModel
<1>5. Sync!SSO = Async!SSO
  BY Zenon
     DEF Sync!SSO, Async!SSO, Sync!list_connections, Async!list_connections,
         Sync!get_connection, Async!get_connection, Sync!delete_connection,
         Async!delete_connection, Sync!sso_get_authorization_url,
         Async!sso_get_authorization_url, Sync!sso_get_logout_url,
         Async!sso_get_logout_url, Sync!authorize_logout, Async!authorize_logout,
         Sync!get_profile, Async!get_profile, Sync!get_profile_and_token,
         Async!get_profile_and_token, Sync!sso_get_authorization_url_with_pkce,
         Async!sso_get_authorization_url_with_pkce, Sync!get_profile_and_token_pkce,
         Async!get_profile_and_token_pkce, Sync!Request, Async!Request, Sync!Page,
         Async!Page, Sync!Url, Async!Url, Sync!Identified, Async!Identified,
         Sync!ByToken, Async!ByToken, Sync!WithoutOptions, Async!WithoutOptions,
         Sync!Cursors, Async!Cursors, Sync!Id, Async!Id, Sync!NoModel, Async!NoModel
<1>6. Sync!UserManagement = Async!UserManagement
  BY Zenon
     DEF Sync!UserManagement, Async!UserManagement, Sync!get_jwks, Async!get_jwks,
         Sync!create_authenticate, Async!create_authenticate,
         Sync!authenticate_with_password, Async!authenticate_with_password,
         Sync!authenticate_with_code, Async!authenticate_with_code,
         Sync!authenticate_with_refresh_token, Async!authenticate_with_refresh_token,
         Sync!authenticate_with_magic_auth, Async!authenticate_with_magic_auth,
         Sync!authenticate_with_email_verification,
         Async!authenticate_with_email_verification, Sync!authenticate_with_totp,
         Async!authenticate_with_totp, Sync!authenticate_with_organization_selection,
         Async!authenticate_with_organization_selection,
         Sync!authenticate_with_device_code, Async!authenticate_with_device_code,
         Sync!authenticate_with_radar_email_challenge,
         Async!authenticate_with_radar_email_challenge,
         Sync!authenticate_with_radar_sms_challenge,
         Async!authenticate_with_radar_sms_challenge,
         Sync!user_management_get_authorization_url,
         Async!user_management_get_authorization_url, Sync!create_device,
         Async!create_device, Sync!create_radar_challenge, Async!create_radar_challenge,
         Sync!user_management_get_logout_url, Async!user_management_get_logout_url,
         Sync!revoke_session, Async!revoke_session, Sync!list_cors_origins,
         Async!list_cors_origins, Sync!create_cors_origin, Async!create_cors_origin,
         Sync!get_email_verification, Async!get_email_verification, Sync!reset_password,
         Async!reset_password, Sync!confirm_password_reset,
         Async!confirm_password_reset, Sync!get_password_reset,
         Async!get_password_reset, Sync!user_management_list_users,
         Async!user_management_list_users, Sync!create_user, Async!create_user,
         Sync!get_user_by_external_id, Async!get_user_by_external_id,
         Sync!user_management_get_user, Async!user_management_get_user,
         Sync!update_user, Async!update_user, Sync!delete_user, Async!delete_user,
         Sync!confirm_email_change, Async!confirm_email_change, Sync!send_email_change,
         Async!send_email_change, Sync!verify_email, Async!verify_email,
         Sync!send_verification_email, Async!send_verification_email,
         Sync!get_user_identities, Async!get_user_identities, Sync!list_sessions,
         Async!list_sessions, Sync!list_invitations, Async!list_invitations,
         Sync!send_invitation, Async!send_invitation, Sync!find_invitation_by_token,
         Async!find_invitation_by_token, Sync!get_invitation, Async!get_invitation,
         Sync!accept_invitation, Async!accept_invitation, Sync!resend_invitation,
         Async!resend_invitation, Sync!revoke_invitation, Async!revoke_invitation,
         Sync!list_jwt_template, Async!list_jwt_template, Sync!update_jwt_template,
         Async!update_jwt_template, Sync!create_magic_auth, Async!create_magic_auth,
         Sync!get_magic_auth, Async!get_magic_auth, Sync!list_redirect_uris,
         Async!list_redirect_uris, Sync!create_redirect_uri, Async!create_redirect_uri,
         Sync!list_user_authorized_applications,
         Async!list_user_authorized_applications,
         Sync!delete_user_authorized_application,
         Async!delete_user_authorized_application, Sync!list_user_api_keys,
         Async!list_user_api_keys, Sync!create_user_api_key, Async!create_user_api_key,
         Sync!get_jwks_url, Async!get_jwks_url,
         Sync!user_management_get_authorization_url_with_pkce,
         Async!user_management_get_authorization_url_with_pkce,
         Sync!authenticate_with_code_pkce, Async!authenticate_with_code_pkce,
         Sync!Request, Async!Request, Sync!Page, Async!Page, Sync!List, Async!List,
         Sync!Url, Async!Url, Sync!Identified, Async!Identified, Sync!WithoutOptions,
         Async!WithoutOptions, Sync!Cursors, Async!Cursors, Sync!Device, Async!Device,
         Sync!AnyFields, Async!AnyFields, Sync!Id, Async!Id, Sync!NoModel, Async!NoModel
<1>7. Sync!Widgets = Async!Widgets
  BY Zenon
     DEF Sync!Widgets, Async!Widgets, Sync!widgets_create_token,
         Async!widgets_create_token, Sync!Request, Async!Request
<1>8. Sync!Passwordless = Async!Passwordless
  BY Zenon
     DEF Sync!Passwordless, Async!Passwordless, Sync!create_session,
         Async!create_session, Sync!send_session, Async!send_session, Sync!Request,
         Async!Request, Sync!WithoutOptions, Async!WithoutOptions, Sync!Id, Async!Id,
         Sync!NoModel, Async!NoModel
<1>9. Sync!AdminPortal = Async!AdminPortal
  BY Zenon
     DEF Sync!AdminPortal, Async!AdminPortal, Sync!generate_link, Async!generate_link,
         Sync!Request, Async!Request
<1>10. Sync!ApiKeys = Async!ApiKeys
  BY Zenon
     DEF Sync!ApiKeys, Async!ApiKeys, Sync!list_organization_api_keys,
         Async!list_organization_api_keys, Sync!create_organization_api_key,
         Async!create_organization_api_key, Sync!create_validation,
         Async!create_validation, Sync!delete_api_key, Async!delete_api_key,
         Sync!create_api_key_expire, Async!create_api_key_expire, Sync!Request,
         Async!Request, Sync!Page, Async!Page, Sync!Cursors, Async!Cursors, Sync!Id,
         Async!Id, Sync!NoModel, Async!NoModel
<1>11. Sync!AuditLogs = Async!AuditLogs
  BY Zenon
     DEF Sync!AuditLogs, Async!AuditLogs, Sync!get_organization_audit_logs_retention,
         Async!get_organization_audit_logs_retention,
         Sync!update_organization_audit_logs_retention,
         Async!update_organization_audit_logs_retention, Sync!list_actions,
         Async!list_actions, Sync!list_action_schemas, Async!list_action_schemas,
         Sync!create_schema, Async!create_schema, Sync!create_event, Async!create_event,
         Sync!create_export, Async!create_export, Sync!get_export, Async!get_export,
         Sync!Request, Async!Request, Sync!Page, Async!Page, Sync!Keyed, Async!Keyed,
         Sync!Cursors, Async!Cursors, Sync!Id, Async!Id
<1>12. Sync!Authorization = Async!Authorization
  BY Zenon
     DEF Sync!Authorization, Async!Authorization, Sync!list_group_role_assignments,
         Async!list_group_role_assignments, Sync!create_group_role_assignment,
         Async!create_group_role_assignment, Sync!update_group_role_assignments,
         Async!update_group_role_assignments, Sync!delete_group_role_assignments,
         Async!delete_group_role_assignments, Sync!get_group_role_assignment,
         Async!get_group_role_assignment, Sync!delete_group_role_assignment,
         Async!delete_group_role_assignment, Sync!check, Async!check,
         Sync!list_resources_for_membership, Async!list_resources_for_membership,
         Sync!list_effective_permissions, Async!list_effective_permissions,
         Sync!list_effective_permissions_by_external_id,
         Async!list_effective_permissions_by_external_id, Sync!list_role_assignments,
         Async!list_role_assignments, Sync!assign_role, Async!assign_role,
         Sync!remove_role, Async!remove_role, Sync!remove_role_assignment,
         Async!remove_role_assignment, Sync!list_organization_roles,
         Async!list_organization_roles, Sync!create_organization_role,
         Async!create_organization_role, Sync!get_organization_role,
         Async!get_organization_role, Sync!update_organization_role,
         Async!update_organization_role, Sync!delete_organization_role,
         Async!delete_organization_role, Sync!add_organization_role_permission,
         Async!add_organization_role_permission, Sync!set_organization_role_permissions,
         Async!set_organization_role_permissions,
         Sync!remove_organization_role_permission,
         Async!remove_organization_role_permission, Sync!get_resource_by_external_id,
         Async!get_resource_by_external_id, Sync!update_resource_by_external_id,
         Async!update_resource_by_external_id, Sync!delete_resource_by_external_id,
         Async!delete_resource_by_external_id,
         Sync!list_memberships_for_resource_by_external_id,
         Async!list_memberships_for_resource_by_external_id,
         Sync!list_role_assignments_for_resource_by_external_id,
         Async!list_role_assignments_for_resource_by_external_id, Sync!list_resources,
         Async!list_resources, Sync!create_resource, Async!create_resource,
         Sync!get_resource, Async!get_resource, Sync!update_resource,
         Async!update_resource, Sync!delete_resource, Async!delete_resource,
         Sync!list_memberships_for_resource, Async!list_memberships_for_resource,
         Sync!list_role_assignments_for_resource,
         Async!list_role_assignments_for_resource, Sync!list_environment_roles,
         Async!list_environment_roles, Sync!create_environment_role,
         Async!create_environment_role, Sync!get_environment_role,
         Async!get_environment_role, Sync!update_environment_role,
         Async!update_environment_role, Sync!add_environment_role_permission,
         Async!add_environment_role_permission, Sync!set_environment_role_permissions,
         Async!set_environment_role_permissions, Sync!list_permissions,
         Async!list_permissions, Sync!create_permission, Async!create_permission,
         Sync!get_permission, Async!get_permission, Sync!update_permission,
         Async!update_permission, Sync!delete_permission, Async!delete_permission,
         Sync!Request, Async!Request, Sync!Page, Async!Page, Sync!Cursors,
         Async!Cursors, Sync!Id, Async!Id, Sync!NoModel, Async!NoModel
<1>13. Sync!Connect = Async!Connect
  BY Zenon
     DEF Sync!Connect, Async!Connect, Sync!complete_oauth2, Async!complete_oauth2,
         Sync!list_applications, Async!list_applications, Sync!create_application,
         Async!create_application, Sync!create_oauth_application,
         Async!create_oauth_application, Sync!create_m2m_application,
         Async!create_m2m_application, Sync!get_application, Async!get_application,
         Sync!update_application, Async!update_application, Sync!delete_application,
         Async!delete_application, Sync!list_application_client_secrets,
         Async!list_application_client_secrets, Sync!create_application_client_secret,
         Async!create_application_client_secret, Sync!delete_client_secret,
         Async!delete_client_secret, Sync!Request, Async!Request, Sync!Page, Async!Page,
         Sync!List, Async!List, Sync!Cursors, Async!Cursors, Sync!AnyFields,
         Async!AnyFields, Sync!Id, Async!Id, Sync!NoModel, Async!NoModel
<1>14. Sync!DirectorySync = Async!DirectorySync
  BY Zenon
     DEF Sync!DirectorySync, Async!DirectorySync, Sync!list_directories,
         Async!list_directories, Sync!get_directory, Async!get_directory,
         Sync!delete_directory, Async!delete_directory, Sync!list_groups,
         Async!list_groups, Sync!get_group, Async!get_group,
         Sync!directory_sync_list_users, Async!directory_sync_list_users,
         Sync!directory_sync_get_user, Async!directory_sync_get_user, Sync!Request,
         Async!Request, Sync!Page, Async!Page, Sync!Cursors, Async!Cursors, Sync!Id,
         Async!Id, Sync!NoModel, Async!NoModel
<1>15. Sync!Events = Async!Events
  BY Zenon
     DEF Sync!Events, Async!Events, Sync!list_events, Async!list_events, Sync!Request,
         Async!Request, Sync!Page, Async!Page, Sync!Cursors, Async!Cursors
<1>16. Sync!FeatureFlags = Async!FeatureFlags
  BY Zenon
     DEF Sync!FeatureFlags, Async!FeatureFlags, Sync!list_feature_flags,
         Async!list_feature_flags, Sync!get_feature_flag, Async!get_feature_flag,
         Sync!disable_feature_flag, Async!disable_feature_flag,
         Sync!enable_feature_flag, Async!enable_feature_flag, Sync!add_flag_target,
         Async!add_flag_target, Sync!remove_flag_target, Async!remove_flag_target,
         Sync!list_organization_feature_flags, Async!list_organization_feature_flags,
         Sync!list_user_feature_flags, Async!list_user_feature_flags, Sync!Request,
         Async!Request, Sync!Page, Async!Page, Sync!Cursors, Async!Cursors, Sync!Id,
         Async!Id, Sync!NoModel, Async!NoModel
<1>17. Sync!Groups = Async!Groups
  BY Zenon
     DEF Sync!Groups, Async!Groups, Sync!list_organization_groups,
         Async!list_organization_groups, Sync!create_organization_group,
         Async!create_organization_group, Sync!get_organization_group,
         Async!get_organization_group, Sync!update_organization_group,
         Async!update_organization_group, Sync!delete_organization_group,
         Async!delete_organization_group, Sync!list_group_organization_memberships,
         Async!list_group_organization_memberships,
         Sync!create_group_organization_membership,
         Async!create_group_organization_membership,
         Sync!delete_group_organization_membership,
         Async!delete_group_organization_membership, Sync!Request, Async!Request,
         Sync!Page, Async!Page, Sync!Cursors, Async!Cursors, Sync!Id, Async!Id,
         Sync!NoModel, Async!NoModel
<1>18. Sync!OrganizationDomains = Async!OrganizationDomains
  BY Zenon
     DEF Sync!OrganizationDomains, Async!OrganizationDomains,
         Sync!create_organization_domain, Async!create_organization_domain,
         Sync!get_organization_domain, Async!get_organization_domain,
         Sync!delete_organization_domain, Async!delete_organization_domain,
         Sync!verify_organization_domain, Async!verify_organization_domain,
         Sync!Request, Async!Request, Sync!Id, Async!Id, Sync!NoModel, Async!NoModel
<1>19. Sync!Organizations = Async!Organizations
  BY Zenon
     DEF Sync!Organizations, Async!Organizations, Sync!list_organizations,
         Async!list_organizations, Sync!create_organization, Async!create_organization,
         Sync!get_organization_by_external_id, Async!get_organization_by_external_id,
         Sync!get_organization, Async!get_organization, Sync!update_organization,
         Async!update_organization, Sync!delete_organization, Async!delete_organization,
         Sync!get_audit_log_configuration, Async!get_audit_log_configuration,
         Sync!Request, Async!Request, Sync!Page, Async!Page, Sync!Cursors,
         Async!Cursors, Sync!Id, Async!Id, Sync!NoModel, Async!NoModel
<1>20. Sync!Pipes = Async!Pipes
  BY Zenon
     DEF Sync!Pipes, Async!Pipes, Sync!list_data_integrations,
         Async!list_data_integrations, Sync!create_data_integration,
         Async!create_data_integration, Sync!get_data_integration,
         Async!get_data_integration, Sync!update_data_integration,
         Async!update_data_integration, Sync!delete_data_integration,
         Async!delete_data_integration, Sync!update_data_integration_api_key,
         Async!update_data_integration_api_key, Sync!authorize_data_integration,
         Async!authorize_data_integration, Sync!create_data_integration_credential,
         Async!create_data_integration_credential, Sync!get_access_token,
         Async!get_access_token, Sync!get_user_connected_account,
         Async!get_user_connected_account, Sync!create_user_connected_account,
         Async!create_user_connected_account, Sync!update_user_connected_account,
         Async!update_user_connected_account, Sync!delete_user_connected_account,
         Async!delete_user_connected_account, Sync!list_user_data_providers,
         Async!list_user_data_providers, Sync!Request, Async!Request, Sync!Page,
         Async!Page, Sync!Cursors, Async!Cursors, Sync!Id, Async!Id, Sync!NoModel,
         Async!NoModel
<1>21. Sync!PipesProvider = Async!PipesProvider
  BY Zenon
     DEF Sync!PipesProvider, Async!PipesProvider,
         Sync!list_organization_data_integration_configurations,
         Async!list_organization_data_integration_configurations,
         Sync!update_organization_data_integration_configuration,
         Async!update_organization_data_integration_configuration, Sync!Request,
         Async!Request, Sync!Id, Async!Id
<1>22. Sync!Vault = Async!Vault
  BY Zenon
     DEF Sync!Vault, Async!Vault, Sync!create_data_key, Async!create_data_key,
         Sync!create_decrypt, Async!create_decrypt, Sync!create_rekey,
         Async!create_rekey, Sync!list_kv, Async!list_kv, Sync!create_kv,
         Async!create_kv, Sync!get_name, Async!get_name, Sync!get_kv, Async!get_kv,
         Sync!update_kv, Async!update_kv, Sync!delete_kv, Async!delete_kv,
         Sync!list_kv_metadata, Async!list_kv_metadata, Sync!list_kv_versions,
         Async!list_kv_versions, Sync!Request, Async!Request, Sync!Page, Async!Page,
         Sync!Cursors, Async!Cursors, Sync!Id, Async!Id, Sync!NoModel, Async!NoModel
<1>23. Sync!Webhooks = Async!Webhooks
  BY Zenon
     DEF Sync!Webhooks, Async!Webhooks, Sync!list_webhook_endpoints,
         Async!list_webhook_endpoints, Sync!create_webhook_endpoint,
         Async!create_webhook_endpoint, Sync!update_webhook_endpoint,
         Async!update_webhook_endpoint, Sync!delete_webhook_endpoint,
         Async!delete_webhook_endpoint, Sync!Request, Async!Request, Sync!Page,
         Async!Page, Sync!Cursors, Async!Cursors, Sync!Id, Async!Id, Sync!NoModel,
         Async!NoModel
<1>24. Sync!UserOperations = Async!UserOperations
  BY <1>1, <1>2, <1>3, <1>4, <1>5, <1>6, <1>7, <1>8
     DEF Sync!UserOperations, Async!UserOperations
<1> QED
  BY <1>9, <1>10, <1>11, <1>12, <1>13, <1>14, <1>15, <1>16, <1>17, <1>18, <1>19, <1>20,
     <1>21, <1>22, <1>23, <1>24
     DEF Sync!Operations, Async!Operations

\* A list takes the cursor.
TakesCursor(op) ==
  /\ {"via", "takes"} \subseteq DOMAIN op
  /\ op.via = "request_page" => "after" \in op.takes

LEMMA RequestTakes ==
  ASSUME NEW name, NEW method, NEW path, NEW needs, NEW takes, NEW model
  PROVE  LET op == Sync!Request(name, method, path, needs, takes, model)
         IN  op.takes = takes /\ {"via", "takes"} \subseteq DOMAIN op /\ TakesCursor(op)
BY DEF TakesCursor, Sync!Request

LEMMA RevisedTakes ==
  ASSUME NEW op, NEW via, {"via", "takes"} \subseteq DOMAIN op,
         via = "request_page" => "after" \in op.takes
  PROVE  TakesCursor([op EXCEPT !.via = via])
BY DEF TakesCursor

\* Whatever the constructors of operations make takes it, a page that is given it
\* included.
LEMMA MadeTakes ==
  /\ \A name, method, path, needs, takes, model :
       TakesCursor(Sync!Request(name, method, path, needs, takes, model))
  /\ \A name, path, needs, takes, model :
       "after" \in takes => TakesCursor(Sync!Page(name, path, needs, takes, model))
  /\ \A name, path, needs, takes : TakesCursor(Sync!List(name, path, needs, takes))
  /\ \A name, path, needs, takes : TakesCursor(Sync!Url(name, path, needs, takes))
<1>1. ASSUME NEW name, NEW path, NEW needs, NEW takes, NEW model, NEW via,
             via = "request_page" => "after" \in takes
      PROVE  TakesCursor([Sync!Request(name, "get", path, needs, takes, model)
                            EXCEPT !.via = via])
  <2>1. PICK op : op = Sync!Request(name, "get", path, needs, takes, model)
    OBVIOUS
  <2>2. TakesCursor([op EXCEPT !.via = via])
    BY <1>1, <2>1, RequestTakes, RevisedTakes
  <2> QED BY <2>1, <2>2, Zenon
<1>2. "request_list" # "request_page" /\ "build_url" # "request_page"
  OBVIOUS
<1>3. \A name, path, needs, takes, model :
        "after" \in takes => TakesCursor(Sync!Page(name, path, needs, takes, model))
  BY <1>1, Zenon DEF Sync!Page
<1>4. \A name, path, needs, takes : TakesCursor(Sync!List(name, path, needs, takes))
  BY <1>1, <1>2, Zenon DEF Sync!List
<1>5. \A name, path, needs, takes : TakesCursor(Sync!Url(name, path, needs, takes))
  BY <1>1, <1>2, Zenon DEF Sync!Url
<1> QED BY <1>3, <1>4, <1>5, RequestTakes

LEMMA RevisedOtherwise ==
  /\ \A how, op : TakesCursor(op) => TakesCursor(Sync!Identified(how, op))
  /\ \A op : TakesCursor(op) => TakesCursor(Sync!ByToken(op))
  /\ \A op : TakesCursor(op) => TakesCursor(Sync!Keyed(op))
  /\ \A op : TakesCursor(op) => TakesCursor(Sync!WithoutOptions(op))
BY DEF TakesCursor, Sync!Identified, Sync!ByToken, Sync!Keyed, Sync!WithoutOptions

LEMMA ListsTakeCursor == \A op \in Sync!Operations : TakesCursor(op)
<1>1. "after" \in Sync!Cursors
  BY DEF Sync!Cursors
<1>2. \A op \in Sync!ClientApi : TakesCursor(op)
  BY MadeTakes, Zenon
     DEF Sync!ClientApi, Sync!client_api_create_token
<1>3. \A op \in Sync!MultiFactorAuth : TakesCursor(op)
  BY <1>1, MadeTakes, Zenon
     DEF Sync!MultiFactorAuth, Sync!verify_challenge, Sync!enroll_factor,
         Sync!get_factor, Sync!delete_factor, Sync!challenge_factor,
         Sync!list_user_auth_factors, Sync!create_user_auth_factor
<1>4. \A op \in Sync!OrganizationMembershipService : TakesCursor(op)
  BY <1>1, MadeTakes, Zenon
     DEF Sync!OrganizationMembershipService, Sync!list_organization_memberships,
         Sync!create_organization_membership, Sync!get_organization_membership,
         Sync!update_organization_membership, Sync!delete_organization_membership,
         Sync!deactivate_organization_membership,
         Sync!reactivate_organization_membership,
         Sync!list_organization_membership_groups
<1>5. \A op \in Sync!Radar : TakesCursor(op)
  BY MadeTakes, Zenon
     DEF Sync!Radar, Sync!create_attempt, Sync!update_attempt, Sync!add_list_entry,
         Sync!remove_list_entry
<1>6. \A op \in Sync!SSO : TakesCursor(op)
  BY <1>1, MadeTakes, RevisedOtherwise, Zenon
     DEF Sync!SSO, Sync!list_connections, Sync!get_connection, Sync!delete_connection,
         Sync!sso_get_authorization_url, Sync!sso_get_logout_url, Sync!authorize_logout,
         Sync!get_profile, Sync!get_profile_and_token,
         Sync!sso_get_authorization_url_with_pkce, Sync!get_profile_and_token_pkce
<1>7. \A op \in Sync!UserManagement : TakesCursor(op)
  <2>1. \A op \in {Sync!get_jwks, Sync!create_authenticate,
                  Sync!authenticate_with_password, Sync!authenticate_with_code,
                  Sync!authenticate_with_refresh_token,
                  Sync!authenticate_with_magic_auth,
                  Sync!authenticate_with_email_verification, Sync!authenticate_with_totp} :
         TakesCursor(op)
    BY <1>1, MadeTakes, RevisedOtherwise, Zenon
       DEF Sync!get_jwks, Sync!create_authenticate, Sync!authenticate_with_password,
           Sync!authenticate_with_code, Sync!authenticate_with_refresh_token,
           Sync!authenticate_with_magic_auth, Sync!authenticate_with_email_verification,
           Sync!authenticate_with_totp
  <2>2. \A op \in {Sync!authenticate_with_organization_selection,
                  Sync!authenticate_with_device_code,
                  Sync!authenticate_with_radar_email_challenge,
                  Sync!authenticate_with_radar_sms_challenge,
                  Sync!user_management_get_authorization_url, Sync!create_device,
                  Sync!create_radar_challenge, Sync!user_management_get_logout_url} :
         TakesCursor(op)
    BY <1>1, MadeTakes, RevisedOtherwise, Zenon
       DEF Sync!authenticate_with_organization_selection,
           Sync!authenticate_with_device_code,
           Sync!authenticate_with_radar_email_challenge,
           Sync!authenticate_with_radar_sms_challenge,
           Sync!user_management_get_authorization_url, Sync!create_device,
           Sync!create_radar_challenge, Sync!user_management_get_logout_url
  <2>3. \A op \in {Sync!revoke_session, Sync!list_cors_origins, Sync!create_cors_origin,
                  Sync!get_email_verification, Sync!reset_password,
                  Sync!confirm_password_reset, Sync!get_password_reset,
                  Sync!user_management_list_users} :
         TakesCursor(op)
    BY <1>1, MadeTakes, RevisedOtherwise, Zenon
       DEF Sync!revoke_session, Sync!list_cors_origins, Sync!create_cors_origin,
           Sync!get_email_verification, Sync!reset_password,
           Sync!confirm_password_reset, Sync!get_password_reset,
           Sync!user_management_list_users
  <2>4. \A op \in {Sync!create_user, Sync!get_user_by_external_id,
                  Sync!user_management_get_user, Sync!update_user, Sync!delete_user,
                  Sync!confirm_email_change, Sync!send_email_change, Sync!verify_email} :
         TakesCursor(op)
    BY <1>1, MadeTakes, RevisedOtherwise, Zenon
       DEF Sync!create_user, Sync!get_user_by_external_id,
           Sync!user_management_get_user, Sync!update_user, Sync!delete_user,
           Sync!confirm_email_change, Sync!send_email_change, Sync!verify_email
  <2>5. \A op \in {Sync!send_verification_email, Sync!get_user_identities,
                  Sync!list_sessions, Sync!list_invitations, Sync!send_invitation,
                  Sync!find_invitation_by_token, Sync!get_invitation,
                  Sync!accept_invitation} :
         TakesCursor(op)
    BY <1>1, MadeTakes, RevisedOtherwise, Zenon
       DEF Sync!send_verification_email, Sync!get_user_identities, Sync!list_sessions,
           Sync!list_invitations, Sync!send_invitation, Sync!find_invitation_by_token,
           Sync!get_invitation, Sync!accept_invitation
  <2>6. \A op \in {Sync!resend_invitation, Sync!revoke_invitation,
                  Sync!list_jwt_template, Sync!update_jwt_template,
                  Sync!create_magic_auth, Sync!get_magic_auth, Sync!list_redirect_uris,
                  Sync!create_redirect_uri} :
         TakesCursor(op)
    BY <1>1, MadeTakes, RevisedOtherwise, Zenon
       DEF Sync!resend_invitation, Sync!revoke_invitation, Sync!list_jwt_template,
           Sync!update_jwt_template, Sync!create_magic_auth, Sync!get_magic_auth,
           Sync!list_redirect_uris, Sync!create_redirect_uri
  <2>7. \A op \in {Sync!list_user_authorized_applications,
                  Sync!delete_user_authorized_application, Sync!list_user_api_keys,
                  Sync!create_user_api_key, Sync!get_jwks_url,
                  Sync!user_management_get_authorization_url_with_pkce,
                  Sync!authenticate_with_code_pkce} :
         TakesCursor(op)
    BY <1>1, MadeTakes, RevisedOtherwise, Zenon
       DEF Sync!list_user_authorized_applications,
           Sync!delete_user_authorized_application, Sync!list_user_api_keys,
           Sync!create_user_api_key, Sync!get_jwks_url,
           Sync!user_management_get_authorization_url_with_pkce,
           Sync!authenticate_with_code_pkce
  <2> QED BY <2>1, <2>2, <2>3, <2>4, <2>5, <2>6, <2>7 DEF Sync!UserManagement
<1>8. \A op \in Sync!Widgets : TakesCursor(op)
  BY MadeTakes, Zenon
     DEF Sync!Widgets, Sync!widgets_create_token
<1>9. \A op \in Sync!Passwordless : TakesCursor(op)
  BY MadeTakes, RevisedOtherwise, Zenon
     DEF Sync!Passwordless, Sync!create_session, Sync!send_session
<1>10. \A op \in Sync!AdminPortal : TakesCursor(op)
  BY MadeTakes, Zenon
     DEF Sync!AdminPortal, Sync!generate_link
<1>11. \A op \in Sync!ApiKeys : TakesCursor(op)
  BY <1>1, MadeTakes, Zenon
     DEF Sync!ApiKeys, Sync!list_organization_api_keys,
         Sync!create_organization_api_key, Sync!create_validation, Sync!delete_api_key,
         Sync!create_api_key_expire
<1>12. \A op \in Sync!AuditLogs : TakesCursor(op)
  BY <1>1, MadeTakes, RevisedOtherwise, Zenon
     DEF Sync!AuditLogs, Sync!get_organization_audit_logs_retention,
         Sync!update_organization_audit_logs_retention, Sync!list_actions,
         Sync!list_action_schemas, Sync!create_schema, Sync!create_event,
         Sync!create_export, Sync!get_export
<1>13. \A op \in Sync!Authorization : TakesCursor(op)
  <2>1. \A op \in {Sync!list_group_role_assignments, Sync!create_group_role_assignment,
                  Sync!update_group_role_assignments,
                  Sync!delete_group_role_assignments, Sync!get_group_role_assignment,
                  Sync!delete_group_role_assignment, Sync!check,
                  Sync!list_resources_for_membership} :
         TakesCursor(op)
    BY <1>1, MadeTakes, Zenon
       DEF Sync!list_group_role_assignments, Sync!create_group_role_assignment,
           Sync!update_group_role_assignments, Sync!delete_group_role_assignments,
           Sync!get_group_role_assignment, Sync!delete_group_role_assignment,
           Sync!check, Sync!list_resources_for_membership
  <2>2. \A op \in {Sync!list_effective_permissions,
                  Sync!list_effective_permissions_by_external_id,
                  Sync!list_role_assignments, Sync!assign_role, Sync!remove_role,
                  Sync!remove_role_assignment, Sync!list_organization_roles,
                  Sync!create_organization_role} :
         TakesCursor(op)
    BY <1>1, MadeTakes, Zenon
       DEF Sync!list_effective_permissions,
           Sync!list_effective_permissions_by_external_id, Sync!list_role_assignments,
           Sync!assign_role, Sync!remove_role, Sync!remove_role_assignment,
           Sync!list_organization_roles, Sync!create_organization_role
  <2>3. \A op \in {Sync!get_organization_role, Sync!update_organization_role,
                  Sync!delete_organization_role, Sync!add_organization_role_permission,
                  Sync!set_organization_role_permissions,
                  Sync!remove_organization_role_permission,
                  Sync!get_resource_by_external_id, Sync!update_resource_by_external_id} :
         TakesCursor(op)
    BY <1>1, MadeTakes, Zenon
       DEF Sync!get_organization_role, Sync!update_organization_role,
           Sync!delete_organization_role, Sync!add_organization_role_permission,
           Sync!set_organization_role_permissions,
           Sync!remove_organization_role_permission, Sync!get_resource_by_external_id,
           Sync!update_resource_by_external_id
  <2>4. \A op \in {Sync!delete_resource_by_external_id,
                  Sync!list_memberships_for_resource_by_external_id,
                  Sync!list_role_assignments_for_resource_by_external_id,
                  Sync!list_resources, Sync!create_resource, Sync!get_resource,
                  Sync!update_resource, Sync!delete_resource} :
         TakesCursor(op)
    BY <1>1, MadeTakes, Zenon
       DEF Sync!delete_resource_by_external_id,
           Sync!list_memberships_for_resource_by_external_id,
           Sync!list_role_assignments_for_resource_by_external_id, Sync!list_resources,
           Sync!create_resource, Sync!get_resource, Sync!update_resource,
           Sync!delete_resource
  <2>5. \A op \in {Sync!list_memberships_for_resource,
                  Sync!list_role_assignments_for_resource, Sync!list_environment_roles,
                  Sync!create_environment_role, Sync!get_environment_role,
                  Sync!update_environment_role, Sync!add_environment_role_permission,
                  Sync!set_environment_role_permissions} :
         TakesCursor(op)
    BY <1>1, MadeTakes, Zenon
       DEF Sync!list_memberships_for_resource, Sync!list_role_assignments_for_resource,
           Sync!list_environment_roles, Sync!create_environment_role,
           Sync!get_environment_role, Sync!update_environment_role,
           Sync!add_environment_role_permission, Sync!set_environment_role_permissions
  <2>6. \A op \in {Sync!list_permissions, Sync!create_permission, Sync!get_permission,
                  Sync!update_permission, Sync!delete_permission} :
         TakesCursor(op)
    BY <1>1, MadeTakes, Zenon
       DEF Sync!list_permissions, Sync!create_permission, Sync!get_permission,
           Sync!update_permission, Sync!delete_permission
  <2> QED BY <2>1, <2>2, <2>3, <2>4, <2>5, <2>6 DEF Sync!Authorization
<1>14. \A op \in Sync!Connect : TakesCursor(op)
  BY <1>1, MadeTakes, ZenonT(40)
     DEF Sync!Connect, Sync!complete_oauth2, Sync!list_applications,
         Sync!create_application, Sync!create_oauth_application,
         Sync!create_m2m_application, Sync!get_application, Sync!update_application,
         Sync!delete_application, Sync!list_application_client_secrets,
         Sync!create_application_client_secret, Sync!delete_client_secret
<1>15. \A op \in Sync!DirectorySync : TakesCursor(op)
  BY <1>1, MadeTakes, Zenon
     DEF Sync!DirectorySync, Sync!list_directories, Sync!get_directory,
         Sync!delete_directory, Sync!list_groups, Sync!get_group,
         Sync!directory_sync_list_users, Sync!directory_sync_get_user
<1>16. \A op \in Sync!Events : TakesCursor(op)
  BY <1>1, MadeTakes, Zenon
     DEF Sync!Events, Sync!list_events
<1>17. \A op \in Sync!FeatureFlags : TakesCursor(op)
  BY <1>1, MadeTakes, Zenon
     DEF Sync!FeatureFlags, Sync!list_feature_flags, Sync!get_feature_flag,
         Sync!disable_feature_flag, Sync!enable_feature_flag, Sync!add_flag_target,
         Sync!remove_flag_target, Sync!list_organization_feature_flags,
         Sync!list_user_feature_flags
<1>18. \A op \in Sync!Groups : TakesCursor(op)
  BY <1>1, MadeTakes, Zenon
     DEF Sync!Groups, Sync!list_organization_groups, Sync!create_organization_group,
         Sync!get_organization_group, Sync!update_organization_group,
         Sync!delete_organization_group, Sync!list_group_organization_memberships,
         Sync!create_group_organization_membership,
         Sync!delete_group_organization_membership
<1>19. \A op \in Sync!OrganizationDomains : TakesCursor(op)
  BY MadeTakes, Zenon
     DEF Sync!OrganizationDomains, Sync!create_organization_domain,
         Sync!get_organization_domain, Sync!delete_organization_domain,
         Sync!verify_organization_domain
<1>20. \A op \in Sync!Organizations : TakesCursor(op)
  BY <1>1, MadeTakes, Zenon
     DEF Sync!Organizations, Sync!list_organizations, Sync!create_organization,
         Sync!get_organization_by_external_id, Sync!get_organization,
         Sync!update_organization, Sync!delete_organization,
         Sync!get_audit_log_configuration
<1>21. \A op \in Sync!Pipes : TakesCursor(op)
  BY <1>1, MadeTakes, ZenonT(40)
     DEF Sync!Pipes, Sync!list_data_integrations, Sync!create_data_integration,
         Sync!get_data_integration, Sync!update_data_integration,
         Sync!delete_data_integration, Sync!update_data_integration_api_key,
         Sync!authorize_data_integration, Sync!create_data_integration_credential,
         Sync!get_access_token, Sync!get_user_connected_account,
         Sync!create_user_connected_account, Sync!update_user_connected_account,
         Sync!delete_user_connected_account, Sync!list_user_data_providers
<1>22. \A op \in Sync!PipesProvider : TakesCursor(op)
  BY MadeTakes, Zenon
     DEF Sync!PipesProvider, Sync!list_organization_data_integration_configurations,
         Sync!update_organization_data_integration_configuration
<1>23. \A op \in Sync!Vault : TakesCursor(op)
  BY <1>1, MadeTakes, ZenonT(40)
     DEF Sync!Vault, Sync!create_data_key, Sync!create_decrypt, Sync!create_rekey,
         Sync!list_kv, Sync!create_kv, Sync!get_name, Sync!get_kv, Sync!update_kv,
         Sync!delete_kv, Sync!list_kv_metadata, Sync!list_kv_versions
<1>24. \A op \in Sync!Webhooks : TakesCursor(op)
  BY <1>1, MadeTakes, Zenon
     DEF Sync!Webhooks, Sync!list_webhook_endpoints, Sync!create_webhook_endpoint,
         Sync!update_webhook_endpoint, Sync!delete_webhook_endpoint
<1> QED
  BY <1>2, <1>3, <1>4, <1>5, <1>6, <1>7, <1>8, <1>9, <1>10, <1>11, <1>12, <1>13, <1>14,
     <1>15, <1>16, <1>17, <1>18, <1>19, <1>20, <1>21, <1>22, <1>23, <1>24
     DEF Sync!Operations, Sync!UserOperations
-----------------------------------------------------------------------------
\* What is sent is a request of the client's own catalogue, in its method and
\* with fields that it takes.
CatalogueSent ==
  sent # None => /\ client # None /\ client.flavour \in Flavours
                 /\ sent.operation \in OperationsOf[client.flavour]
                 /\ sent.method = Upper[sent.operation.method]
                 /\ sent.fields \subseteq sent.operation.needs \cup sent.operation.takes

LEMMA OneCatalogue ==
  ASSUME NEW flavour \in Flavours
  PROVE  OperationsOf[flavour] = Sync!Operations
BY SameOperations DEF Flavours, OperationsOf

LEMMA StepCatalogueSent == TypeOK /\ Inv /\ CatalogueSent /\ [Next]_vars => CatalogueSent'
<1> SUFFICES ASSUME TypeOK, Inv, CatalogueSent, [Next]_vars PROVE CatalogueSent'
  OBVIOUS
<1>1. CASE Configure
  <2>1. sent = None /\ sent' = None
    BY <1>1 DEF Configure, CreatePublic, Construct, Inv, SentByClient
  <2> QED BY <2>1 DEF CatalogueSent
<1>2. CASE Calls
  <2>1. PICK op \in OperationsOf[client.flavour] :
          \E fields \in {{}, op.takes} :
            /\ sent'.operation = op /\ sent'.method = Upper[op.method]
            /\ sent'.fields = op.needs \cup fields
            /\ UNCHANGED client
    BY <1>2 DEF Calls, Call
  <2>2. client # None /\ client.flavour \in Flavours
    BY <1>2 DEF Calls, TypeOK
  <2> QED BY <2>1, <2>2 DEF CatalogueSent
<1>3. CASE NextPage
  <2>1. /\ sent # None /\ UNCHANGED client /\ sent.operation.via = "request_page"
        /\ sent' = [sent EXCEPT !.fields = @ \cup {"after"}]
    BY <1>3 DEF NextPage
  <2>2. /\ sent'.operation = sent.operation /\ sent'.method = sent.method
        /\ sent'.fields \subseteq sent.fields \cup {"after"}
    BY <2>1
  <2>3. "after" \in sent.operation.takes
    BY <2>1, OneCatalogue, ListsTakeCursor DEF CatalogueSent, TakesCursor
  <2> QED BY <2>1, <2>2, <2>3 DEF CatalogueSent
<1>4. CASE Return \/ UNCHANGED vars
  BY <1>4 DEF Return, vars, CatalogueSent
<1> QED BY <1>1, <1>2, <1>3, <1>4 DEF Next

\* Every request is one of the catalogue, with the fields its method takes.
THEOREM CatalogueKept == Spec => []CatalogueSent
<1>1. Init => CatalogueSent
  BY DEF Init, CatalogueSent
<1> QED BY <1>1, StepCatalogueSent, Invariance, TypeCorrect, PTL DEF Spec

\* Whatever one client's method sends, the same method of the other would.
THEOREM TwinMethods == Spec => []TwinsAgree
<1>1. CatalogueSent => TwinsAgree
  BY OneCatalogue DEF CatalogueSent, TwinsAgree
<1> QED BY <1>1, CatalogueKept, PTL

\* Every list can be asked for its further pages.
THEOREM FurtherPagesCallable == Spec => []FurtherPagesAreCalls
<1>1. CatalogueSent => FurtherPagesAreCalls
  BY DEF CatalogueSent, FurtherPagesAreCalls
<1> QED BY <1>1, CatalogueKept, PTL
-----------------------------------------------------------------------------
(***************************************************************************)
(* One reader for all requests: what is made of an answer can be told from  *)
(* the path and the method alone.  The cases follow the words of the paths;  *)
(* what they leave to OTHER is an ID where the others have a word.           *)
(***************************************************************************)
AsModel(model) == <<model, "request">>
AsPage(model) == <<model, "request_page">>
AsList == <<NoModel, "request_list">>
AsNothing == <<NoModel, "request">>

UsersReading(path, verb) ==
  IF Len(path) = 2
  THEN IF verb = "GET" THEN AsPage("User") ELSE AsModel("UserCreateResponse")
  ELSE CASE path[3] = "external_id" -> AsModel("User")
         [] OTHER ->
              IF Len(path) = 3 THEN AsModel("User")
              ELSE CASE path[4] = "auth_factors" ->
                          IF verb = "GET" THEN AsPage("AuthenticationFactor")
                          ELSE AsModel("UserAuthenticationFactorEnrollResponse")
                     [] path[4] = "email_change" ->
                          CASE path[5] = "confirm" ->
                                 AsModel("EmailChangeConfirmation")
                            [] OTHER -> AsModel("EmailChange")
                     [] path[4] = "email_verification" ->
                          CASE path[5] = "confirm" -> AsModel("VerifyEmailResponse")
                            [] OTHER -> AsModel("SendVerificationEmailResponse")
                     [] path[4] = "identities" -> AsList
                     [] path[4] = "sessions" -> AsPage("UserSessionsListItem")
                     [] path[4] = "authorized_applications" ->
                          AsPage("AuthorizedConnectApplicationListData")
                     [] path[4] = "api_keys" ->
                          IF verb = "GET" THEN AsPage("UserApiKey")
                          ELSE AsModel("UserApiKeyWithValue")
                     [] path[4] = "feature-flags" -> AsPage("Flag")
                     [] path[4] = "connected_accounts" -> AsModel("ConnectedAccount")
                     [] OTHER -> AsModel("DataIntegrationsListResponse")

UserManagementReading(path, verb) ==
  CASE path[2] = "users" -> UsersReading(path, verb)
    [] path[2] = "organization_memberships" ->
         IF Len(path) = 2
         THEN IF verb = "GET" THEN AsPage("UserOrganizationMembership")
              ELSE AsModel("OrganizationMembership")
         ELSE IF Len(path) = 3 THEN AsModel("UserOrganizationMembership")
         ELSE CASE path[4] = "deactivate" -> AsModel("OrganizationMembership")
                [] path[4] = "reactivate" -> AsModel("UserOrganizationMembership")
                [] OTHER -> AsPage("Group")
    [] path[2] = "authenticate" -> AsModel("AuthenticateResponse")
    [] path[2] = "authorize" -> AsModel("DeviceAuthorizationResponse")
    [] path[2] = "radar_challenges" -> AsModel("SendRadarSmsChallengeResponse")
    [] path[2] = "sessions" -> AsNothing
    [] path[2] = "cors_origins" ->
         IF verb = "GET" THEN AsPage("CORSOriginResponse")
         ELSE AsModel("CORSOriginResponse")
    [] path[2] = "email_verification" -> AsModel("EmailVerification")
    [] path[2] = "password_reset" ->
         IF Len(path) = 2 THEN AsModel("PasswordReset")
         ELSE IF verb = "GET" THEN AsModel("PasswordReset")
         ELSE AsModel("ResetPasswordResponse")
    [] path[2] = "invitations" ->
         IF Len(path) = 2
         THEN IF verb = "GET" THEN AsPage("UserInvite") ELSE AsModel("UserInvite")
         ELSE CASE path[3] = "by_token" -> AsModel("UserInvite")
                [] OTHER ->
                     IF Len(path) = 3 THEN AsModel("UserInvite")
                     ELSE CASE path[4] \in {"accept", "revoke"} ->
                                 AsModel("Invitation")
                            [] OTHER -> AsModel("UserInvite")
    [] path[2] = "jwt_template" -> AsModel("JWTTemplateResponse")
    [] path[2] = "magic_auth" ->
         IF verb = "GET" THEN AsModel("MagicAuth")
         ELSE AsModel("MagicAuthSendMagicAuthCodeAndReturnResponse")
    [] OTHER -> IF verb = "GET" THEN AsPage("RedirectUri") ELSE AsModel("RedirectUri")

AuthReading(path, verb) ==
  CASE path[2] = "challenges" -> AsModel("AuthenticationChallengeVerifyResponse")
    [] OTHER ->
         CASE path[3] = "enroll" -> AsModel("AuthenticationFactorEnrolled")
           [] OTHER ->
                IF verb = "GET" THEN AsModel("AuthenticationFactor")
                ELSE AsModel("AuthenticationChallenge")

RadarReading(path, verb) ==
  CASE path[2] = "attempts" ->
         IF verb = "POST" THEN AsModel("RadarStandaloneResponse") ELSE AsNothing
    [] OTHER -> AsModel("RadarListEntryAlreadyPresentResponse")

ConnectionsReading(path, verb) ==
  IF Len(path) = 1 THEN AsPage("Connection")
  ELSE AsModel("Connection")

SsoReading(path, verb) ==
  CASE path[2] = "logout" -> AsModel("SSOLogoutAuthorizeResponse")
    [] path[2] = "profile" -> AsModel("Profile")
    [] path[2] = "token" -> AsModel("SSOTokenResponse")
    [] OTHER -> AsModel("JwksResponse")

PasswordlessReading(path, verb) ==
  IF Len(path) = 2 THEN AsModel("PasswordlessSession")
  ELSE AsNothing

OrganizationsReading(path, verb) ==
  IF Len(path) = 1
  THEN IF verb = "GET" THEN AsPage("Organization") ELSE AsModel("Organization")
  ELSE CASE path[2] = "external_id" -> AsModel("Organization")
         [] OTHER ->
              IF Len(path) = 2 THEN AsModel("Organization")
              ELSE CASE path[3] = "api_keys" ->
                          IF verb = "GET" THEN AsPage("OrganizationApiKey")
                          ELSE AsModel("OrganizationApiKeyWithValue")
                     [] path[3] = "audit_logs_retention" ->
                          AsModel("AuditLogsRetention")
                     [] path[3] = "feature-flags" -> AsPage("Flag")
                     [] path[3] = "groups" ->
                          IF Len(path) = 3
                          THEN IF verb = "GET" THEN AsPage("Group")
                               ELSE AsModel("Group")
                          ELSE IF Len(path) = 4 THEN AsModel("Group")
                          ELSE IF verb = "GET"
                          THEN AsPage("UserOrganizationMembershipBaseListData")
                          ELSE AsModel("Group")
                     [] path[3] = "audit_log_configuration" ->
                          AsModel("AuditLogConfiguration")
                     [] OTHER ->
                          IF verb = "GET"
                          THEN AsModel("DataIntegrationConfigurationListResponse")
                          ELSE AsModel("DataIntegrationConfigurationResponse")

ApiKeysReading(path, verb) ==
  CASE path[2] = "validations" -> AsModel("ApiKeyValidationResponse")
    [] OTHER -> AsModel("ApiKey")

AuditLogsReading(path, verb) ==
  CASE path[2] = "actions" ->
         IF Len(path) = 2 THEN AsPage("AuditLogAction")
         ELSE IF verb = "GET" THEN AsPage("AuditLogSchema")
         ELSE AsModel("AuditLogSchema")
    [] path[2] = "events" -> AsModel("AuditLogEventCreateResponse")
    [] OTHER -> AsModel("AuditLogExport")

AuthorizationReading(path, verb) ==
  CASE path[2] = "groups" ->
         IF Len(path) = 4
         THEN IF verb = "GET" THEN AsPage("GroupRoleAssignment")
              ELSE IF verb = "POST" THEN AsModel("GroupRoleAssignment")
              ELSE AsModel("GroupRoleAssignmentList")
         ELSE AsModel("GroupRoleAssignment")
    [] path[2] = "organization_memberships" ->
         CASE path[4] = "check" -> AsModel("AuthorizationCheck")
           [] path[4] = "resources" ->
                IF Len(path) = 4 THEN AsPage("AuthorizationResource")
                ELSE AsPage("AuthorizationPermission")
           [] OTHER ->
                IF verb = "GET" THEN AsPage("UserRoleAssignment")
                ELSE AsModel("UserRoleAssignment")
    [] path[2] = "organizations" ->
         CASE path[4] = "roles" ->
                IF Len(path) = 4
                THEN IF verb = "GET" THEN AsModel("RoleList") ELSE AsModel("Role")
                ELSE AsModel("Role")
           [] OTHER ->
                IF Len(path) = 6 THEN AsModel("AuthorizationResource")
                ELSE CASE path[7] = "organization_memberships" ->
                            AsPage("UserOrganizationMembershipBaseListData")
                       [] OTHER -> AsPage("UserRoleAssignment")
    [] path[2] = "resources" ->
         IF Len(path) = 2
         THEN IF verb = "GET" THEN AsPage("AuthorizationResource")
              ELSE AsModel("AuthorizationResource")
         ELSE IF Len(path) = 3 THEN AsModel("AuthorizationResource")
         ELSE CASE path[4] = "organization_memberships" ->
                     AsPage("UserOrganizationMembershipBaseListData")
                [] OTHER -> AsPage("UserRoleAssignment")
    [] path[2] = "roles" ->
         IF Len(path) = 2
         THEN IF verb = "GET" THEN AsModel("RoleList") ELSE AsModel("Role")
         ELSE AsModel("Role")
    [] OTHER ->
         IF Len(path) = 2
         THEN IF verb = "GET" THEN AsPage("AuthorizationPermission")
              ELSE AsModel("Permission")
         ELSE AsModel("AuthorizationPermission")

ConnectReading(path, verb) ==
  IF Len(path) = 2
  THEN IF verb = "GET" THEN AsPage("ConnectApplication")
       ELSE AsModel("ConnectApplication")
  ELSE IF Len(path) = 3 THEN AsModel("ConnectApplication")
  ELSE IF verb = "GET" THEN AsList ELSE AsModel("NewConnectApplicationSecret")

DirectoriesReading(path, verb) ==
  IF Len(path) = 1 THEN AsPage("Directory")
  ELSE AsModel("Directory")

DirectoryGroupsReading(path, verb) ==
  IF Len(path) = 1 THEN AsPage("DirectoryGroup")
  ELSE AsModel("DirectoryGroup")

DirectoryUsersReading(path, verb) ==
  IF Len(path) = 1 THEN AsPage("DirectoryUserWithGroups")
  ELSE AsModel("DirectoryUserWithGroups")

FeatureFlagsReading(path, verb) ==
  IF Len(path) = 1 THEN AsPage("Flag")
  ELSE IF verb = "GET" THEN AsModel("Flag") ELSE IF verb = "POST" THEN AsNothing
  ELSE AsModel("FeatureFlag")

OrganizationDomainsReading(path, verb) ==
  IF Len(path) = 1 THEN AsModel("OrganizationDomain")
  ELSE AsModel("OrganizationDomainStandAlone")

DataIntegrationsReading(path, verb) ==
  IF Len(path) = 1
  THEN IF verb = "GET" THEN AsPage("DataIntegration") ELSE AsModel("DataIntegration")
  ELSE IF Len(path) = 2 THEN AsModel("DataIntegration")
  ELSE CASE path[3] = "api-key" -> AsModel("ConnectedAccount")
         [] path[3] = "authorize" -> AsModel("DataIntegrationAuthorizeUrlResponse")
         [] path[3] = "credentials" ->
              AsModel("DataIntegrationCredentialsResponse")
         [] OTHER -> AsModel("DataIntegrationAccessTokenResponse")

VaultReading(path, verb) ==
  CASE path[3] = "keys" ->
         CASE path[4] \in {"data-key", "rekey"} -> AsModel("CreateDataKeyResponse")
           [] OTHER -> AsModel("DecryptResponse")
    [] OTHER ->
         IF Len(path) = 3
         THEN IF verb = "GET" THEN AsPage("ObjectSummary")
              ELSE AsModel("ObjectMetadata")
         ELSE CASE path[4] = "name" -> AsModel("VaultObject")
                [] OTHER ->
                     IF Len(path) = 4
                     THEN IF verb = "GET" THEN AsModel("VaultObject")
                          ELSE AsModel("ObjectWithoutValue")
                     ELSE CASE path[5] = "metadata" -> AsModel("ObjectWithoutValue")
                            [] OTHER -> AsModel("VersionListResponse")

WebhookEndpointsReading(path, verb) ==
  IF verb = "GET" THEN AsPage("WebhookEndpoint") ELSE AsModel("WebhookEndpoint")

Reading(path, verb) ==
  IF verb = "DELETE" THEN AsNothing
  ELSE CASE path[1] = "user_management" -> UserManagementReading(path, verb)
         [] path[1] = "client" -> AsModel("ClientApiTokenResponse")
         [] path[1] = "auth" -> AuthReading(path, verb)
         [] path[1] = "radar" -> RadarReading(path, verb)
         [] path[1] = "connections" -> ConnectionsReading(path, verb)
         [] path[1] = "sso" -> SsoReading(path, verb)
         [] path[1] = "widgets" -> AsModel("WidgetSessionTokenResponse")
         [] path[1] = "passwordless" -> PasswordlessReading(path, verb)
         [] path[1] = "portal" -> AsModel("PortalLinkResponse")
         [] path[1] = "organizations" -> OrganizationsReading(path, verb)
         [] path[1] = "api_keys" -> ApiKeysReading(path, verb)
         [] path[1] = "audit_logs" -> AuditLogsReading(path, verb)
         [] path[1] = "authorization" -> AuthorizationReading(path, verb)
         [] path[1] = "authkit" -> AsModel("ExternalAuthCompleteResponse")
         [] path[1] = "connect" -> ConnectReading(path, verb)
         [] path[1] = "directories" -> DirectoriesReading(path, verb)
         [] path[1] = "directory_groups" -> DirectoryGroupsReading(path, verb)
         [] path[1] = "directory_users" -> DirectoryUsersReading(path, verb)
         [] path[1] = "events" -> AsPage("EventSchema")
         [] path[1] = "feature-flags" -> FeatureFlagsReading(path, verb)
         [] path[1] = "organization_domains" -> OrganizationDomainsReading(path, verb)
         [] path[1] = "data-integrations" -> DataIntegrationsReading(path, verb)
         [] path[1] = "vault" -> VaultReading(path, verb)
         [] path[1] = "webhook_endpoints" -> WebhookEndpointsReading(path, verb)

\* An operation whose answer the reader reads as the source does.
Reads(op) ==
  /\ {"via", "method", "path", "model"} \subseteq DOMAIN op
  /\ op.via # "build_url" => Reading(op.path, Upper[op.method]) = <<op.model, op.via>>

\* A method that only builds a URL reads no answer.
LEMMA UrlsRead ==
  /\ Reads(Sync!get_jwks_url)
  /\ Reads(Sync!user_management_get_authorization_url_with_pkce)
<1> USE DEF Reads, Sync!Url, Sync!Identified, Sync!WithoutOptions, Sync!Request
<1>1. Reads(Sync!get_jwks_url)
  BY DEF Sync!get_jwks_url
<1>2. Reads(Sync!user_management_get_authorization_url_with_pkce)
  BY DEF Sync!user_management_get_authorization_url_with_pkce
<1> QED BY <1>1, <1>2

LEMMA AnswersRead == \A op \in Sync!Operations : Reads(op)
<1> USE DEF Reads, Upper, Reading, AsModel, AsPage, AsList, AsNothing, NoModel, Sync!Id,
          Sync!NoModel, Sync!Request
<1>1. \A op \in Sync!ClientApi : Reads(op)
  <2>1. /\ Reads(Sync!client_api_create_token)
    BY DEF Sync!client_api_create_token
  <2> HIDE DEF Reads
  <2> QED BY <2>1, Zenon DEF Sync!ClientApi
<1>2. \A op \in Sync!MultiFactorAuth : Reads(op)
  <2>1. /\ Reads(Sync!verify_challenge) /\ Reads(Sync!enroll_factor)
        /\ Reads(Sync!get_factor) /\ Reads(Sync!delete_factor)
    BY DEF AuthReading, Sync!verify_challenge, Sync!enroll_factor, Sync!get_factor,
           Sync!delete_factor
  <2>2. /\ Reads(Sync!challenge_factor) /\ Reads(Sync!list_user_auth_factors)
        /\ Reads(Sync!create_user_auth_factor)
    BY DEF AuthReading, UserManagementReading, UsersReading, Sync!Page,
           Sync!challenge_factor, Sync!list_user_auth_factors,
           Sync!create_user_auth_factor
  <2> HIDE DEF Reads
  <2> QED BY <2>1, <2>2, Zenon DEF Sync!MultiFactorAuth
<1>3. \A op \in Sync!OrganizationMembershipService : Reads(op)
  <2>1. /\ Reads(Sync!list_organization_memberships)
        /\ Reads(Sync!create_organization_membership)
        /\ Reads(Sync!get_organization_membership)
        /\ Reads(Sync!update_organization_membership)
    BY DEF UserManagementReading, Sync!Page, Sync!list_organization_memberships,
           Sync!create_organization_membership, Sync!get_organization_membership,
           Sync!update_organization_membership
  <2>2. /\ Reads(Sync!delete_organization_membership)
        /\ Reads(Sync!deactivate_organization_membership)
        /\ Reads(Sync!reactivate_organization_membership)
        /\ Reads(Sync!list_organization_membership_groups)
    BY DEF UserManagementReading, Sync!Page, Sync!delete_organization_membership,
           Sync!deactivate_organization_membership,
           Sync!reactivate_organization_membership,
           Sync!list_organization_membership_groups
  <2> HIDE DEF Reads
  <2> QED BY <2>1, <2>2, Zenon DEF Sync!OrganizationMembershipService
<1>4. \A op \in Sync!Radar : Reads(op)
  <2>1. /\ Reads(Sync!create_attempt) /\ Reads(Sync!update_attempt)
        /\ Reads(Sync!add_list_entry) /\ Reads(Sync!remove_list_entry)
    BY DEF RadarReading, Sync!create_attempt, Sync!update_attempt, Sync!add_list_entry,
           Sync!remove_list_entry
  <2> HIDE DEF Reads
  <2> QED BY <2>1, Zenon DEF Sync!Radar
<1>5. \A op \in Sync!SSO : Reads(op)
  <2>1. /\ Reads(Sync!list_connections) /\ Reads(Sync!get_connection)
        /\ Reads(Sync!delete_connection) /\ Reads(Sync!sso_get_authorization_url)
        /\ Reads(Sync!sso_get_logout_url)
    BY DEF ConnectionsReading, Sync!Page, Sync!Url, Sync!Identified,
           Sync!list_connections, Sync!get_connection, Sync!delete_connection,
           Sync!sso_get_authorization_url, Sync!sso_get_logout_url
  <2>2. /\ Reads(Sync!authorize_logout) /\ Reads(Sync!get_profile)
        /\ Reads(Sync!get_profile_and_token)
        /\ Reads(Sync!sso_get_authorization_url_with_pkce)
        /\ Reads(Sync!get_profile_and_token_pkce)
    BY DEF SsoReading, Sync!Url, Sync!Identified, Sync!ByToken, Sync!WithoutOptions,
           Sync!authorize_logout, Sync!get_profile, Sync!get_profile_and_token,
           Sync!sso_get_authorization_url_with_pkce, Sync!get_profile_and_token_pkce
  <2> HIDE DEF Reads
  <2> QED BY <2>1, <2>2, Zenon DEF Sync!SSO
<1>6. \A op \in Sync!UserManagement : Reads(op)
  <2>1. /\ Reads(Sync!get_jwks) /\ Reads(Sync!create_authenticate)
        /\ Reads(Sync!authenticate_with_password) /\ Reads(Sync!authenticate_with_code)
        /\ Reads(Sync!authenticate_with_refresh_token)
    BY DEF SsoReading, UserManagementReading, Sync!Identified, Sync!get_jwks,
           Sync!create_authenticate, Sync!authenticate_with_password,
           Sync!authenticate_with_code, Sync!authenticate_with_refresh_token
  <2>2. /\ Reads(Sync!authenticate_with_magic_auth)
        /\ Reads(Sync!authenticate_with_email_verification)
        /\ Reads(Sync!authenticate_with_totp)
        /\ Reads(Sync!authenticate_with_organization_selection)
        /\ Reads(Sync!authenticate_with_device_code)
    BY DEF UserManagementReading, Sync!Identified, Sync!authenticate_with_magic_auth,
           Sync!authenticate_with_email_verification, Sync!authenticate_with_totp,
           Sync!authenticate_with_organization_selection,
           Sync!authenticate_with_device_code
  <2>3. /\ Reads(Sync!authenticate_with_radar_email_challenge)
        /\ Reads(Sync!authenticate_with_radar_sms_challenge)
        /\ Reads(Sync!user_management_get_authorization_url)
        /\ Reads(Sync!create_device) /\ Reads(Sync!create_radar_challenge)
    BY DEF UserManagementReading, Sync!Url, Sync!Identified,
           Sync!authenticate_with_radar_email_challenge,
           Sync!authenticate_with_radar_sms_challenge,
           Sync!user_management_get_authorization_url, Sync!create_device,
           Sync!create_radar_challenge
  <2>4. /\ Reads(Sync!user_management_get_logout_url) /\ Reads(Sync!revoke_session)
        /\ Reads(Sync!list_cors_origins) /\ Reads(Sync!create_cors_origin)
        /\ Reads(Sync!get_email_verification)
    BY DEF UserManagementReading, Sync!Page, Sync!Url,
           Sync!user_management_get_logout_url, Sync!revoke_session,
           Sync!list_cors_origins, Sync!create_cors_origin, Sync!get_email_verification
  <2>5. /\ Reads(Sync!reset_password) /\ Reads(Sync!confirm_password_reset)
        /\ Reads(Sync!get_password_reset) /\ Reads(Sync!user_management_list_users)
        /\ Reads(Sync!create_user)
    BY DEF UserManagementReading, UsersReading, Sync!Page, Sync!reset_password,
           Sync!confirm_password_reset, Sync!get_password_reset,
           Sync!user_management_list_users, Sync!create_user
  <2>6. /\ Reads(Sync!get_user_by_external_id) /\ Reads(Sync!user_management_get_user)
        /\ Reads(Sync!update_user) /\ Reads(Sync!delete_user)
        /\ Reads(Sync!confirm_email_change)
    BY DEF UserManagementReading, UsersReading, Sync!get_user_by_external_id,
           Sync!user_management_get_user, Sync!update_user, Sync!delete_user,
           Sync!confirm_email_change
  <2>7. /\ Reads(Sync!send_email_change) /\ Reads(Sync!verify_email)
        /\ Reads(Sync!send_verification_email) /\ Reads(Sync!get_user_identities)
        /\ Reads(Sync!list_sessions)
    BY DEF UserManagementReading, UsersReading, Sync!Page, Sync!List,
           Sync!send_email_change, Sync!verify_email, Sync!send_verification_email,
           Sync!get_user_identities, Sync!list_sessions
  <2>8. /\ Reads(Sync!list_invitations) /\ Reads(Sync!send_invitation)
        /\ Reads(Sync!find_invitation_by_token) /\ Reads(Sync!get_invitation)
        /\ Reads(Sync!accept_invitation)
    BY DEF UserManagementReading, Sync!Page, Sync!list_invitations,
           Sync!send_invitation, Sync!find_invitation_by_token, Sync!get_invitation,
           Sync!accept_invitation
  <2>9. /\ Reads(Sync!resend_invitation) /\ Reads(Sync!revoke_invitation)
        /\ Reads(Sync!list_jwt_template) /\ Reads(Sync!update_jwt_template)
        /\ Reads(Sync!create_magic_auth)
    BY DEF UserManagementReading, Sync!resend_invitation, Sync!revoke_invitation,
           Sync!list_jwt_template, Sync!update_jwt_template, Sync!create_magic_auth
  <2>10. /\ Reads(Sync!get_magic_auth) /\ Reads(Sync!list_redirect_uris)
         /\ Reads(Sync!create_redirect_uri)
         /\ Reads(Sync!list_user_authorized_applications)
         /\ Reads(Sync!delete_user_authorized_application)
    BY DEF UserManagementReading, UsersReading, Sync!Page, Sync!get_magic_auth,
           Sync!list_redirect_uris, Sync!create_redirect_uri,
           Sync!list_user_authorized_applications,
           Sync!delete_user_authorized_application
  <2>11. /\ Reads(Sync!list_user_api_keys) /\ Reads(Sync!create_user_api_key)
    BY DEF UserManagementReading, UsersReading, Sync!Page, Sync!list_user_api_keys,
           Sync!create_user_api_key
  <2>12. Reads(Sync!authenticate_with_code_pkce)
    BY DEF UserManagementReading, Sync!Identified, Sync!authenticate_with_code_pkce
  <2> HIDE DEF Reads
  <2> QED
    BY <2>1, <2>2, <2>3, <2>4, <2>5, <2>6, <2>7, <2>8, <2>9, <2>10, <2>11, <2>12,
       UrlsRead, Zenon
       DEF Sync!UserManagement
<1>7. \A op \in Sync!Widgets : Reads(op)
  <2>1. /\ Reads(Sync!widgets_create_token)
    BY DEF Sync!widgets_create_token
  <2> HIDE DEF Reads
  <2> QED BY <2>1, Zenon DEF Sync!Widgets
<1>8. \A op \in Sync!Passwordless : Reads(op)
  <2>1. /\ Reads(Sync!create_session) /\ Reads(Sync!send_session)
    BY DEF PasswordlessReading, Sync!WithoutOptions, Sync!create_session,
           Sync!send_session
  <2> HIDE DEF Reads
  <2> QED BY <2>1, Zenon DEF Sync!Passwordless
<1>9. \A op \in Sync!AdminPortal : Reads(op)
  <2>1. /\ Reads(Sync!generate_link)
    BY DEF Sync!generate_link
  <2> HIDE DEF Reads
  <2> QED BY <2>1, Zenon DEF Sync!AdminPortal
<1>10. \A op \in Sync!ApiKeys : Reads(op)
  <2>1. /\ Reads(Sync!list_organization_api_keys)
        /\ Reads(Sync!create_organization_api_key) /\ Reads(Sync!create_validation)
        /\ Reads(Sync!delete_api_key) /\ Reads(Sync!create_api_key_expire)
    BY DEF OrganizationsReading, ApiKeysReading, Sync!Page,
           Sync!list_organization_api_keys, Sync!create_organization_api_key,
           Sync!create_validation, Sync!delete_api_key, Sync!create_api_key_expire
  <2> HIDE DEF Reads
  <2> QED BY <2>1, Zenon DEF Sync!ApiKeys
<1>11. \A op \in Sync!AuditLogs : Reads(op)
  <2>1. /\ Reads(Sync!get_organization_audit_logs_retention)
        /\ Reads(Sync!update_organization_audit_logs_retention)
        /\ Reads(Sync!list_actions) /\ Reads(Sync!list_action_schemas)
    BY DEF OrganizationsReading, AuditLogsReading, Sync!Page,
           Sync!get_organization_audit_logs_retention,
           Sync!update_organization_audit_logs_retention, Sync!list_actions,
           Sync!list_action_schemas
  <2>2. /\ Reads(Sync!create_schema) /\ Reads(Sync!create_event)
        /\ Reads(Sync!create_export) /\ Reads(Sync!get_export)
    BY DEF AuditLogsReading, Sync!Keyed, Sync!create_schema, Sync!create_event,
           Sync!create_export, Sync!get_export
  <2> HIDE DEF Reads
  <2> QED BY <2>1, <2>2, Zenon DEF Sync!AuditLogs
<1>12. \A op \in Sync!Authorization : Reads(op)
  <2>1. /\ Reads(Sync!list_group_role_assignments)
        /\ Reads(Sync!create_group_role_assignment)
        /\ Reads(Sync!update_group_role_assignments)
        /\ Reads(Sync!delete_group_role_assignments)
    BY DEF AuthorizationReading, Sync!Page, Sync!list_group_role_assignments,
           Sync!create_group_role_assignment, Sync!update_group_role_assignments,
           Sync!delete_group_role_assignments
  <2>2. /\ Reads(Sync!get_group_role_assignment)
        /\ Reads(Sync!delete_group_role_assignment) /\ Reads(Sync!check)
        /\ Reads(Sync!list_resources_for_membership)
    BY DEF AuthorizationReading, Sync!Page, Sync!get_group_role_assignment,
           Sync!delete_group_role_assignment, Sync!check,
           Sync!list_resources_for_membership
  <2>3. /\ Reads(Sync!list_effective_permissions)
        /\ Reads(Sync!list_effective_permissions_by_external_id)
        /\ Reads(Sync!list_role_assignments) /\ Reads(Sync!assign_role)
    BY DEF AuthorizationReading, Sync!Page, Sync!list_effective_permissions,
           Sync!list_effective_permissions_by_external_id, Sync!list_role_assignments,
           Sync!assign_role
  <2>4. /\ Reads(Sync!remove_role) /\ Reads(Sync!remove_role_assignment)
        /\ Reads(Sync!list_organization_roles) /\ Reads(Sync!create_organization_role)
    BY DEF AuthorizationReading, Sync!remove_role, Sync!remove_role_assignment,
           Sync!list_organization_roles, Sync!create_organization_role
  <2>5. /\ Reads(Sync!get_organization_role) /\ Reads(Sync!update_organization_role)
        /\ Reads(Sync!delete_organization_role)
        /\ Reads(Sync!add_organization_role_permission)
    BY DEF AuthorizationReading, Sync!get_organization_role,
           Sync!update_organization_role, Sync!delete_organization_role,
           Sync!add_organization_role_permission
  <2>6. /\ Reads(Sync!set_organization_role_permissions)
        /\ Reads(Sync!remove_organization_role_permission)
        /\ Reads(Sync!get_resource_by_external_id)
        /\ Reads(Sync!update_resource_by_external_id)
    BY DEF AuthorizationReading, Sync!set_organization_role_permissions,
           Sync!remove_organization_role_permission, Sync!get_resource_by_external_id,
           Sync!update_resource_by_external_id
  <2>7. /\ Reads(Sync!delete_resource_by_external_id)
        /\ Reads(Sync!list_memberships_for_resource_by_external_id)
        /\ Reads(Sync!list_role_assignments_for_resource_by_external_id)
        /\ Reads(Sync!list_resources)
    BY DEF AuthorizationReading, Sync!Page, Sync!delete_resource_by_external_id,
           Sync!list_memberships_for_resource_by_external_id,
           Sync!list_role_assignments_for_resource_by_external_id, Sync!list_resources
  <2>8. /\ Reads(Sync!create_resource) /\ Reads(Sync!get_resource)
        /\ Reads(Sync!update_resource) /\ Reads(Sync!delete_resource)
    BY DEF AuthorizationReading, Sync!create_resource, Sync!get_resource,
           Sync!update_resource, Sync!delete_resource
  <2>9. /\ Reads(Sync!list_memberships_for_resource)
        /\ Reads(Sync!list_role_assignments_for_resource)
        /\ Reads(Sync!list_environment_roles) /\ Reads(Sync!create_environment_role)
    BY DEF AuthorizationReading, Sync!Page, Sync!list_memberships_for_resource,
           Sync!list_role_assignments_for_resource, Sync!list_environment_roles,
           Sync!create_environment_role
  <2>10. /\ Reads(Sync!get_environment_role) /\ Reads(Sync!update_environment_role)
         /\ Reads(Sync!add_environment_role_permission)
         /\ Reads(Sync!set_environment_role_permissions)
    BY DEF AuthorizationReading, Sync!get_environment_role,
           Sync!update_environment_role, Sync!add_environment_role_permission,
           Sync!set_environment_role_permissions
  <2>11. /\ Reads(Sync!list_permissions) /\ Reads(Sync!create_permission)
         /\ Reads(Sync!get_permission) /\ Reads(Sync!update_permission)
    BY DEF AuthorizationReading, Sync!Page, Sync!list_permissions,
           Sync!create_permission, Sync!get_permission, Sync!update_permission
  <2>12. /\ Reads(Sync!delete_permission)
    BY DEF AuthorizationReading, Sync!delete_permission
  <2> HIDE DEF Reads
  <2> QED
    BY <2>1, <2>2, <2>3, <2>4, <2>5, <2>6, <2>7, <2>8, <2>9, <2>10, <2>11, <2>12, Zenon
       DEF Sync!Authorization
<1>13. \A op \in Sync!Connect : Reads(op)
  <2>1. /\ Reads(Sync!complete_oauth2) /\ Reads(Sync!list_applications)
        /\ Reads(Sync!create_application) /\ Reads(Sync!create_oauth_application)
        /\ Reads(Sync!create_m2m_application) /\ Reads(Sync!get_application)
    BY DEF ConnectReading, Sync!Page, Sync!complete_oauth2, Sync!list_applications,
           Sync!create_application, Sync!create_oauth_application,
           Sync!create_m2m_application, Sync!get_application
  <2>2. /\ Reads(Sync!update_application) /\ Reads(Sync!delete_application)
        /\ Reads(Sync!list_application_client_secrets)
        /\ Reads(Sync!create_application_client_secret)
        /\ Reads(Sync!delete_client_secret)
    BY DEF ConnectReading, Sync!List, Sync!update_application, Sync!delete_application,
           Sync!list_application_client_secrets, Sync!create_application_client_secret,
           Sync!delete_client_secret
  <2> HIDE DEF Reads
  <2> QED BY <2>1, <2>2, Zenon DEF Sync!Connect
<1>14. \A op \in Sync!DirectorySync : Reads(op)
  <2>1. /\ Reads(Sync!list_directories) /\ Reads(Sync!get_directory)
        /\ Reads(Sync!delete_directory) /\ Reads(Sync!list_groups)
    BY DEF DirectoriesReading, DirectoryGroupsReading, Sync!Page, Sync!list_directories,
           Sync!get_directory, Sync!delete_directory, Sync!list_groups
  <2>2. /\ Reads(Sync!get_group) /\ Reads(Sync!directory_sync_list_users)
        /\ Reads(Sync!directory_sync_get_user)
    BY DEF DirectoryGroupsReading, DirectoryUsersReading, Sync!Page, Sync!get_group,
           Sync!directory_sync_list_users, Sync!directory_sync_get_user
  <2> HIDE DEF Reads
  <2> QED BY <2>1, <2>2, Zenon DEF Sync!DirectorySync
<1>15. \A op \in Sync!Events : Reads(op)
  <2>1. /\ Reads(Sync!list_events)
    BY DEF Sync!Page, Sync!list_events
  <2> HIDE DEF Reads
  <2> QED BY <2>1, Zenon DEF Sync!Events
<1>16. \A op \in Sync!FeatureFlags : Reads(op)
  <2>1. /\ Reads(Sync!list_feature_flags) /\ Reads(Sync!get_feature_flag)
        /\ Reads(Sync!disable_feature_flag) /\ Reads(Sync!enable_feature_flag)
    BY DEF FeatureFlagsReading, Sync!Page, Sync!list_feature_flags,
           Sync!get_feature_flag, Sync!disable_feature_flag, Sync!enable_feature_flag
  <2>2. /\ Reads(Sync!add_flag_target) /\ Reads(Sync!remove_flag_target)
        /\ Reads(Sync!list_organization_feature_flags)
        /\ Reads(Sync!list_user_feature_flags)
    BY DEF FeatureFlagsReading, OrganizationsReading, UserManagementReading,
           UsersReading, Sync!Page, Sync!add_flag_target, Sync!remove_flag_target,
           Sync!list_organization_feature_flags, Sync!list_user_feature_flags
  <2> HIDE DEF Reads
  <2> QED BY <2>1, <2>2, Zenon DEF Sync!FeatureFlags
<1>17. \A op \in Sync!Groups : Reads(op)
  <2>1. /\ Reads(Sync!list_organization_groups) /\ Reads(Sync!create_organization_group)
        /\ Reads(Sync!get_organization_group) /\ Reads(Sync!update_organization_group)
    BY DEF OrganizationsReading, Sync!Page, Sync!list_organization_groups,
           Sync!create_organization_group, Sync!get_organization_group,
           Sync!update_organization_group
  <2>2. /\ Reads(Sync!delete_organization_group)
        /\ Reads(Sync!list_group_organization_memberships)
        /\ Reads(Sync!create_group_organization_membership)
        /\ Reads(Sync!delete_group_organization_membership)
    BY DEF OrganizationsReading, Sync!Page, Sync!delete_organization_group,
           Sync!list_group_organization_memberships,
           Sync!create_group_organization_membership,
           Sync!delete_group_organization_membership
  <2> HIDE DEF Reads
  <2> QED BY <2>1, <2>2, Zenon DEF Sync!Groups
<1>18. \A op \in Sync!OrganizationDomains : Reads(op)
  <2>1. /\ Reads(Sync!create_organization_domain) /\ Reads(Sync!get_organization_domain)
        /\ Reads(Sync!delete_organization_domain)
        /\ Reads(Sync!verify_organization_domain)
    BY DEF OrganizationDomainsReading, Sync!create_organization_domain,
           Sync!get_organization_domain, Sync!delete_organization_domain,
           Sync!verify_organization_domain
  <2> HIDE DEF Reads
  <2> QED BY <2>1, Zenon DEF Sync!OrganizationDomains
<1>19. \A op \in Sync!Organizations : Reads(op)
  <2>1. /\ Reads(Sync!list_organizations) /\ Reads(Sync!create_organization)
        /\ Reads(Sync!get_organization_by_external_id) /\ Reads(Sync!get_organization)
    BY DEF OrganizationsReading, Sync!Page, Sync!list_organizations,
           Sync!create_organization, Sync!get_organization_by_external_id,
           Sync!get_organization
  <2>2. /\ Reads(Sync!update_organization) /\ Reads(Sync!delete_organization)
        /\ Reads(Sync!get_audit_log_configuration)
    BY DEF OrganizationsReading, Sync!update_organization, Sync!delete_organization,
           Sync!get_audit_log_configuration
  <2> HIDE DEF Reads
  <2> QED BY <2>1, <2>2, Zenon DEF Sync!Organizations
<1>20. \A op \in Sync!Pipes : Reads(op)
  <2>1. /\ Reads(Sync!list_data_integrations) /\ Reads(Sync!create_data_integration)
        /\ Reads(Sync!get_data_integration) /\ Reads(Sync!update_data_integration)
        /\ Reads(Sync!delete_data_integration)
    BY DEF DataIntegrationsReading, Sync!Page, Sync!list_data_integrations,
           Sync!create_data_integration, Sync!get_data_integration,
           Sync!update_data_integration, Sync!delete_data_integration
  <2>2. /\ Reads(Sync!update_data_integration_api_key)
        /\ Reads(Sync!authorize_data_integration)
        /\ Reads(Sync!create_data_integration_credential)
        /\ Reads(Sync!get_access_token) /\ Reads(Sync!get_user_connected_account)
    BY DEF DataIntegrationsReading, UserManagementReading, UsersReading,
           Sync!update_data_integration_api_key, Sync!authorize_data_integration,
           Sync!create_data_integration_credential, Sync!get_access_token,
           Sync!get_user_connected_account
  <2>3. /\ Reads(Sync!create_user_connected_account)
        /\ Reads(Sync!update_user_connected_account)
        /\ Reads(Sync!delete_user_connected_account)
        /\ Reads(Sync!list_user_data_providers)
    BY DEF UserManagementReading, UsersReading, Sync!create_user_connected_account,
           Sync!update_user_connected_account, Sync!delete_user_connected_account,
           Sync!list_user_data_providers
  <2> HIDE DEF Reads
  <2> QED BY <2>1, <2>2, <2>3, Zenon DEF Sync!Pipes
<1>21. \A op \in Sync!PipesProvider : Reads(op)
  <2>1. /\ Reads(Sync!list_organization_data_integration_configurations)
        /\ Reads(Sync!update_organization_data_integration_configuration)
    BY DEF OrganizationsReading, Sync!list_organization_data_integration_configurations,
           Sync!update_organization_data_integration_configuration
  <2> HIDE DEF Reads
  <2> QED BY <2>1, Zenon DEF Sync!PipesProvider
<1>22. \A op \in Sync!Vault : Reads(op)
  <2>1. /\ Reads(Sync!create_data_key) /\ Reads(Sync!create_decrypt)
        /\ Reads(Sync!create_rekey) /\ Reads(Sync!list_kv) /\ Reads(Sync!create_kv)
        /\ Reads(Sync!get_name)
    BY DEF VaultReading, Sync!Page, Sync!create_data_key, Sync!create_decrypt,
           Sync!create_rekey, Sync!list_kv, Sync!create_kv, Sync!get_name
  <2>2. /\ Reads(Sync!get_kv) /\ Reads(Sync!update_kv) /\ Reads(Sync!delete_kv)
        /\ Reads(Sync!list_kv_metadata) /\ Reads(Sync!list_kv_versions)
    BY DEF VaultReading, Sync!get_kv, Sync!update_kv, Sync!delete_kv,
           Sync!list_kv_metadata, Sync!list_kv_versions
  <2> HIDE DEF Reads
  <2> QED BY <2>1, <2>2, Zenon DEF Sync!Vault
<1>23. \A op \in Sync!Webhooks : Reads(op)
  <2>1. /\ Reads(Sync!list_webhook_endpoints) /\ Reads(Sync!create_webhook_endpoint)
        /\ Reads(Sync!update_webhook_endpoint) /\ Reads(Sync!delete_webhook_endpoint)
    BY DEF WebhookEndpointsReading, Sync!Page, Sync!list_webhook_endpoints,
           Sync!create_webhook_endpoint, Sync!update_webhook_endpoint,
           Sync!delete_webhook_endpoint
  <2> HIDE DEF Reads
  <2> QED BY <2>1, Zenon DEF Sync!Webhooks
<1> HIDE DEF Reads
<1> QED
  BY <1>1, <1>2, <1>3, <1>4, <1>5, <1>6, <1>7, <1>8, <1>9, <1>10, <1>11, <1>12, <1>13,
     <1>14, <1>15, <1>16, <1>17, <1>18, <1>19, <1>20, <1>21, <1>22, <1>23, Zenon
     DEF Sync!Operations, Sync!UserOperations

\* No two methods share a request and read its answer differently: there is one
\* reader for all of them.
THEOREM OneReader == Spec => []AnswersUnambiguous
<1>1. CatalogueSent => AnswersUnambiguous
  <2> SUFFICES ASSUME CatalogueSent, sent # None, sent.operation.via # "build_url",
                      NEW op \in OperationsOf[client.flavour], op.via # "build_url",
                      op.path = sent.operation.path, Upper[op.method] = sent.method
               PROVE  op.model = sent.operation.model /\ op.via = sent.operation.via
    BY DEF AnswersUnambiguous
  <2>1. Reads(op) /\ Reads(sent.operation)
    BY OneCatalogue, AnswersRead DEF CatalogueSent
  <2>2. <<op.model, op.via>> = <<sent.operation.model, sent.operation.via>>
    BY <2>1 DEF Reads, CatalogueSent
  <2> QED BY <2>2
<1> QED BY <1>1, CatalogueKept, PTL
=============================================================================
