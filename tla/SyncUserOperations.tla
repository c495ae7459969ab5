------------------------- MODULE SyncUserOperations -------------------------
(***************************************************************************)
(* The operations of those resources of WorkClient that deal with users and *)
(* their sessions; see SyncOperations.                                      *)
(***************************************************************************)
EXTENDS Operation

\* client_api/_resource.py
client_api_create_token ==
  Request("create_token", "post", <<"client", "token">>, {"organization_id", "user_id"},
    {}, "ClientApiTokenResponse")
ClientApi == {client_api_create_token}

\* multi_factor_auth/_resource.py
verify_challenge ==
  Request("verify_challenge", "post", <<"auth", "challenges", Id, "verify">>, {"code"},
    {}, "AuthenticationChallengeVerifyResponse")
enroll_factor ==
  Request("enroll_factor", "post", <<"auth", "factors", "enroll">>, {"type"},
    {"phone_number", "totp_issuer", "totp_user", "user_id"},
    "AuthenticationFactorEnrolled")
get_factor ==
  Request("get_factor", "get", <<"auth", "factors", Id>>, {}, {}, "AuthenticationFactor")
delete_factor ==
  Request("delete_factor", "delete", <<"auth", "factors", Id>>, {}, {}, NoModel)
challenge_factor ==
  Request("challenge_factor", "post", <<"auth", "factors", Id, "challenge">>, {},
    {"sms_template"}, "AuthenticationChallenge")
list_user_auth_factors ==
  Page("list_user_auth_factors", <<"user_management", "users", Id, "auth_factors">>, {},
    Cursors, "AuthenticationFactor")
create_user_auth_factor ==
  Request("create_user_auth_factor", "post",
    <<"user_management", "users", Id, "auth_factors">>, {"type"},
    {"totp_issuer", "totp_user", "totp_secret"}, "UserAuthenticationFactorEnrollResponse")
MultiFactorAuth == {verify_challenge, enroll_factor, get_factor, delete_factor,
  challenge_factor, list_user_auth_factors, create_user_auth_factor}

\* organization_membership/_resource.py
list_organization_memberships ==
  Page("list_organization_memberships", <<"user_management", "organization_memberships">>,
    {}, Cursors \cup {"organization_id", "statuses", "user_id"},
    "UserOrganizationMembership")
create_organization_membership ==
  Request("create_organization_membership", "post",
    <<"user_management", "organization_memberships">>, {"user_id", "organization_id"},
    {"role_slug", "role_slugs"}, "OrganizationMembership")
get_organization_membership ==
  Request("get_organization_membership", "get",
    <<"user_management", "organization_memberships", Id>>, {}, {},
    "UserOrganizationMembership")
update_organization_membership ==
  Request("update_organization_membership", "put",
    <<"user_management", "organization_memberships", Id>>, {},
    {"role_slug", "role_slugs"}, "UserOrganizationMembership")
delete_organization_membership ==
  Request("delete_organization_membership", "delete",
    <<"user_management", "organization_memberships", Id>>, {}, {}, NoModel)
deactivate_organization_membership ==
  Request("deactivate_organization_membership", "put",
    <<"user_management", "organization_memberships", Id, "deactivate">>, {}, {},
    "OrganizationMembership")
reactivate_organization_membership ==
  Request("reactivate_organization_membership", "put",
    <<"user_management", "organization_memberships", Id, "reactivate">>, {}, {},
    "UserOrganizationMembership")
list_organization_membership_groups ==
  Page("list_organization_membership_groups",
    <<"user_management", "organization_memberships", Id, "groups">>, {}, Cursors, "Group")
OrganizationMembershipService == {list_organization_memberships,
  create_organization_membership, get_organization_membership,
  update_organization_membership, delete_organization_membership,
  deactivate_organization_membership, reactivate_organization_membership,
  list_organization_membership_groups}

\* radar/_resource.py
create_attempt ==
  Request("create_attempt", "post", <<"radar", "attempts">>, {"ip_address", "user_agent",
    "email", "auth_method", "action"}, {"signals_id"}, "RadarStandaloneResponse")
update_attempt ==
  Request("update_attempt", "put", <<"radar", "attempts", Id>>, {},
    {"challenge_status", "attempt_status"}, NoModel)
add_list_entry ==
  Request("add_list_entry", "post", <<"radar", "lists", Id, Id>>, {"entry"}, {},
    "RadarListEntryAlreadyPresentResponse")
remove_list_entry ==
  Request("remove_list_entry", "delete", <<"radar", "lists", Id, Id>>, {"entry"}, {},
    NoModel)
Radar == {create_attempt, update_attempt, add_list_entry, remove_list_entry}

\* sso/_resource.py
list_connections ==
  Page("list_connections", <<"connections">>, {}, Cursors \cup
    {"connection_type", "domain", "organization_id", "search"}, "Connection")
get_connection ==
  Request("get_connection", "get", <<"connections", Id>>, {}, {}, "Connection")
delete_connection ==
  Request("delete_connection", "delete", <<"connections", Id>>, {}, {}, NoModel)
sso_get_authorization_url ==
  Identified("configured id", Url("get_authorization_url", <<"sso", "authorize">>,
    {"redirect_uri", "response_type"}, {"provider_scopes", "provider_query_params",
    "domain", "provider", "state", "connection", "organization", "domain_hint",
    "login_hint", "nonce"}))
sso_get_logout_url == Url("get_logout_url", <<"sso", "logout">>, {"token"}, {})
authorize_logout ==
  Request("authorize_logout", "post", <<"sso", "logout", "authorize">>, {"profile_id"},
    {}, "SSOLogoutAuthorizeResponse")
get_profile ==
  ByToken(Request("get_profile", "get", <<"sso", "profile">>, {}, {}, "Profile"))
get_profile_and_token ==
  Identified("configured id and secret", Request("get_profile_and_token", "post",
    <<"sso", "token">>, {"code", "grant_type"}, {}, "SSOTokenResponse"))
sso_get_authorization_url_with_pkce ==
  WithoutOptions(Identified("own id", Url("get_authorization_url_with_pkce",
    <<"sso", "authorize">>, {"redirect_uri", "response_type", "code_challenge",
    "code_challenge_method", "state"}, {"connection", "organization", "provider",
    "domain_hint", "login_hint", "provider_scopes", "provider_query_params"})))
get_profile_and_token_pkce ==
  Identified("own id and secret if any", Request("get_profile_and_token_pkce", "post",
    <<"sso", "token">>, {"code", "grant_type", "code_verifier"}, {}, "SSOTokenResponse"))
SSO == {list_connections, get_connection, delete_connection, sso_get_authorization_url,
  sso_get_logout_url, authorize_logout, get_profile, get_profile_and_token,
  sso_get_authorization_url_with_pkce, get_profile_and_token_pkce}

\* user_management/_resource.py
get_jwks == Request("get_jwks", "get", <<"sso", "jwks", Id>>, {}, {}, "JwksResponse")
create_authenticate ==
  Request("create_authenticate", "post", <<"user_management", "authenticate">>, {},
    AnyFields, "AuthenticateResponse")
authenticate_with_password ==
  Identified("configured id and secret", Request("authenticate_with_password", "POST",
    <<"user_management", "authenticate">>, {"grant_type", "email", "password"}, Device
    \cup {"invitation_token", "signals_id", "radar_auth_attempt_id"},
    "AuthenticateResponse"))
authenticate_with_code ==
  Identified("configured id and secret", Request("authenticate_with_code", "POST",
    <<"user_management", "authenticate">>, {"grant_type", "code"}, Device \cup
    {"code_verifier", "invitation_token", "signals_id"}, "AuthenticateResponse"))
authenticate_with_refresh_token ==
  Identified("configured id and secret", Request("authenticate_with_refresh_token",
    "POST", <<"user_management", "authenticate">>, {"grant_type", "refresh_token"}, Device
    \cup {"organization_id"}, "AuthenticateResponse"))
authenticate_with_magic_auth ==
  Identified("configured id and secret", Request("authenticate_with_magic_auth", "POST",
    <<"user_management", "authenticate">>, {"grant_type", "code", "email"}, Device \cup
    {"invitation_token", "radar_auth_attempt_id"}, "AuthenticateResponse"))
authenticate_with_email_verification ==
  Identified("configured id and secret", Request("authenticate_with_email_verification",
    "POST", <<"user_management", "authenticate">>,
    {"grant_type", "code", "pending_authentication_token"}, Device,
    "AuthenticateResponse"))
authenticate_with_totp ==
  Identified("configured id and secret", Request("authenticate_with_totp", "POST",
    <<"user_management", "authenticate">>, {"grant_type", "code",
    "pending_authentication_token", "authentication_challenge_id"}, Device,
    "AuthenticateResponse"))
authenticate_with_organization_selection ==
  Identified("configured id and secret",
    Request("authenticate_with_organization_selection", "POST",
    <<"user_management", "authenticate">>, {"grant_type", "pending_authentication_token",
    "organization_id"}, Device, "AuthenticateResponse"))
authenticate_with_device_code ==
  Identified("configured id", Request("authenticate_with_device_code", "POST",
    <<"user_management", "authenticate">>, {"grant_type", "device_code"}, Device,
    "AuthenticateResponse"))
authenticate_with_radar_email_challenge ==
  Identified("configured id and secret",
    Request("authenticate_with_radar_email_challenge", "POST",
    <<"user_management", "authenticate">>, {"grant_type", "code", "radar_challenge_id",
    "pending_authentication_token"}, Device, "AuthenticateResponse"))
authenticate_with_radar_sms_challenge ==
  Identified("configured id and secret", Request("authenticate_with_radar_sms_challenge",
    "POST", <<"user_management", "authenticate">>, {"grant_type", "code",
    "verification_id", "phone_number", "pending_authentication_token"}, Device,
    "AuthenticateResponse"))
user_management_get_authorization_url ==
  Identified("configured id", Url("get_authorization_url",
    <<"user_management", "authorize">>, {"redirect_uri", "response_type"},
    {"code_challenge_method", "code_challenge", "domain_hint", "connection_id",
    "provider_query_params", "provider_scopes", "invitation_token", "max_age",
    "screen_hint", "login_hint", "provider", "prompt", "state", "organization_id"}))
create_device ==
  Request("create_device", "post", <<"user_management", "authorize", "device">>,
    {"client_id"}, {}, "DeviceAuthorizationResponse")
create_radar_challenge ==
  Request("create_radar_challenge", "post", <<"user_management", "radar_challenges">>,
    {"user_id", "pending_authentication_token", "phone_number"},
    {"ip_address", "user_agent"}, "SendRadarSmsChallengeResponse")
user_management_get_logout_url ==
  Url("get_logout_url", <<"user_management", "sessions", "logout">>, {"session_id"},
    {"return_to"})
revoke_session ==
  Request("revoke_session", "post", <<"user_management", "sessions", "revoke">>,
    {"session_id"}, {}, NoModel)
list_cors_origins ==
  Page("list_cors_origins", <<"user_management", "cors_origins">>, {}, Cursors,
    "CORSOriginResponse")
create_cors_origin ==
  Request("create_cors_origin", "post", <<"user_management", "cors_origins">>, {"origin"},
    {}, "CORSOriginResponse")
get_email_verification ==
  Request("get_email_verification", "get",
    <<"user_management", "email_verification", Id>>, {}, {}, "EmailVerification")
reset_password ==
  Request("reset_password", "post", <<"user_management", "password_reset">>, {"email"},
    {}, "PasswordReset")
confirm_password_reset ==
  Request("confirm_password_reset", "post",
    <<"user_management", "password_reset", "confirm">>, {"token", "new_password"}, {},
    "ResetPasswordResponse")
get_password_reset ==
  Request("get_password_reset", "get", <<"user_management", "password_reset", Id>>, {},
    {}, "PasswordReset")
user_management_list_users ==
  Page("list_users", <<"user_management", "users">>, {}, Cursors \cup
    {"organization", "organization_id", "email"}, "User")
create_user ==
  Request("create_user", "post", <<"user_management", "users">>, {"email"}, {"first_name",
    "last_name", "name", "email_verified", "metadata", "external_id", "ip_address",
    "user_agent", "signals_id", "password", "password_hash", "password_hash_type"},
    "UserCreateResponse")
get_user_by_external_id ==
  Request("get_user_by_external_id", "get",
    <<"user_management", "users", "external_id", Id>>, {}, {}, "User")
user_management_get_user ==
  Request("get_user", "get", <<"user_management", "users", Id>>, {}, {}, "User")
update_user ==
  Request("update_user", "put", <<"user_management", "users", Id>>, {}, {"email",
    "first_name", "last_name", "name", "email_verified", "metadata", "external_id",
    "locale", "password", "password_hash", "password_hash_type"}, "User")
delete_user ==
  Request("delete_user", "delete", <<"user_management", "users", Id>>, {}, {}, NoModel)
confirm_email_change ==
  Request("confirm_email_change", "post",
    <<"user_management", "users", Id, "email_change", "confirm">>, {"code"}, {},
    "EmailChangeConfirmation")
send_email_change ==
  Request("send_email_change", "post",
    <<"user_management", "users", Id, "email_change", "send">>, {"new_email"}, {},
    "EmailChange")
verify_email ==
  Request("verify_email", "post",
    <<"user_management", "users", Id, "email_verification", "confirm">>, {"code"}, {},
    "VerifyEmailResponse")
send_verification_email ==
  Request("send_verification_email", "post",
    <<"user_management", "users", Id, "email_verification", "send">>, {}, {},
    "SendVerificationEmailResponse")
get_user_identities ==
  List("get_user_identities", <<"user_management", "users", Id, "identities">>, {}, {})
list_sessions ==
  Page("list_sessions", <<"user_management", "users", Id, "sessions">>, {}, Cursors,
    "UserSessionsListItem")
list_invitations ==
  Page("list_invitations", <<"user_management", "invitations">>, {}, Cursors \cup
    {"organization_id", "email"}, "UserInvite")
send_invitation ==
  Request("send_invitation", "post", <<"user_management", "invitations">>, {"email"},
    {"organization_id", "role_slug", "expires_in_days", "inviter_user_id", "locale"},
    "UserInvite")
find_invitation_by_token ==
  Request("find_invitation_by_token", "get",
    <<"user_management", "invitations", "by_token", Id>>, {}, {}, "UserInvite")
get_invitation ==
  Request("get_invitation", "get", <<"user_management", "invitations", Id>>, {}, {},
    "UserInvite")
accept_invitation ==
  Request("accept_invitation", "post", <<"user_management", "invitations", Id, "accept">>,
    {}, {}, "Invitation")
resend_invitation ==
  Request("resend_invitation", "post", <<"user_management", "invitations", Id, "resend">>,
    {}, {"locale"}, "UserInvite")
revoke_invitation ==
  Request("revoke_invitation", "post", <<"user_management", "invitations", Id, "revoke">>,
    {}, {}, "Invitation")
list_jwt_template ==
  Request("list_jwt_template", "get", <<"user_management", "jwt_template">>, {}, {},
    "JWTTemplateResponse")
update_jwt_template ==
  Request("update_jwt_template", "put", <<"user_management", "jwt_template">>,
    {"content"}, {}, "JWTTemplateResponse")
create_magic_auth ==
  Request("create_magic_auth", "post", <<"user_management", "magic_auth">>, {"email"},
    {"invitation_token", "ip_address", "user_agent", "radar_auth_attempt_id",
    "signals_id"}, "MagicAuthSendMagicAuthCodeAndReturnResponse")
get_magic_auth ==
  Request("get_magic_auth", "get", <<"user_management", "magic_auth", Id>>, {}, {},
    "MagicAuth")
list_redirect_uris ==
  Page("list_redirect_uris", <<"user_management", "redirect_uris">>, {}, Cursors,
    "RedirectUri")
create_redirect_uri ==
  Request("create_redirect_uri", "post", <<"user_management", "redirect_uris">>, {"uri"},
    {}, "RedirectUri")
list_user_authorized_applications ==
  Page("list_user_authorized_applications",
    <<"user_management", "users", Id, "authorized_applications">>, {}, Cursors,
    "AuthorizedConnectApplicationListData")
delete_user_authorized_application ==
  Request("delete_user_authorized_application", "delete",
    <<"user_management", "users", Id, "authorized_applications", Id>>, {}, {}, NoModel)
list_user_api_keys ==
  Page("list_user_api_keys", <<"user_management", "users", Id, "api_keys">>, {}, Cursors
    \cup {"organization_id"}, "UserApiKey")
create_user_api_key ==
  Request("create_user_api_key", "post", <<"user_management", "users", Id, "api_keys">>,
    {"name", "organization_id"}, {"permissions", "expires_at"}, "UserApiKeyWithValue")
get_jwks_url ==
  WithoutOptions(Identified("own id", Url("get_jwks_url", <<"sso", "jwks", Id>>, {}, {})))
user_management_get_authorization_url_with_pkce ==
  WithoutOptions(Identified("configured id, argument ignored",
    Url("get_authorization_url_with_pkce", <<"user_management", "authorize">>,
    {"redirect_uri", "code_challenge", "code_challenge_method", "state", "response_type"},
    {"provider", "connection_id", "organization_id", "domain_hint", "login_hint",
    "screen_hint", "prompt", "provider_scopes", "provider_query_params",
    "invitation_token"})))
authenticate_with_code_pkce ==
  Identified("own id or empty and secret if any", Request("authenticate_with_code_pkce",
    "POST", <<"user_management", "authenticate">>,
    {"grant_type", "code", "code_verifier"}, Device, "AuthenticateResponse"))
UserManagement == {get_jwks, create_authenticate, authenticate_with_password,
  authenticate_with_code, authenticate_with_refresh_token, authenticate_with_magic_auth,
  authenticate_with_email_verification, authenticate_with_totp,
  authenticate_with_organization_selection, authenticate_with_device_code,
  authenticate_with_radar_email_challenge, authenticate_with_radar_sms_challenge,
  user_management_get_authorization_url, create_device, create_radar_challenge,
  user_management_get_logout_url, revoke_session, list_cors_origins, create_cors_origin,
  get_email_verification, reset_password, confirm_password_reset, get_password_reset,
  user_management_list_users, create_user, get_user_by_external_id,
  user_management_get_user, update_user, delete_user, confirm_email_change,
  send_email_change, verify_email, send_verification_email, get_user_identities,
  list_sessions, list_invitations, send_invitation, find_invitation_by_token,
  get_invitation, accept_invitation, resend_invitation, revoke_invitation,
  list_jwt_template, update_jwt_template, create_magic_auth, get_magic_auth,
  list_redirect_uris, create_redirect_uri, list_user_authorized_applications,
  delete_user_authorized_application, list_user_api_keys, create_user_api_key, get_jwks_url,
  user_management_get_authorization_url_with_pkce, authenticate_with_code_pkce}

\* widgets/_resource.py
widgets_create_token ==
  Request("create_token", "post", <<"widgets", "token">>, {"organization_id"},
    {"user_id", "scopes"}, "WidgetSessionTokenResponse")
Widgets == {widgets_create_token}

\* passwordless.py
create_session ==
  WithoutOptions(Request("create_session", "post", <<"passwordless", "sessions">>,
    {"email", "type"}, {"redirect_uri", "state", "expires_in"}, "PasswordlessSession"))
send_session ==
  WithoutOptions(Request("send_session", "post",
    <<"passwordless", "sessions", Id, "send">>, {}, {}, NoModel))
Passwordless == {create_session, send_session}

\* The resources that deal with users and their sessions.
UserOperations ==
  UNION {ClientApi, MultiFactorAuth, OrganizationMembershipService, Radar, SSO,
    UserManagement, Widgets, Passwordless}
=============================================================================
