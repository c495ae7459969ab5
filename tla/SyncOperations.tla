--------------------------- MODULE SyncOperations ---------------------------
(***************************************************************************)
(* The operations of the resources of WorkClient: what each method sends,   *)
(* where to, and what it reads the answer as.  Definitions and operations   *)
(* keep the names of the methods.                                           *)
(***************************************************************************)
EXTENDS SyncUserOperations

\* admin_portal/_resource.py
generate_link ==
  Request("generate_link", "post", <<"portal", "generate_link">>, {"organization"},
    {"return_url", "success_url", "intent", "it_contact_emails"}, "PortalLinkResponse")
AdminPortal == {generate_link}

\* api_keys/_resource.py
list_organization_api_keys ==
  Page("list_organization_api_keys", <<"organizations", Id, "api_keys">>, {}, Cursors,
    "OrganizationApiKey")
create_organization_api_key ==
  Request("create_organization_api_key", "post", <<"organizations", Id, "api_keys">>,
    {"name"}, {"permissions", "expires_at"}, "OrganizationApiKeyWithValue")
create_validation ==
  Request("create_validation", "post", <<"api_keys", "validations">>, {"value"}, {},
    "ApiKeyValidationResponse")
delete_api_key == Request("delete_api_key", "delete", <<"api_keys", Id>>, {}, {}, NoModel)
create_api_key_expire ==
  Request("create_api_key_expire", "post", <<"api_keys", Id, "expire">>, {},
    {"expires_at"}, "ApiKey")
ApiKeys == {list_organization_api_keys, create_organization_api_key, create_validation,
  delete_api_key, create_api_key_expire}

\* audit_logs/_resource.py
get_organization_audit_logs_retention ==
  Request("get_organization_audit_logs_retention", "get",
    <<"organizations", Id, "audit_logs_retention">>, {}, {}, "AuditLogsRetention")
update_organization_audit_logs_retention ==
  Request("update_organization_audit_logs_retention", "put",
    <<"organizations", Id, "audit_logs_retention">>, {"retention_period_in_days"}, {},
    "AuditLogsRetention")
list_actions ==
  Page("list_actions", <<"audit_logs", "actions">>, {}, Cursors, "AuditLogAction")
list_action_schemas ==
  Page("list_action_schemas", <<"audit_logs", "actions", Id, "schemas">>, {}, Cursors,
    "AuditLogSchema")
create_schema ==
  Request("create_schema", "post", <<"audit_logs", "actions", Id, "schemas">>,
    {"targets"}, {"actor", "metadata"}, "AuditLogSchema")
create_event ==
  Keyed(Request("create_event", "post", <<"audit_logs", "events">>,
    {"organization_id", "event"}, {}, "AuditLogEventCreateResponse"))
create_export ==
  Request("create_export", "post", <<"audit_logs", "exports">>,
    {"organization_id", "range_start", "range_end"},
    {"actions", "actors", "actor_names", "actor_ids", "targets"}, "AuditLogExport")
get_export ==
  Request("get_export", "get", <<"audit_logs", "exports", Id>>, {}, {}, "AuditLogExport")
AuditLogs == {get_organization_audit_logs_retention,
  update_organization_audit_logs_retention, list_actions, list_action_schemas,
  create_schema, create_event, create_export, get_export}

\* authorization/_resource.py
list_group_role_assignments ==
  Page("list_group_role_assignments",
    <<"authorization", "groups", Id, "role_assignments">>, {}, Cursors,
    "GroupRoleAssignment")
create_group_role_assignment ==
  Request("create_group_role_assignment", "post",
    <<"authorization", "groups", Id, "role_assignments">>, {"role_slug"}, {"resource_id",
    "resource_external_id", "resource_type_slug"}, "GroupRoleAssignment")
update_group_role_assignments ==
  Request("update_group_role_assignments", "put",
    <<"authorization", "groups", Id, "role_assignments">>, {"role_assignments"}, {},
    "GroupRoleAssignmentList")
delete_group_role_assignments ==
  Request("delete_group_role_assignments", "delete",
    <<"authorization", "groups", Id, "role_assignments">>, {"role_slug"}, {"resource_id",
    "resource_external_id", "resource_type_slug"}, NoModel)
get_group_role_assignment ==
  Request("get_group_role_assignment", "get",
    <<"authorization", "groups", Id, "role_assignments", Id>>, {}, {},
    "GroupRoleAssignment")
delete_group_role_assignment ==
  Request("delete_group_role_assignment", "delete",
    <<"authorization", "groups", Id, "role_assignments", Id>>, {}, {}, NoModel)
check ==
  Request("check", "post", <<"authorization", "organization_memberships", Id, "check">>,
    {"permission_slug"}, {"resource_id", "resource_external_id", "resource_type_slug"},
    "AuthorizationCheck")
list_resources_for_membership ==
  Page("list_resources_for_membership",
    <<"authorization", "organization_memberships", Id, "resources">>, {"permission_slug"},
    Cursors \cup {"parent_resource_id", "parent_resource_type_slug",
    "parent_resource_external_id"}, "AuthorizationResource")
list_effective_permissions ==
  Page("list_effective_permissions",
    <<"authorization", "organization_memberships", Id, "resources", Id, "permissions">>,
    {}, Cursors, "AuthorizationPermission")
list_effective_permissions_by_external_id ==
  Page("list_effective_permissions_by_external_id",
    <<"authorization", "organization_memberships", Id, "resources", Id, Id, "permissions">>,
    {}, Cursors, "AuthorizationPermission")
list_role_assignments ==
  Page("list_role_assignments",
    <<"authorization", "organization_memberships", Id, "role_assignments">>, {}, Cursors
    \cup {"resource_id", "resource_external_id", "resource_type_slug"},
    "UserRoleAssignment")
assign_role ==
  Request("assign_role", "post",
    <<"authorization", "organization_memberships", Id, "role_assignments">>,
    {"role_slug"}, {"resource_id", "resource_external_id", "resource_type_slug"},
    "UserRoleAssignment")
remove_role ==
  Request("remove_role", "delete",
    <<"authorization", "organization_memberships", Id, "role_assignments">>,
    {"role_slug"}, {"resource_id", "resource_external_id", "resource_type_slug"}, NoModel)
remove_role_assignment ==
  Request("remove_role_assignment", "delete",
    <<"authorization", "organization_memberships", Id, "role_assignments", Id>>, {}, {},
    NoModel)
list_organization_roles ==
  Request("list_organization_roles", "get",
    <<"authorization", "organizations", Id, "roles">>, {}, {}, "RoleList")
create_organization_role ==
  Request("create_organization_role", "post",
    <<"authorization", "organizations", Id, "roles">>, {"name"},
    {"slug", "description", "resource_type_slug"}, "Role")
get_organization_role ==
  Request("get_organization_role", "get",
    <<"authorization", "organizations", Id, "roles", Id>>, {}, {}, "Role")
update_organization_role ==
  Request("update_organization_role", "patch",
    <<"authorization", "organizations", Id, "roles", Id>>, {}, {"name", "description"},
    "Role")
delete_organization_role ==
  Request("delete_organization_role", "delete",
    <<"authorization", "organizations", Id, "roles", Id>>, {}, {}, NoModel)
add_organization_role_permission ==
  Request("add_organization_role_permission", "post",
    <<"authorization", "organizations", Id, "roles", Id, "permissions">>, {"slug"}, {},
    "Role")
set_organization_role_permissions ==
  Request("set_organization_role_permissions", "put",
    <<"authorization", "organizations", Id, "roles", Id, "permissions">>, {"permissions"},
    {}, "Role")
remove_organization_role_permission ==
  Request("remove_organization_role_permission", "delete",
    <<"authorization", "organizations", Id, "roles", Id, "permissions", Id>>, {}, {},
    NoModel)
get_resource_by_external_id ==
  Request("get_resource_by_external_id", "get",
    <<"authorization", "organizations", Id, "resources", Id, Id>>, {}, {},
    "AuthorizationResource")
update_resource_by_external_id ==
  Request("update_resource_by_external_id", "patch",
    <<"authorization", "organizations", Id, "resources", Id, Id>>, {}, {"name",
    "description", "parent_resource_id", "parent_resource_external_id",
    "parent_resource_type_slug"}, "AuthorizationResource")
delete_resource_by_external_id ==
  Request("delete_resource_by_external_id", "delete",
    <<"authorization", "organizations", Id, "resources", Id, Id>>, {}, {"cascade_delete"},
    NoModel)
list_memberships_for_resource_by_external_id ==
  Page("list_memberships_for_resource_by_external_id",
    <<"authorization", "organizations", Id, "resources", Id, Id, "organization_memberships">>,
    {"permission_slug"}, Cursors \cup {"assignment"},
    "UserOrganizationMembershipBaseListData")
list_role_assignments_for_resource_by_external_id ==
  Page("list_role_assignments_for_resource_by_external_id",
    <<"authorization", "organizations", Id, "resources", Id, Id, "role_assignments">>, {},
    Cursors \cup {"role_slug"}, "UserRoleAssignment")
list_resources ==
  Page("list_resources", <<"authorization", "resources">>, {}, Cursors \cup
    {"organization_id", "resource_type_slug", "resource_external_id",
    "parent_resource_id", "parent_resource_type_slug", "parent_external_id"},
    "AuthorizationResource")
create_resource ==
  Request("create_resource", "post", <<"authorization", "resources">>, {"external_id",
    "name", "resource_type_slug", "organization_id"}, {"description",
    "parent_resource_id", "parent_resource_external_id", "parent_resource_type_slug"},
    "AuthorizationResource")
get_resource ==
  Request("get_resource", "get", <<"authorization", "resources", Id>>, {}, {},
    "AuthorizationResource")
update_resource ==
  Request("update_resource", "patch", <<"authorization", "resources", Id>>, {}, {"name",
    "description", "parent_resource_id", "parent_resource_external_id",
    "parent_resource_type_slug"}, "AuthorizationResource")
delete_resource ==
  Request("delete_resource", "delete", <<"authorization", "resources", Id>>, {},
    {"cascade_delete"}, NoModel)
list_memberships_for_resource ==
  Page("list_memberships_for_resource",
    <<"authorization", "resources", Id, "organization_memberships">>, {"permission_slug"},
    Cursors \cup {"assignment"}, "UserOrganizationMembershipBaseListData")
list_role_assignments_for_resource ==
  Page("list_role_assignments_for_resource",
    <<"authorization", "resources", Id, "role_assignments">>, {}, Cursors \cup
    {"role_slug"}, "UserRoleAssignment")
list_environment_roles ==
  Request("list_environment_roles", "get", <<"authorization", "roles">>, {}, {},
    "RoleList")
create_environment_role ==
  Request("create_environment_role", "post", <<"authorization", "roles">>,
    {"slug", "name"}, {"description", "resource_type_slug"}, "Role")
get_environment_role ==
  Request("get_environment_role", "get", <<"authorization", "roles", Id>>, {}, {}, "Role")
update_environment_role ==
  Request("update_environment_role", "patch", <<"authorization", "roles", Id>>, {},
    {"name", "description"}, "Role")
add_environment_role_permission ==
  Request("add_environment_role_permission", "post",
    <<"authorization", "roles", Id, "permissions">>, {"slug"}, {}, "Role")
set_environment_role_permissions ==
  Request("set_environment_role_permissions", "put",
    <<"authorization", "roles", Id, "permissions">>, {"permissions"}, {}, "Role")
list_permissions ==
  Page("list_permissions", <<"authorization", "permissions">>, {}, Cursors,
    "AuthorizationPermission")
create_permission ==
  Request("create_permission", "post", <<"authorization", "permissions">>,
    {"slug", "name"}, {"description", "resource_type_slug"}, "Permission")
get_permission ==
  Request("get_permission", "get", <<"authorization", "permissions", Id>>, {}, {},
    "AuthorizationPermission")
update_permission ==
  Request("update_permission", "patch", <<"authorization", "permissions", Id>>, {},
    {"name", "description"}, "AuthorizationPermission")
delete_permission ==
  Request("delete_permission", "delete", <<"authorization", "permissions", Id>>, {}, {},
    NoModel)
Authorization == {list_group_role_assignments, create_group_role_assignment,
  update_group_role_assignments, delete_group_role_assignments, get_group_role_assignment,
  delete_group_role_assignment, check, list_resources_for_membership,
  list_effective_permissions, list_effective_permissions_by_external_id,
  list_role_assignments, assign_role, remove_role, remove_role_assignment,
  list_organization_roles, create_organization_role, get_organization_role,
  update_organization_role, delete_organization_role, add_organization_role_permission,
  set_organization_role_permissions, remove_organization_role_permission,
  get_resource_by_external_id, update_resource_by_external_id,
  delete_resource_by_external_id, list_memberships_for_resource_by_external_id,
  list_role_assignments_for_resource_by_external_id, list_resources, create_resource,
  get_resource, update_resource, delete_resource, list_memberships_for_resource,
  list_role_assignments_for_resource, list_environment_roles, create_environment_role,
  get_environment_role, update_environment_role, add_environment_role_permission,
  set_environment_role_permissions, list_permissions, create_permission, get_permission,
  update_permission, delete_permission}

\* connect/_resource.py
complete_oauth2 ==
  Request("complete_oauth2", "post", <<"authkit", "oauth2", "complete">>,
    {"external_auth_id", "user"}, {"user_consent_options"},
    "ExternalAuthCompleteResponse")
list_applications ==
  Page("list_applications", <<"connect", "applications">>, {}, Cursors \cup
    {"organization_id"}, "ConnectApplication")
create_application ==
  Request("create_application", "post", <<"connect", "applications">>, {}, AnyFields,
    "ConnectApplication")
create_oauth_application ==
  Request("create_oauth_application", "POST", <<"connect", "applications">>,
    {"application_type", "name", "is_first_party"}, {"description", "scopes",
    "redirect_uris", "uses_pkce", "organization_id"}, "ConnectApplication")
create_m2m_application ==
  Request("create_m2m_application", "POST", <<"connect", "applications">>,
    {"application_type", "name", "organization_id"}, {"description", "scopes"},
    "ConnectApplication")
get_application ==
  Request("get_application", "get", <<"connect", "applications", Id>>, {}, {},
    "ConnectApplication")
update_application ==
  Request("update_application", "put", <<"connect", "applications", Id>>, {},
    {"name", "description", "scopes", "redirect_uris"}, "ConnectApplication")
delete_application ==
  Request("delete_application", "delete", <<"connect", "applications", Id>>, {}, {},
    NoModel)
\* Variant: a word of the path is missing.
list_application_client_secretsShort ==
  List("list_application_client_secrets",
    <<"connect", "applications", Id>>, {}, {})
list_application_client_secrets ==
  List("list_application_client_secrets",
    <<"connect", "applications", Id, "client_secrets">>, {}, {})
create_application_client_secret ==
  Request("create_application_client_secret", "post",
    <<"connect", "applications", Id, "client_secrets">>, {}, {},
    "NewConnectApplicationSecret")
delete_client_secret ==
  Request("delete_client_secret", "delete", <<"connect", "client_secrets", Id>>, {}, {},
    NoModel)
Connect == {complete_oauth2, list_applications, create_application,
  create_oauth_application, create_m2m_application, get_application, update_application,
  delete_application, list_application_client_secrets, create_application_client_secret,
  delete_client_secret}

\* directory_sync/_resource.py
\* Variant: the cursors are missing.
list_directoriesUncut ==
  Page("list_directories", <<"directories">>, {}, {"organization_id", "search", "domain"}, "Directory")
list_directories ==
  Page("list_directories", <<"directories">>, {}, Cursors \cup
    {"organization_id", "search", "domain"}, "Directory")
get_directory == Request("get_directory", "get", <<"directories", Id>>, {}, {}, "Directory")
delete_directory ==
  Request("delete_directory", "delete", <<"directories", Id>>, {}, {}, NoModel)
list_groups ==
  Page("list_groups", <<"directory_groups">>, {}, Cursors \cup {"directory", "user"},
    "DirectoryGroup")
get_group ==
  Request("get_group", "get", <<"directory_groups", Id>>, {}, {}, "DirectoryGroup")
directory_sync_list_users ==
  Page("list_users", <<"directory_users">>, {}, Cursors \cup {"directory", "group"},
    "DirectoryUserWithGroups")
directory_sync_get_user ==
  Request("get_user", "get", <<"directory_users", Id>>, {}, {}, "DirectoryUserWithGroups")
DirectorySync == {list_directories, get_directory, delete_directory, list_groups, get_group,
  directory_sync_list_users, directory_sync_get_user}

\* events/_resource.py
list_events ==
  Page("list_events", <<"events">>, {}, Cursors \cup
    {"events", "range_start", "range_end", "organization_id"}, "EventSchema")
Events == {list_events}

\* feature_flags/_resource.py
list_feature_flags == Page("list_feature_flags", <<"feature-flags">>, {}, Cursors, "Flag")
get_feature_flag ==
  Request("get_feature_flag", "get", <<"feature-flags", Id>>, {}, {}, "Flag")
disable_feature_flag ==
  Request("disable_feature_flag", "put", <<"feature-flags", Id, "disable">>, {}, {},
    "FeatureFlag")
enable_feature_flag ==
  Request("enable_feature_flag", "put", <<"feature-flags", Id, "enable">>, {}, {},
    "FeatureFlag")
add_flag_target ==
  Request("add_flag_target", "post", <<"feature-flags", Id, "targets", Id>>, {}, {},
    NoModel)
remove_flag_target ==
  Request("remove_flag_target", "delete", <<"feature-flags", Id, "targets", Id>>, {}, {},
    NoModel)
list_organization_feature_flags ==
  Page("list_organization_feature_flags", <<"organizations", Id, "feature-flags">>, {},
    Cursors, "Flag")
list_user_feature_flags ==
  Page("list_user_feature_flags", <<"user_management", "users", Id, "feature-flags">>, {},
    Cursors, "Flag")
FeatureFlags == {list_feature_flags, get_feature_flag, disable_feature_flag,
  enable_feature_flag, add_flag_target, remove_flag_target, list_organization_feature_flags,
  list_user_feature_flags}

\* groups/_resource.py
list_organization_groups ==
  Page("list_organization_groups", <<"organizations", Id, "groups">>, {}, Cursors,
    "Group")
create_organization_group ==
  Request("create_organization_group", "post", <<"organizations", Id, "groups">>,
    {"name"}, {"description"}, "Group")
get_organization_group ==
  Request("get_organization_group", "get", <<"organizations", Id, "groups", Id>>, {}, {},
    "Group")
update_organization_group ==
  Request("update_organization_group", "patch", <<"organizations", Id, "groups", Id>>, {},
    {"name", "description"}, "Group")
delete_organization_group ==
  Request("delete_organization_group", "delete", <<"organizations", Id, "groups", Id>>,
    {}, {}, NoModel)
list_group_organization_memberships ==
  Page("list_group_organization_memberships",
    <<"organizations", Id, "groups", Id, "organization-memberships">>, {}, Cursors,
    "UserOrganizationMembershipBaseListData")
create_group_organization_membership ==
  Request("create_group_organization_membership", "post",
    <<"organizations", Id, "groups", Id, "organization-memberships">>,
    {"organization_membership_id"}, {}, "Group")
delete_group_organization_membership ==
  Request("delete_group_organization_membership", "delete",
    <<"organizations", Id, "groups", Id, "organization-memberships", Id>>, {}, {},
    NoModel)
Groups == {list_organization_groups, create_organization_group, get_organization_group,
  update_organization_group, delete_organization_group, list_group_organization_memberships,
  create_group_organization_membership, delete_group_organization_membership}

\* organization_domains/_resource.py
create_organization_domain ==
  Request("create_organization_domain", "post", <<"organization_domains">>,
    {"domain", "organization_id"}, {}, "OrganizationDomain")
get_organization_domain ==
  Request("get_organization_domain", "get", <<"organization_domains", Id>>, {}, {},
    "OrganizationDomainStandAlone")
delete_organization_domain ==
  Request("delete_organization_domain", "delete", <<"organization_domains", Id>>, {}, {},
    NoModel)
verify_organization_domain ==
  Request("verify_organization_domain", "post", <<"organization_domains", Id, "verify">>,
    {}, {}, "OrganizationDomainStandAlone")
OrganizationDomains == {create_organization_domain, get_organization_domain,
  delete_organization_domain, verify_organization_domain}

\* organizations/_resource.py
list_organizations ==
  Page("list_organizations", <<"organizations">>, {}, Cursors \cup {"domains", "search"},
    "Organization")
create_organization ==
  Request("create_organization", "post", <<"organizations">>, {"name"},
    {"allow_profiles_outside_organization", "domains", "domain_data", "metadata",
    "external_id"}, "Organization")
get_organization_by_external_id ==
  Request("get_organization_by_external_id", "get",
    <<"organizations", "external_id", Id>>, {}, {}, "Organization")
get_organization ==
  Request("get_organization", "get", <<"organizations", Id>>, {}, {}, "Organization")
update_organization ==
  Request("update_organization", "put", <<"organizations", Id>>, {}, {"name",
    "allow_profiles_outside_organization", "domains", "domain_data", "stripe_customer_id",
    "metadata", "external_id"}, "Organization")
delete_organization ==
  Request("delete_organization", "delete", <<"organizations", Id>>, {}, {}, NoModel)
get_audit_log_configuration ==
  Request("get_audit_log_configuration", "get",
    <<"organizations", Id, "audit_log_configuration">>, {}, {}, "AuditLogConfiguration")
Organizations == {list_organizations, create_organization, get_organization_by_external_id,
  get_organization, update_organization, delete_organization, get_audit_log_configuration}

\* pipes/_resource.py
list_data_integrations ==
  Page("list_data_integrations", <<"data-integrations">>, {}, Cursors, "DataIntegration")
create_data_integration ==
  Request("create_data_integration", "post", <<"data-integrations">>, {"provider"},
    {"description", "enabled", "scopes", "credentials", "custom_provider"},
    "DataIntegration")
get_data_integration ==
  Request("get_data_integration", "get", <<"data-integrations", Id>>, {}, {},
    "DataIntegration")
update_data_integration ==
  Request("update_data_integration", "put", <<"data-integrations", Id>>, {},
    {"description", "enabled", "scopes", "credentials", "custom_provider"},
    "DataIntegration")
delete_data_integration ==
  Request("delete_data_integration", "delete", <<"data-integrations", Id>>, {}, {},
    NoModel)
update_data_integration_api_key ==
  Request("update_data_integration_api_key", "put",
    <<"data-integrations", Id, "api-key">>, {"user_id", "secret"}, {"organization_id"},
    "ConnectedAccount")
authorize_data_integration ==
  Request("authorize_data_integration", "post", <<"data-integrations", Id, "authorize">>,
    {"user_id"}, {"organization_id", "return_to"}, "DataIntegrationAuthorizeUrlResponse")
create_data_integration_credential ==
  Request("create_data_integration_credential", "post",
    <<"data-integrations", Id, "credentials">>, {"user_id"}, {"organization_id"},
    "DataIntegrationCredentialsResponse")
get_access_token ==
  Request("get_access_token", "post", <<"data-integrations", Id, "token">>, {"user_id"},
    {"organization_id"}, "DataIntegrationAccessTokenResponse")
get_user_connected_account ==
  Request("get_user_connected_account", "get",
    <<"user_management", "users", Id, "connected_accounts", Id>>, {}, {"organization_id"},
    "ConnectedAccount")
create_user_connected_account ==
  Request("create_user_connected_account", "post",
    <<"user_management", "users", Id, "connected_accounts", Id>>, {}, {"access_token",
    "refresh_token", "expires_at", "scopes", "state", "organization_id"},
    "ConnectedAccount")
update_user_connected_account ==
  Request("update_user_connected_account", "put",
    <<"user_management", "users", Id, "connected_accounts", Id>>, {}, {"access_token",
    "refresh_token", "expires_at", "scopes", "state", "organization_id"},
    "ConnectedAccount")
delete_user_connected_account ==
  Request("delete_user_connected_account", "delete",
    <<"user_management", "users", Id, "connected_accounts", Id>>, {}, {"organization_id"},
    NoModel)
list_user_data_providers ==
  Request("list_user_data_providers", "get",
    <<"user_management", "users", Id, "data_providers">>, {}, {"organization_id"},
    "DataIntegrationsListResponse")
Pipes == {list_data_integrations, create_data_integration, get_data_integration,
  update_data_integration, delete_data_integration, update_data_integration_api_key,
  authorize_data_integration, create_data_integration_credential, get_access_token,
  get_user_connected_account, create_user_connected_account, update_user_connected_account,
  delete_user_connected_account, list_user_data_providers}

\* pipes_provider/_resource.py
list_organization_data_integration_configurations ==
  Request("list_organization_data_integration_configurations", "get",
    <<"organizations", Id, "data_integration_configurations">>, {}, {},
    "DataIntegrationConfigurationListResponse")
update_organization_data_integration_configuration ==
  Request("update_organization_data_integration_configuration", "put",
    <<"organizations", Id, "data_integration_configurations", Id>>, {},
    {"enabled", "scopes", "client_id", "client_secret"},
    "DataIntegrationConfigurationResponse")
PipesProvider == {list_organization_data_integration_configurations,
  update_organization_data_integration_configuration}

\* vault/_resource.py
create_data_key ==
  Request("create_data_key", "post", <<"vault", "v1", "keys", "data-key">>, {"context"},
    {}, "CreateDataKeyResponse")
create_decrypt ==
  Request("create_decrypt", "post", <<"vault", "v1", "keys", "decrypt">>, {"keys"}, {},
    "DecryptResponse")
create_rekey ==
  Request("create_rekey", "post", <<"vault", "v1", "keys", "rekey">>,
    {"context", "encrypted_keys"}, {}, "CreateDataKeyResponse")
list_kv ==
  Page("list_kv", <<"vault", "v1", "kv">>, {}, Cursors \cup {"search", "updatedAfter"},
    "ObjectSummary")
create_kv ==
  Request("create_kv", "post", <<"vault", "v1", "kv">>, {"key_context", "name", "value"},
    {}, "ObjectMetadata")
get_name ==
  Request("get_name", "get", <<"vault", "v1", "kv", "name", Id>>, {}, {}, "VaultObject")
get_kv == Request("get_kv", "get", <<"vault", "v1", "kv", Id>>, {}, {}, "VaultObject")
update_kv ==
  Request("update_kv", "put", <<"vault", "v1", "kv", Id>>, {"value"}, {"version_check"},
    "ObjectWithoutValue")
delete_kv ==
  Request("delete_kv", "delete", <<"vault", "v1", "kv", Id>>, {}, {"version_check"},
    NoModel)
list_kv_metadata ==
  Request("list_kv_metadata", "get", <<"vault", "v1", "kv", Id, "metadata">>, {}, {},
    "ObjectWithoutValue")
list_kv_versions ==
  Request("list_kv_versions", "get", <<"vault", "v1", "kv", Id, "versions">>, {}, {},
    "VersionListResponse")
Vault == {create_data_key, create_decrypt, create_rekey, list_kv, create_kv, get_name,
  get_kv, update_kv, delete_kv, list_kv_metadata, list_kv_versions}

\* webhooks/_resource.py
list_webhook_endpoints ==
  Page("list_webhook_endpoints", <<"webhook_endpoints">>, {}, Cursors, "WebhookEndpoint")
create_webhook_endpoint ==
  Request("create_webhook_endpoint", "post", <<"webhook_endpoints">>,
    {"endpoint_url", "events"}, {}, "WebhookEndpoint")
update_webhook_endpoint ==
  Request("update_webhook_endpoint", "patch", <<"webhook_endpoints", Id>>, {},
    {"endpoint_url", "status", "events"}, "WebhookEndpoint")
delete_webhook_endpoint ==
  Request("delete_webhook_endpoint", "delete", <<"webhook_endpoints", Id>>, {}, {},
    NoModel)
Webhooks == {list_webhook_endpoints, create_webhook_endpoint, update_webhook_endpoint,
  delete_webhook_endpoint}

\* The resources a client gives access to.
Operations ==
  UserOperations
    \cup UNION {AdminPortal, ApiKeys, AuditLogs, Authorization, Connect, DirectorySync,
      Events, FeatureFlags, Groups, OrganizationDomains, Organizations, Pipes,
      PipesProvider, Vault, Webhooks}
=============================================================================
