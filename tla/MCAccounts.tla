----------------------------- MODULE MCAccounts ------------------------------
\* The requests that meet: sign-in with sign-out, the second factor, provisioning, keys.
EXTENDS Accounts

SignInScenes == {{"login", "refresh"}, {"login", "reset"}, {"reset", "change"},
                 {"refresh", "logout", "change", "signout", "oidc"}, {"oidc", "create", "role"},
                 {"enroll", "confirm", "disable", "codes"}, {"login", "codes"}, {"mint", "revokeKey"}}
=============================================================================
