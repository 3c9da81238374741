SPECIFICATION Spec
CONSTANTS
  Keys = {"a", "b"}
  MaxCalls = 2
  Undaunted = {"sieve", "spam", "ldap", "restrictions", "relay", "aliases", "queue", "dovecot", "postfix", "dkim", "rspamd", "audit", "oidc", "mail", "profile", "dashboard"}
  Files = {"f", "g"}
  MaxAsked = 2
  MaxRequests = 2
  Areas = {"relays", "dkim"}
  MaxRefreshes = 2
  MaxChanges = 1
INVARIANTS
  TypeOK
  NothingSilentlyWrong
  OverridesShown
  SpinnersMeanWork
  NothingSentTwice
PROPERTIES
  EnteredWithRole
  DialogEndsSignedOut
  ExpiryNoticed
  BadgeCatchesUp
CHECK_DEADLOCK FALSE
