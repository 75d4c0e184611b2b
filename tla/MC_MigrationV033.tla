-------------------------- MODULE MC_MigrationV033 --------------------------
EXTENDS MigrationV033, TLC

\* Two URL texts, one of them the registry that is also the default.
MCBases == {"registry.start9.com", "example.com"}

MCRegistry == "registry.start9.com"
=============================================================================
