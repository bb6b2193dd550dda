------------------------------ MODULE CoachModels ------------------------------
(***************************************************************************)
(* The coach model catalog of tutor/models/catalog.py and the tiers of     *)
(* tutor/auth.py, as functions of a deployment: the settings the process   *)
(* was started with and the catalog its code ships.  Stored model keys     *)
(* outlive deployments; a key keeps its provider.                          *)
(***************************************************************************)
EXTENDS Naturals

CONSTANTS
  ModelKey,       \* stable model keys, of this catalog or of another
  NoKey,          \* no model: none asked for, none stored
  ProviderOf,     \* ProviderOf[key]
  DefaultByTier,  \* DefaultByTier[tier]
  Deployments     \* the deployments a service may go through

Tier == {"homelab", "byok"}

Provider == {"anthropic", "openrouter", "ollama"}

CredentialMode == {"server_key", "client_direct", "local", "locked"}

\* The settings that matter, and the keys each tier may choose.
Deployment ==
  [force_byok : BOOLEAN, auth_enabled : BOOLEAN, allowlisted : BOOLEAN,
   has_server_key : BOOLEAN, has_local : BOOLEAN, force_local : BOOLEAN,
   catalog : [Tier -> SUBSET ModelKey]]

IsLocal(key) == ProviderOf[key] = "ollama"

ASSUME CatalogAssumption ==
  /\ NoKey \notin ModelKey
  /\ ProviderOf \in [ModelKey -> Provider]
  /\ DefaultByTier \in [Tier -> ModelKey]
  /\ IsLocal(DefaultByTier["homelab"]) /\ ~ IsLocal(DefaultByTier["byok"])
  /\ Deployments \subseteq Deployment
  /\ \A d \in Deployments :
       /\ \A tier \in Tier : DefaultByTier[tier] \in d.catalog[tier]
       /\ \A key \in d.catalog["byok"] : ~ IsLocal(key)

WantsByok(d) == d.force_byok \/ (d.auth_enabled /\ ~ d.allowlisted)

TierFor(d) == IF WantsByok(d) THEN "byok" ELSE "homelab"

PrefersLocal(d) == d.force_local \/ (~ d.has_server_key /\ d.has_local)

\* by_key: an entry of the catalog, for some tier.
InCatalog(d, key) == \E tier \in Tier : key \in d.catalog[tier]

\* available_models without its backend filter.
AllowedModels(d, tier) == d.catalog[tier]

AvailableModels(d, tier) == {key \in d.catalog[tier] : d.has_local \/ ~ IsLocal(key)}

DefaultModel(tier) == DefaultByTier[tier]

\* ModelNotAllowed is raised: unknown, not for the tier, or local with no backend.
NotAllowed(d, requested, tier) ==
  requested # NoKey /\ requested \notin AvailableModels(d, tier)

\* validate_choice, where it does not raise.
ValidChoice(requested, tier) == IF requested = NoKey THEN DefaultModel(tier) ELSE requested

\* _entry_for_tier
EntryForTier(d, stored, tier) == IF stored \in d.catalog[tier] THEN stored ELSE DefaultModel(tier)

\* The mode of resolve_coach.
ResolveCoach(d, stored) ==
  LET tier  == TierFor(d)
      entry == EntryForTier(d, stored, tier)
  IN  IF tier = "byok" THEN "client_direct"
      ELSE IF IsLocal(entry) THEN IF d.has_local THEN "local" ELSE "locked"
      ELSE IF PrefersLocal(d) THEN "local"
      ELSE IF ProviderOf[entry] = "anthropic" /\ d.has_server_key THEN "server_key"
      ELSE "locked"
===============================================================================
