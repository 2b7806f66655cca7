--------------------------- MODULE AssetRegistry ---------------------------
(***************************************************************************)
(* contracts/src/asset_registry.cairo: the admin's whitelist of assets.    *)
(***************************************************************************)
CONSTANT Assets

VARIABLE whitelisted        \* the assets whose AssetInfo.whitelisted is set

AssetTypeOK == whitelisted \subseteq Assets

AssetInit == whitelisted = {}

\* Whitelisting an asset again only refreshes its description.
whitelist_asset(a) == whitelisted' = whitelisted \cup {a}

remove_asset(a) ==
    /\ a \in whitelisted
    /\ whitelisted' = whitelisted \ {a}

AssetStep == \E a \in Assets : whitelist_asset(a) \/ remove_asset(a)
=============================================================================
