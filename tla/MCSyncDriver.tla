---- MODULE MCSyncDriver ----
(* SyncDriver on small instances. *)
EXTENDS SyncDriver

\* One reconcile of each tier besides the two core ones, in dependency order.
SmallSyncs == <<[id |-> "pantry",     module |-> "pantry", tier |-> "core"],
                [id |-> "recipes",    module |-> "recipe", tier |-> "core"],
                [id |-> "categories", module |-> "recipe", tier |-> "reference"],
                [id |-> "meals",      module |-> "meal",   tier |-> "additive"]>>

\* The first order, with the two other catalogs: as many as the code has.
CatalogSyncs == <<[id |-> "aisles",     module |-> "aisle",     tier |-> "reference"],
                  [id |-> "pantry",     module |-> "pantry",    tier |-> "core"],
                  [id |-> "recipes",    module |-> "recipe",    tier |-> "core"],
                  [id |-> "categories", module |-> "recipe",    tier |-> "reference"],
                  [id |-> "meal-types", module |-> "meal-type", tier |-> "reference"]>>

But(S, h) == [x \in Endpoint |-> IF x \in S THEN h ELSE "up"]

Fine == But({}, "up")
Outage == But(Endpoint \ {Disk}, "down")
DiskFull == But({Disk}, "down")
RateLimited(S) == But(S, "down")
Poison(S) == But(S, "bad")

SmallWeather == {Fine, Outage, DiskFull} \cup {RateLimited({r}) : r \in Recipe} \cup {Poison({"pantry"})}
                \cup {Poison({r}) : r \in Recipe}
CatalogWeather == {Fine, Outage, But({"categories"}, "down")}
====
