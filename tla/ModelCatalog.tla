--------------------------- MODULE ModelCatalog ---------------------------
(***************************************************************************)
(* otari: what a model costs and which models there are                    *)
(* (src/otari/src/gateway/services/pricing_service.py,                     *)
(* pricing_init_service.py, provider_kwargs.py, model_discovery_service.py,*)
(* api/routes/pricing.py and models.py).                                   *)
(*                                                                         *)
(* One model of one provider instance.  Its prices are rows with a date    *)
(* from which they hold, under the key "instance:model" or, from former    *)
(* versions, "instance/model".  Admins set and delete rows over the        *)
(* API, a start of the process adds those of the config file, and a request*)
(* looks its price up when it is admitted and again when it is settled.    *)
(* The list of models joins the rows with what the provider lists, which a *)
(* cache keeps for a while.                                                *)
(***************************************************************************)
EXTENDS Naturals, FiniteSets, FiniteSetsExt

CONSTANTS Listers,   \* tasks that list the models
          Admins,    \* tasks that serve calls of admins
          LastTime,  \* bound: the clock
          MaxCalls   \* bound: calls of the admins

ASSUME TimeAssumption == LastTime \in Nat

Forms == {"colon", "slash"}
Times == 0..LastTime
Unpriced == 0
Prices == {1, 2}
DefaultPrice == 3   \* of the genai-prices dataset

VARIABLES today,     \* the clock
          instance,  \* "provider", "named", "env" or "unknown"
          entry,     \* the model's entry of config.pricing, if any
          dataset,   \* genai-prices has an input rate for the model
          defaults,  \* config.default_pricing
          rows,      \* table model_pricing, this model's rows
          admin,     \* task -> a call of an admin between its reads and its commit
          calls,
          request,   \* a request: "new", "admitted", "paid" or "free"
          cache,     \* the discovered list: none, valid or past its time
          lister,    \* task -> where it is in discover_all_models
          holder,    \* who holds the cache's lock
          removed,   \* history: rows were deleted since the request was admitted
          posted     \* history: date -> the prices its last answered call, and those
                     \* whose answer was lost since, may have left there

catalogVars == <<today, instance, entry, dataset, defaults, rows, admin, calls,
                 request, cache, lister, holder, removed, posted>>
config == <<instance, entry, dataset, defaults>>
prices == <<rows, admin, calls, request, removed, posted>>
listing == <<cache, lister, holder>>

NoCall == [kind |-> "none"]
NoEntry == [there |-> FALSE]
Undated == LastTime + 1

CatalogInit ==
    /\ today = 0
    /\ instance \in {"provider", "named", "env", "unknown"}
    /\ entry \in {NoEntry} \cup [there : {TRUE}, at : {0, Undated}, price : {1}]
    /\ dataset \in BOOLEAN
    /\ defaults \in BOOLEAN
    \* A former version may have left a row under the slash key.
    /\ rows \in {{}, {[form |-> "slash", at |-> 0, price |-> 2, by |-> "former"]}}
    /\ admin = [a \in Admins |-> NoCall] /\ calls = 0
    /\ request = "new"
    /\ cache = "none" /\ lister = [l \in Listers |-> "idle"] /\ holder = {}
    /\ removed = FALSE
    /\ posted = [t \in Times |-> {Unpriced}]

DayPasses ==
    /\ today < LastTime /\ today' = today + 1
    /\ UNCHANGED <<config, prices, listing>>

-----------------------------------------------------------------------------
(* Keys and selectors.  A selector is the form it is spelled in.           *)

Configured == instance \in {"provider", "named"}
KnownToAnyLLM == instance \in {"provider", "env"}

\* resolve_provider_selector: either form resolves to the instance, or neither.
Resolves == Configured \/ KnownToAnyLLM

\* Variant: the key is kept as it was given.
NormalizeAsGiven(form) == form

\* normalize_pricing_key.  An unknown provider raises AnyLLMError, which it
\* does not catch.
NormalizePricingKey(form) == "colon"

\* _candidate_model_keys, in the order they are tried: as given, then the colon
\* form, then, if any-llm knows the provider, the slash form.
Candidates(form) ==
    IF form = "slash" THEN <<"slash", "colon">>
    ELSE IF KnownToAnyLLM THEN <<"colon", "slash">> ELSE <<"colon">>

-----------------------------------------------------------------------------
(* Looking a price up.                                                     *)

At(form) == {r \in rows : r.form = form}
Latest(rs) == CHOOSE r \in rs : \A q \in rs : q.at <= r.at

\* _find_by_model_key: the latest row of the key that holds by t.
Effective(form, t) == {r \in At(form) : r.at <= t}
FindByModelKey(form, t) ==
    IF Effective(form, t) = {} THEN Unpriced ELSE Latest(Effective(form, t)).price

\* default_model_pricing, whose lookups end with the model's bare name.
DefaultModelPricing == IF dataset THEN DefaultPrice ELSE Unpriced

\* find_model_pricing.
FindModelPricing(t) ==
    IF FindByModelKey("colon", t) # Unpriced THEN FindByModelKey("colon", t)
    ELSE IF FindByModelKey("slash", t) # Unpriced THEN FindByModelKey("slash", t)
    ELSE IF defaults THEN DefaultModelPricing ELSE Unpriced

\* get_pricing: the first candidate key that has a row.
GetPricing(form, t) ==
    LET c == Candidates(form)
        with == {i \in DOMAIN c : Effective(c[i], t) # {}}
    IN IF with = {} THEN Unpriced ELSE FindByModelKey(c[Min(with)], t)

\* _get_pricing_history, what a deletion without a date deletes.
GetPricingHistory(form) ==
    LET c == Candidates(form)
        with == {i \in DOMAIN c : At(c[i]) # {}}
    IN IF with = {} THEN {} ELSE At(c[Min(with)])

\* _get_pricing_map: the latest row of the colon key, whenever it holds from.
PricingMap == IF At("colon") = {} THEN Unpriced ELSE Latest(At("colon")).price

-----------------------------------------------------------------------------
(* The admins.                                                             *)

Dated(at) == IF at = Undated THEN today ELSE at   \* normalize_effective_at

\* The price of the row of a key and date, if there is one.
RowOf(form, at) == {r \in At(form) : r.at = at}
PriceOf(form, at) ==
    IF RowOf(form, at) = {} THEN Unpriced ELSE (CHOOSE r \in RowOf(form, at) : TRUE).price

Call(a, call) ==
    /\ admin[a] = NoCall /\ calls < MaxCalls /\ calls' = calls + 1
    /\ admin' = [admin EXCEPT ![a] = call]
    /\ UNCHANGED <<today, config, rows, request, removed, posted, listing>>

\* set_pricing up to the commit: it reads the row of that key and date.
SetPricing(a) ==
    /\ Resolves
    /\ \E form \in Forms, at \in Times \cup {Undated}, price \in Prices :
         Call(a, [kind |-> "set", form |-> NormalizePricingKey(form), at |-> Dated(at),
                  price |-> price, read |-> PriceOf(NormalizePricingKey(form), Dated(at))])

Returns(a) ==
    /\ admin' = [admin EXCEPT ![a] = NoCall]
    /\ UNCHANGED <<today, config, calls, request, listing>>

\* The statement does what the call asks for: an INSERT if it read no row, and
\* an UPDATE of the row it read if the price differs from what it read.  One
\* that finds another's row, or the row gone, fails.
Writes(a) ==
    LET c == admin[a] IN
    /\ (c.read = Unpriced) = (RowOf(c.form, c.at) = {})
    /\ rows' = IF c.price = c.read THEN rows
               ELSE (rows \ RowOf(c.form, c.at))
                      \cup {[form |-> c.form, at |-> c.at, price |-> c.price, by |-> "api"]}

\* The price of the row once it did: the refreshed row that the answer tells.
Answered(c) == IF c.price = c.read THEN PriceOf(c.form, c.at) ELSE c.price

\* The answer of a commit that took effect may be lost.
CommitSet(a) ==
    LET c == admin[a] IN
    /\ c.kind = "set" /\ Returns(a) /\ UNCHANGED removed
    /\ \/ /\ Writes(a)
          /\ \E known \in {{}, posted[c.at]} :
               posted' = [posted EXCEPT ![c.at] = known \cup {Answered(c)}]
       \/ UNCHANGED <<rows, posted>>

\* delete_pricing: one date, of the first candidate key that has it, or the
\* whole history of the first candidate key that has any.
DeletePricing(a) ==
    \E form \in Forms, at \in Times \cup {Undated} :
      LET c == Candidates(form)
          dated == {i \in DOMAIN c : RowOf(c[i], at) # {}}
          targets == IF at = Undated THEN GetPricingHistory(form)
                     ELSE IF dated = {} THEN {} ELSE RowOf(c[Min(dated)], at)
      IN targets # {} /\ Call(a, [kind |-> "delete", targets |-> targets])

Deleted(a, form, at) == \E t \in admin[a].targets : <<t.form, t.at>> = <<form, at>>

CommitDelete(a) ==
    /\ admin[a].kind = "delete" /\ Returns(a)
    /\ \/ /\ rows' = {r \in rows : ~Deleted(a, r.form, r.at)}
          /\ removed' = (removed \/ request = "admitted")
          /\ \E lost \in BOOLEAN :
               posted' = [t \in Times |-> IF ~Deleted(a, "colon", t) THEN posted[t]
                                          ELSE {Unpriced} \cup IF lost THEN posted[t] ELSE {}]
       \/ UNCHANGED <<rows, removed, posted>>

-----------------------------------------------------------------------------
(* The start of the process: create_app's lifespan.                        *)

\* Variant: the config's price replaces the row of its date.
InitializeOverwriting ==
    IF entry.there /\ Configured
    THEN {r \in rows : r.form # "colon" \/ r.at # Dated(entry.at)}
           \cup {[form |-> "colon", at |-> Dated(entry.at), price |-> entry.price, by |-> "config"]}
    ELSE rows

\* initialize_pricing_from_config: an entry of a provider that is listed, unless
\* the table has a row of its key and date.  Without a date it holds from now.
InitializePricing ==
    IF entry.there /\ Configured /\ ~\E r \in At("colon") : r.at = Dated(entry.at)
    THEN rows \cup {[form |-> "colon", at |-> Dated(entry.at), price |-> entry.price,
                     by |-> "config"]}
    ELSE rows

\* Requests, calls and lists of the former process are gone with it.
Restart ==
    /\ rows' = InitializePricing
    /\ admin' = [a \in Admins |-> NoCall] /\ request' = "new" /\ removed' = FALSE
    /\ cache' = "none" /\ lister' = [l \in Listers |-> "idle"] /\ holder' = {}
    /\ UNCHANGED <<today, config, calls, posted>>

-----------------------------------------------------------------------------
(* A request, with require_pricing.                                        *)

GatePrice == FindModelPricing(today)

\* pricing_required_but_missing refuses a request without a price.
Admit ==
    /\ request = "new" /\ Resolves /\ GatePrice # Unpriced
    /\ request' = "admitted"
    /\ UNCHANGED <<today, config, rows, admin, calls, removed, posted, listing>>

\* log_usage looks the price up again.
SettleRequest ==
    /\ request = "admitted"
    /\ request' = IF FindModelPricing(today) = Unpriced THEN "free" ELSE "paid"
    /\ UNCHANGED <<today, config, rows, admin, calls, removed, posted, listing>>

-----------------------------------------------------------------------------
(* Listing the models.                                                     *)

\* A cached list is past its time after model_cache_ttl_seconds; with 0 it is
\* never valid (the list expires before anybody reads it).
CacheExpires ==
    /\ cache = "valid" /\ cache' = "expired"
    /\ UNCHANGED <<today, config, prices, lister, holder>>

\* A valid cache answers; otherwise the lister queues for the lock.
List(l) ==
    /\ lister[l] = "idle" /\ Configured
    /\ lister' = [lister EXCEPT ![l] = IF cache = "valid" THEN "idle" ELSE "waiting"]
    /\ UNCHANGED <<today, config, prices, cache, holder>>

\* Variant: the lists are fetched side by side.
LockFreeAlways == TRUE

LockFree == holder = {}

\* Double-check under the lock.
StillNeeded == cache # "valid"

TakeLock(l) ==
    /\ lister[l] = "waiting" /\ LockFree
    /\ IF StillNeeded
       THEN holder' = {l} /\ lister' = [lister EXCEPT ![l] = "fetching"]
       ELSE lister' = [lister EXCEPT ![l] = "idle"] /\ UNCHANGED holder
    /\ UNCHANGED <<today, config, prices, cache>>

\* _discover_for_provider: the provider's list, or the declared one if that
\* fails; neither leaves the cache alone.
Fetched(l) ==
    /\ lister[l] = "fetching"
    /\ cache' \in {cache, "valid"}
    /\ holder' = {} /\ lister' = [lister EXCEPT ![l] = "idle"]
    /\ UNCHANGED <<today, config, prices>>

CatalogNext ==
    \/ DayPasses \/ Restart \/ Admit \/ SettleRequest \/ CacheExpires
    \/ \E a \in Admins : SetPricing(a) \/ CommitSet(a) \/ DeletePricing(a) \/ CommitDelete(a)
    \/ \E l \in Listers : List(l) \/ TakeLock(l) \/ Fetched(l)

CatalogSpec == CatalogInit /\ [][CatalogNext]_catalogVars

-----------------------------------------------------------------------------
(* What holds of the catalog.                                              *)

FormerRow == \E r \in rows : r.by = "former"

\* The admin reads, under either spelling of the model, the price that requests
\* are billed by, unless a former version's row is there, which the slash form
\* finds first and billing last.
ReadersAgree ==
    ~FormerRow => \A form \in Forms, t \in 0..today :
      GetPricing(form, t) # Unpriced => GetPricing(form, t) = FindModelPricing(t)

\* The listed price is the one requests are billed by now, unless a row is there
\* that holds only later, which the list does not tell from the present one.
ListedIsBilled ==
    PricingMap # Unpriced /\ (\A r \in At("colon") : r.at <= today) =>
      PricingMap = FindModelPricing(today)

\* Under require_pricing an answer is free of charge only if a price was deleted
\* while its request ran.
FreeNeedsDeletion ==
    request = "free" => removed

\* The admin's reading, the list, the gate and the bill agree on a price: the
\* three invariants above.
PricesAgree == ReadersAgree /\ ListedIsBilled /\ FreeNeedsDeletion

\* A price that an admin was told holds from a date is what requests are billed
\* by from then on, through starts of the process and other calls, until it was
\* or may have been deleted, or a row of a later date holds: one that another
\* call set, or the config's (an entry without a date gets a new date at every
\* start, and so comes after what the API has set).
PostedPriceHolds ==
    \A t \in 0..today : Unpriced \notin posted[t] =>
      \/ FindModelPricing(today) \in posted[t]
      \/ \E u \in (t + 1)..today : \/ posted[u] # {Unpriced}
                                   \/ \E r \in At("colon") : r.at = u /\ r.by = "config"

\* The provider is asked for its list only while there is no valid one: from the
\* look under the lock until its answer is stored, nobody else stores one, so of
\* many requests that find the cache past its time only one asks.
FetchIsNeeded ==
    \A l \in Listers : lister[l] = "fetching" =>
      cache # "valid" /\ \A k \in Listers \ {l} : lister[k] # "fetching"

\* docs/configuration.md: "Pricing set via the /v1/pricing API takes precedence"
\* over the config's: no row of the config is in force while one of the API is.
\* An entry without a date breaks it: each start adds it with a new date.
ApiTakesPrecedence ==
    LET api == {r \in Effective("colon", today) : r.by = "api"}
    IN api # {} => Latest(Effective("colon", today)).by = "api"
=============================================================================
