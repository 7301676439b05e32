------------------------------ MODULE ToolOffer ------------------------------
(***************************************************************************)
(* Which tools a request is shown, offered and allowed to run:             *)
(* ToolManager and ToolSnapshot (tool_manager.py), the provider catalog    *)
(* (tool_providers.py), the catalog and schema caches of one generation    *)
(* (tool_catalog_cache.py, tool_schema_cache.py) and their consumers in    *)
(* categorize.py and llm_payload.py.                                       *)
(*                                                                         *)
(* A request is bound to the runtime snapshot it was admitted with.  A     *)
(* command of a superuser patches the current snapshot within its          *)
(* generation, so requests with different settings, and of users with      *)
(* different rights, share the two caches of that generation.              *)
(***************************************************************************)
EXTENDS Integers, Sequences, FiniteSets, SequencesExt

CONSTANTS
  Asks,            \* requests
  Profiles,        \* who asks, with which protocol tools, which of them suppressed
  ToolNames,       \* names of tools, and names a model makes up
  Search,          \* web_search
  ProtocolTools,   \* builtin tools of the OneBot protocol
  ForSuperusers,   \* those of them that only superusers may use
  Inventories,     \* a sequence: what the six providers can hold when a reload reads them
  Selectors,       \* what an entry of the blacklist covers
  MaxCatalogs,     \* bound: generations
  MaxPatches,      \* bound: commands that change a setting, and new days
  MaxRecords,      \* max_entries of each cache
  MaxRecordTools,  \* max_catalog_bytes and max_record_bytes, in tools
  MaxRows,         \* MAX_DISCOVERY_CATALOG_CHARS, in rows
  Settings,        \* what the configuration says when the process starts
  Selections       \* what a classification may bring: names, made-up ones too,
                   \* and whether the model chosen for it uses tools

VARIABLES
  catalogs,   \* which inventory each generation was built from
  current,    \* the settings of RuntimeSnapshotStore._current
  command     \* the blacklist command in progress
VARIABLES
  patches,    \* commands and new days so far
  verified,   \* _ProviderConsumerParityState: generations compared today
  briefs,     \* MemoryToolCatalogCache of each generation, newest last
  schemas,    \* MemoryToolSchemaCache of each generation, newest last
  turns       \* each request

Inventory ==
  [plugins : SUBSET ToolNames, registered : SUBSET ToolNames, file : SUBSET ToolNames,
   generated : SUBSET ToolNames, mcp : SUBSET ToolNames, super : SUBSET ToolNames,
   mutating : SUBSET ToolNames, needs : [ToolNames -> SUBSET ToolNames],
   extra : [ToolNames -> SUBSET ToolNames],
   rows : Seq([of : ToolNames, hidden : BOOLEAN])]   \* in the order of the catalog

\* No provider says of a builtin tool who may use it, nor that a search changes
\* anything; only a plugin has a row for each of its features, some hidden.
ASSUME OfferAssumption ==
  /\ {MaxCatalogs, MaxRecords} \subseteq Nat \ {0}
  /\ {MaxPatches, MaxRecordTools, MaxRows} \subseteq Nat
  /\ Search \in ToolNames /\ ProtocolTools \subseteq ToolNames \ {Search}
  /\ ForSuperusers \subseteq ProtocolTools
  /\ \A v \in DOMAIN Inventories :
       /\ Inventories[v] \in Inventory /\ Search \notin Inventories[v].mutating
       /\ Inventories[v].super \cap (ProtocolTools \cup {Search}) = {}
       /\ \A j \in DOMAIN Inventories[v].rows :
            Inventories[v].rows[j].hidden => Inventories[v].rows[j].of \in Inventories[v].plugins
  /\ \A s \in Settings : {s.tools, s.search, s.cutover} \subseteq BOOLEAN
                          /\ s.barred \subseteq DOMAIN Selectors
  /\ Profiles # {} /\ \A p \in Profiles : p.super \in BOOLEAN
  /\ \A c \in Selections : c.able \in BOOLEAN

offerVars == <<catalogs, current, command, patches, verified, briefs, schemas, turns>>

Builtins == ProtocolTools \cup {Search}

----------------------------------------------------------------------------
(* The candidate of a reload. *)

Customs(i) == i.registered \cup i.file \cup i.generated \cup i.mcp
Known(i)   == i.plugins \cup Customs(i) \cup Builtins
\* custom_plugin_info.json adds dependencies to the legacy view alone.
LegacyNeeds(i, n) == i.needs[n] \cup i.extra[n]

UniqueNames(i) ==
  LET batch == <<i.registered, i.file, i.generated, i.mcp, i.plugins, Builtins>>
  IN  \A a \in 1 .. 6 : \A b \in 1 .. a - 1 : batch[a] \cap batch[b] = {}

\* load_custom_tools: the source each name has in the legacy view.
LegacySource(i, n) ==
  CASE n \in i.registered -> "registered" [] n \in i.file -> "custom_file"
    [] n \in i.generated -> "generated"   [] n \in i.mcp -> "mcp"
    [] OTHER -> "none"
Agrees(i, names, source) ==
  /\ {n \in Customs(i) : LegacySource(i, n) = source} = names
  /\ \A n \in names : i.needs[n] \subseteq LegacyNeeds(i, n)
FilesAgree(i)     == Agrees(i, i.file, "custom_file")
GeneratedAgree(i) == Agrees(i, i.generated, "generated")
McpAgrees(i)      == Agrees(i, i.mcp, "mcp")
BuiltinsAgree(i)  == \A n \in Builtins : i.needs[n] = {}
PluginsAgree(i)   == /\ i.super \cap i.plugins = {}
                     /\ \A n \in i.plugins : i.extra[n] \subseteq i.needs[n]
DependenciesKnown(i) == \A n \in Known(i) : LegacyNeeds(i, n) \subseteq Known(i)

Publishable(i) ==
  /\ UniqueNames(i) /\ DependenciesKnown(i)
  /\ Agrees(i, i.registered, "registered") /\ FilesAgree(i) /\ GeneratedAgree(i)
  /\ McpAgrees(i) /\ BuiltinsAgree(i) /\ PluginsAgree(i)

----------------------------------------------------------------------------
(* What a request sees of its snapshot. *)

Catalog(k)   == Inventories[catalogs[k.generation]]
Barred(k)    == UNION {Selectors[s] : s \in k.barred}
\* ToolTrustPolicy.decide: selection and execution need the permission.
Permits(k, n) == k.super \/ n \notin Catalog(k).super \cup ForSuperusers
Available(k, n) == n \in k.scope.tools /\ (n \in ForSuperusers => k.super)

BriefKey(t) ==
  [generation |-> t.pin.generation, cutover |-> t.pin.cutover,
   barred |-> t.pin.barred, tools |-> t.pin.tools, search |-> t.pin.search,
   super |-> t.as.super, scope |-> t.as.scope,
   suppressed |-> IF t.pin.tools THEN t.as.suppressed ELSE {}]

\* _tool_schema_request_inputs and capture_llm_payload_schema_context.
SchemaKey(t) ==
  LET on == t.pin.tools /\ t.able
  IN  [generation |-> t.pin.generation, cutover |-> t.pin.cutover,
       barred |-> t.pin.barred, tools |-> on, search |-> on /\ t.pin.search,
       super |-> t.as.super, scope |-> t.as.scope,
       suppressed |-> IF on THEN t.as.suppressed ELSE {},
       selected |-> t.selected \cup t.pin.residents]

Protocols(k) == {n \in ProtocolTools : Available(k, n)} \ k.suppressed
Finder(k)    == IF k.search THEN {Search} ELSE {}

\* build_plugin_catalog_entries and finalize_discovery_catalog: no row for an
\* ordinary user of a hidden feature, nor for anybody beyond the limit.
Rendered(rows, readable) ==
  {rows[j].of : j \in {m \in readable : Cardinality({l \in readable : l <= m}) <= MaxRows}}
Readable(k, S) ==
  {j \in DOMAIN Catalog(k).rows :
     Catalog(k).rows[j].of \in S /\ (Catalog(k).rows[j].hidden => k.super)}

LegacyListed(k) ==
  ((IF k.tools THEN Catalog(k).plugins \cup Protocols(k)
                    \cup {n \in Customs(Catalog(k)) : Permits(k, n)}
               ELSE {}) \cup Finder(k)) \ Barred(k)
ProviderListed(k) ==
  {n \in (IF k.tools THEN Catalog(k).plugins \cup Customs(Catalog(k)) \cup Protocols(k)
                     ELSE {}) \cup Finder(k) :
     n \notin Barred(k) /\ Permits(k, n)}
LegacyBrief(k)   == Rendered(Catalog(k).rows, Readable(k, LegacyListed(k)))
ProviderBrief(k) == Rendered(Catalog(k).rows, Readable(k, ProviderListed(k)))

\* expand_dependencies: the least set with the seeds and all that it leads to.
Closure(seeds, next) ==
  seeds \cup {n \in ToolNames : \A S \in SUBSET ToolNames :
    (\A m \in (seeds \cup S) \cap DOMAIN next : next[m] \subseteq seeds \cup S) => n \in S}

LegacyNext(k) ==
  LET i == Catalog(k)
  IN  [n \in Known(i) |-> (LegacyNeeds(i, n) \cap (i.plugins \cup Customs(i))) \ Barred(k)]
ProviderNext(k) == [n \in Known(Catalog(k)) |-> Catalog(k).needs[n] \ Barred(k)]

LegacyClosure(k)   == Closure(k.selected \ Barred(k), LegacyNext(k))
ProviderClosure(k) == Closure(k.selected \ Barred(k), ProviderNext(k))

LegacyOf(k, S) ==
  LET rest == S \ {Search}
  IN  IF ~k.tools THEN {}
      ELSE ((Catalog(k).plugins \cap rest)
             \cup {n \in Customs(Catalog(k)) \cap rest : Permits(k, n)}
             \cup (Protocols(k) \cap rest) \cup (Finder(k) \cap S)) \ Barred(k)
ProviderOf(k, S) ==
  {n \in S \cap (Catalog(k).plugins \cup Customs(Catalog(k)) \cup Protocols(k) \cup Finder(k)) :
     n \notin Barred(k) /\ Permits(k, n)}

Brief(k)  == IF k.cutover THEN ProviderBrief(k) ELSE LegacyBrief(k)
Schema(k) == IF k.cutover /\ k.tools THEN ProviderOf(k, ProviderClosure(k))
                                     ELSE LegacyOf(k, LegacyClosure(k))
BriefsAgree(k)  == ProviderBrief(k) = LegacyBrief(k)
SchemasAgree(k) == /\ ProviderClosure(k) = LegacyClosure(k)
                   /\ ProviderOf(k, ProviderClosure(k)) = LegacyOf(k, LegacyClosure(k))

\* The two views of the schema are compared once a day for each generation.
\* Those of the catalog are too, and never differ for what Publishable admits.
Due(k) == k.cutover /\ k.tools /\ k.generation \notin verified
Verify(k) == verified' = IF k.cutover /\ k.tools THEN verified \cup {k.generation} ELSE verified

----------------------------------------------------------------------------
(* The caches: nothing suspends between a lookup and the publication. *)

\* mutant: the identity of a record leaves out the blacklist
Stored_AnyBlacklist(c, key) ==
  {c[j].view : j \in {i \in 1 .. Len(c) : c[i].key = [key EXCEPT !.barred = c[i].key.barred]}}
Stored(c, key) == {c[j].view : j \in {i \in 1 .. Len(c) : c[i].key = key}}
Fits(c, key, view) == Stored(c, key) # {} \/ Cardinality(view) <= MaxRecordTools
Resolved(c, key, view) ==
  IF Stored(c, key) # {} THEN CHOOSE v \in Stored(c, key) : TRUE ELSE view
\* The record becomes the newest one; a full cache loses its oldest.
Moved(c, key, view) ==
  LET at == {i \in 1 .. Len(c) : c[i].key = key}
  IN  Append(IF at = {} THEN c ELSE RemoveAt(c, CHOOSE i \in at : TRUE),
             [key |-> key, view |-> view])
\* mutant: nothing leaves a full cache
Touched_NeverFull(c, key, view) == Moved(c, key, view)
Touched(c, key, view) ==
  LET moved == Moved(c, key, view)
  IN  IF Len(moved) > MaxRecords THEN Tail(moved) ELSE moved

----------------------------------------------------------------------------
Unbound == [generation |-> 1, tools |-> FALSE, search |-> FALSE, barred |-> {},
            residents |-> {}, cutover |-> FALSE]
NoRequest ==
  [at |-> "idle", as |-> CHOOSE p \in Profiles : TRUE, pin |-> Unbound, selected |-> {},
   able |-> TRUE, record |-> {}, shown |-> {}, offered |-> {}, ran |-> {}, waits |-> {}]
Ended == [NoRequest EXCEPT !.at = "ended"]

OfferTypeOK ==
  /\ Len(catalogs) \in 1 .. MaxCatalogs /\ current.generation = Len(catalogs)
  /\ \A g \in 1 .. Len(catalogs) : catalogs[g] \in DOMAIN Inventories
  /\ patches \in 0 .. MaxPatches /\ verified \subseteq 1 .. MaxCatalogs
  /\ \A g \in 1 .. MaxCatalogs :
       /\ Len(briefs[g]) <= MaxRecords /\ Len(schemas[g]) <= MaxRecords
  /\ \A r \in Asks :
       /\ turns[r].at \in {"idle", "asked", "reading", "selected", "prepared", "bound",
                          "called", "confirmed", "ended"}
       /\ turns[r].shown \cup turns[r].offered \subseteq ToolNames

OfferInit ==
  /\ \E v \in DOMAIN Inventories : Publishable(Inventories[v]) /\ catalogs = <<v>>
  /\ \E s \in Settings :
       current = [generation |-> 1, tools |-> s.tools, search |-> s.search,
                  barred |-> s.barred, residents |-> s.residents, cutover |-> s.cutover]
  /\ command = <<>> /\ patches = 0
  /\ verified = {}
  /\ briefs = [g \in 1 .. MaxCatalogs |-> <<>>]
  /\ schemas = [g \in 1 .. MaxCatalogs |-> <<>>]
  /\ turns = [r \in Asks |-> NoRequest]

----------------------------------------------------------------------------
(* The administration. *)

Patch(new) ==
  /\ patches < MaxPatches /\ patches' = patches + 1
  /\ current' = new
SetUseTools  == Patch([current EXCEPT !.tools = ~@])
                  /\ UNCHANGED <<catalogs, command, verified, briefs, schemas, turns>>
SetWebSearch == Patch([current EXCEPT !.search = ~@])
                  /\ UNCHANGED <<catalogs, command, verified, briefs, schemas, turns>>

\* resolve_tool_management: what the blacklist may name.
Manageable(s) == Selectors[s] \cap Known(Catalog(current)) # {}

Stage == IF command = <<>> THEN "none" ELSE command[1]

\* Adding reloads, checks the name, patches and reloads again; removing
\* patches and reloads.
AskBar(s) ==
  /\ Stage = "none" /\ s \notin current.barred
  /\ command' = <<"before", s>>
  /\ UNCHANGED <<catalogs, current, patches, verified, briefs, schemas, turns>>
DoBar ==
  /\ Stage = "check"
  /\ IF Manageable(command[2])
     THEN /\ Patch([current EXCEPT !.barred = @ \cup {command[2]}])
          /\ command' = <<"after", command[2]>>
     ELSE command' = <<>> /\ UNCHANGED <<current, patches>>
  /\ UNCHANGED <<catalogs, verified, briefs, schemas, turns>>
Unbar(s) ==
  /\ Stage = "none" /\ s \in current.barred
  /\ Patch([current EXCEPT !.barred = @ \ {s}])
  /\ command' = <<"after", s>>
  /\ UNCHANGED <<catalogs, verified, briefs, schemas, turns>>

\* "refresh tools", or a reload of a blacklist command.
Reload(v) ==
  /\ Stage # "check"
  /\ Len(catalogs) < MaxCatalogs /\ Publishable(Inventories[v])
  /\ catalogs' = Append(catalogs, v)
  /\ current' = [current EXCEPT !.generation = @ + 1]
  /\ command' = IF Stage = "before" THEN <<"check", command[2]>> ELSE <<>>
  /\ UNCHANGED <<patches, verified, briefs, schemas, turns>>
ReloadFails(v) ==
  /\ Stage \in {"before", "after"} /\ ~Publishable(Inventories[v])
  /\ command' = <<>>
  /\ UNCHANGED <<catalogs, current, patches, verified, briefs, schemas, turns>>

NewDay ==
  /\ patches < MaxPatches /\ patches' = patches + 1
  /\ verified' = {}
  /\ UNCHANGED <<catalogs, current, command, briefs, schemas, turns>>

----------------------------------------------------------------------------
(* A request. *)

SetTurn(r, new) ==
  /\ turns' = [turns EXCEPT ![r] = new]
  /\ UNCHANGED <<catalogs, current, command, patches>>
NoCache == UNCHANGED <<verified, briefs, schemas>>

\* protocol_request_scope: the probe gives the request its protocol tools, or
\* none; the text it brings may match the triggers of business plugins.
Begin(r, profile) ==
  /\ turns[r].at = "idle"
  /\ SetTurn(r, [turns[r] EXCEPT !.at = "asked", !.as = profile, !.pin = current])
  /\ NoCache

\* resolve_business_intent: the text is exactly an intent of the feature in row j.
\* Its plugin is selected, or the request is refused, as it is when several
\* plugins own the intent or its plugin is not loaded.
OwnsIntent(r, j) ==
  LET t == turns[r]
      row == Catalog(t.pin).rows[j]
      chosen == [t EXCEPT !.at = "selected", !.selected = {row.of}]
  IN  /\ t.at = "asked" /\ t.pin.tools /\ row.of \in Catalog(t.pin).plugins
      /\ \/ SetTurn(r, Ended)
         \/ /\ row.hidden => t.as.super
            /\ row.of \notin Barred(t.pin)
            /\ SetTurn(r, chosen)
      /\ NoCache

Unclassified(r) ==
  /\ turns[r].at = "asked" /\ ~turns[r].pin.tools /\ ~turns[r].pin.search
  /\ SetTurn(r, [turns[r] EXCEPT !.at = "selected"])
  /\ NoCache

ReadCatalog(r) ==
  LET t == turns[r]
      k == BriefKey(t)
      c == briefs[k.generation]
      view == Resolved(c, k, Brief(k))
  IN  /\ t.at = "asked" /\ (t.pin.tools \/ t.pin.search)
      /\ IF Fits(c, k, view)
         THEN /\ briefs' = [briefs EXCEPT ![k.generation] = Touched(c, k, view)]
              /\ SetTurn(r, [t EXCEPT !.at = "reading", !.shown = view])
         ELSE /\ SetTurn(r, [t EXCEPT !.at = "selected"])
              /\ UNCHANGED briefs
      /\ UNCHANGED <<verified, schemas>>

\* The answer of the classification model: any names, none after a timeout.
Selects(r, choice) ==
  /\ turns[r].at = "reading"
  /\ SetTurn(r, [turns[r] EXCEPT !.at = "selected", !.selected = choice.names,
                                   !.able = choice.able, !.shown = {}])
  /\ NoCache

PrepareSchema(r) ==
  LET t == turns[r]
      k == SchemaKey(t)
      c == schemas[k.generation]
      view == Resolved(c, k, Schema(k))
  IN  /\ t.at = "selected"
      /\ IF Due(k) /\ ~SchemasAgree(k)
         THEN /\ SetTurn(r, Ended) /\ NoCache
         ELSE /\ Verify(k)
              /\ UNCHANGED briefs
              /\ IF Fits(c, k, view)
                 THEN /\ schemas' = [schemas EXCEPT ![k.generation] = Touched(c, k, view)]
                      /\ SetTurn(r, [t EXCEPT !.at = "prepared", !.record = {[key |-> k, view |-> view]}])
                 ELSE /\ SetTurn(r, [t EXCEPT !.at = "prepared"])
                      /\ UNCHANGED schemas

\* _build_payload: the record, or the snapshot itself when there is none.
BuildPayload(r) ==
  LET t == turns[r]
      k == SchemaKey(t)
      direct == [t EXCEPT !.at = "bound", !.offered = Schema(k)]
      kept(rec) == [t EXCEPT !.at = "bound", !.offered = rec.view, !.record = {}]
  IN  /\ t.at = "prepared"
      /\ IF Due(k) /\ ~SchemasAgree(k)
         THEN /\ SetTurn(r, Ended) /\ UNCHANGED verified
         ELSE /\ Verify(k)
              /\ IF t.record = {} THEN SetTurn(r, direct)
                 ELSE LET rec == CHOOSE x \in t.record : TRUE
                      IN  SetTurn(r, IF rec.key = k THEN kept(rec) ELSE Ended)
      /\ UNCHANGED <<briefs, schemas>>

\* The model calls a tool: the active schema, the view of the snapshot and its
\* trust decision admit it, or it waits for its confirmation.
Route(k, n) ==
  CASE n = Search -> "search"
    [] n \in ProtocolTools -> IF Available(k, n) THEN "protocol" ELSE "unknown"
    [] n \in Customs(Catalog(k)) -> "custom"
    [] n \in Catalog(k).plugins -> "plugin"
    [] OTHER -> "unknown"
Waits(k, n) == n \in Catalog(k).mutating /\ Route(k, n) \in {"custom", "protocol"}
Call(r, n) ==
  LET t == turns[r]
      k == SchemaKey(t)
      called == [t EXCEPT !.at = "called", !.selected = {}, !.offered = {}]
  IN  /\ t.at = "bound" /\ n \in t.offered
      /\ Route(k, n) # "unknown" /\ Permits(k, n)
      /\ SetTurn(r, IF Waits(k, n) THEN [called EXCEPT !.waits = {n}]
                                   ELSE [called EXCEPT !.ran = {n}])
      /\ NoCache

\* execute_pending_action: the user confirms in a later request, which is bound
\* to the settings of that moment and has to find the same generation.
Confirm(r) ==
  LET t == turns[r]
  IN  /\ t.at = "called" /\ t.waits # {}
      /\ t.pin.generation = current.generation
      /\ \A n \in t.waits : n \in Customs(Catalog(current)) /\ Permits(SchemaKey(t), n)
      /\ SetTurn(r, [t EXCEPT !.at = "confirmed", !.ran = t.waits, !.waits = {}])
      /\ NoCache

End(r) ==
  /\ turns[r].at \in {"bound", "called", "confirmed"} /\ SetTurn(r, Ended)
  /\ NoCache

----------------------------------------------------------------------------
OfferNext ==
  \/ SetUseTools \/ SetWebSearch \/ DoBar \/ NewDay
  \/ \E s \in DOMAIN Selectors : AskBar(s) \/ Unbar(s)
  \/ \E v \in DOMAIN Inventories : Reload(v) \/ ReloadFails(v)
  \/ \E r \in Asks :
       \/ Unclassified(r) \/ ReadCatalog(r) \/ PrepareSchema(r) \/ BuildPayload(r)
       \/ Confirm(r) \/ End(r)
       \/ \E profile \in Profiles : Begin(r, profile)
       \/ \E j \in DOMAIN Catalog(turns[r].pin).rows : OwnsIntent(r, j)
       \/ \E choice \in Selections : Selects(r, choice)
       \/ \E n \in ToolNames : Call(r, n)

OfferSpec == OfferInit /\ [][OfferNext]_offerVars

----------------------------------------------------------------------------
(* What the settings a request was admitted with let it use. *)
Usable(t, n) ==
  LET i == Catalog(t.pin)
  IN  /\ n \in Known(i) \ Barred(t.pin)
      /\ n \in i.super \cup ForSuperusers => t.as.super
      /\ n = Search => t.pin.search
      /\ n \in ProtocolTools => n \in t.as.scope.tools \ t.as.suppressed

MayRead(t, row) ==
  /\ Usable(t, row.of) /\ (row.of # Search => t.pin.tools)
  /\ row.hidden => t.as.super

(* A request is shown the tools it may use, each of which has a row that is *)
(* neither hidden from its user nor beyond the limit of the catalog, and no *)
(* other.  It is offered nothing that it may not use, and every tool that   *)
(* was selected for it or is resident is offered with the tools that one    *)
(* depends on; it runs only what was offered, and a tool that changes       *)
(* something outside a plugin only after a confirmation.  All this although *)
(* the records come from caches that other requests, with other rights and  *)
(* under other settings of the same generation, have filled                 *)
(* (tool_catalog_cache.py:136, tool_schema_cache.py:214,                    *)
(* tool_discovery.py:661 and 681).                                          *)
OffersWhatItMay ==
  \A r \in Asks :
    LET t == turns[r]
        i == Catalog(t.pin)
    IN  /\ t.at = "reading" =>
             /\ BriefsAgree(BriefKey(t))
             /\ t.shown = Rendered(i.rows, {j \in DOMAIN i.rows : MayRead(t, i.rows[j])})
        /\ t.at = "bound" =>
             /\ t.offered # {} => t.pin.tools /\ t.able
             /\ \A n \in t.offered : Usable(t, n)
             /\ t.pin.tools /\ t.able =>
                  \A n \in t.selected \cup t.pin.residents \cup
                           UNION {i.needs[m] \ Builtins : m \in t.offered} :
                    Usable(t, n) => n \in t.offered
        /\ \A n \in t.ran : Usable(t, n) /\ (n \in i.mutating \ i.plugins => t.at = "confirmed")
=============================================================================
