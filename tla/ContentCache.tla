---------------------------- MODULE ContentCache ----------------------------
(***************************************************************************)
(* CacheService between the public pages and their tables: what the plans, *)
(* products, geography, FAQ and CMS services load through remember, what   *)
(* their admin writes change, and which keys they clear afterwards.        *)
(*                                                                         *)
(* A row's contents do not matter, only whether an entry was loaded before *)
(* the last write to a table it shows: the entry is behind that table.     *)
(* Keys of one form (the areas of one city, one page) are one key here.    *)
(***************************************************************************)
EXTENDS Sequences

CONSTANTS
    Instances,  \* API processes, each with a CacheService and its own fallback
    Redis,      \* the shared store
    Requests,   \* requests that may be in flight at once
    Contents,   \* the sets of keys that a behaviour is about
    Failures    \* whether Redis connections and processes fail

-----------------------------------------------------------------------------
(* The tables each key shows *)

PlanTables == {"plan", "planPrice", "planCategory", "promotion", "addon", "city"}

PlanLoads == [plans |-> PlanTables, planBySlug |-> PlanTables,
              planCategories |-> {"planCategory", "plan"},
              addons |-> {"addon"}, promotions |-> {"promotion"}]
ProductLoads == [products |-> {"product"}, productBySlug |-> {"product"}]
GeographyLoads == [cities |-> {"city", "area"},
                   cityAreas |-> {"city", "area", "subArea"},
                   areaSubAreas |-> {"area", "subArea"}]
FaqLoads == [faqs |-> {"faq", "faqStats", "faqCategory"},
             faqCategories |-> {"faqCategory", "faq"}]
CmsLoads == [homepage |-> {"slide", "section", "settings"},
             heroSlides |-> {"slide"}, siteSettings |-> {"settings"},
             cmsPage |-> {"page", "section"}]

\* Key prefixes: geography lives in the catalogue's namespace, and no key that
\* is read lives in coverage's.
CatalogSpace == DOMAIN PlanLoads \cup DOMAIN ProductLoads \cup DOMAIN GeographyLoads
SupportSpace == DOMAIN FaqLoads
CmsSpace == DOMAIN CmsLoads
CoverageSpace == {}

Keys == CatalogSpace \cup SupportSpace \cup CmsSpace

Loads == [k \in Keys |->
    CASE k \in DOMAIN PlanLoads      -> PlanLoads[k]
      [] k \in DOMAIN ProductLoads   -> ProductLoads[k]
      [] k \in DOMAIN GeographyLoads -> GeographyLoads[k]
      [] k \in SupportSpace          -> FaqLoads[k]
      [] k \in CmsSpace              -> CmsLoads[k]]

Tables == UNION {Loads[k] : k \in Keys}

-----------------------------------------------------------------------------
(* The writes: the tables of one commit, and the invalidations after it *)

Writing(tables, clears) == [tables |-> tables, clears |-> clears]

AfterCatalogWrite == <<CatalogSpace>>

\* Defect: a geography write is taken to be about coverage alone.
AfterGeoWriteCoverage == <<CoverageSpace>>
AfterGeoWrite == <<CatalogSpace, CoverageSpace>>
AfterCmsWrite == <<CmsSpace, {"homepage"}>>
AfterFaqWrite == <<SupportSpace>>

PlanWrites == {Writing({"plan", "planPrice"}, AfterCatalogWrite),
               Writing({"plan"}, AfterCatalogWrite)}
PriceWrites == {Writing({"planPrice"}, AfterCatalogWrite)}
AddonWrites == {Writing({"addon"}, AfterCatalogWrite)}
PlanCategoryWrites == {Writing({"planCategory"}, AfterCatalogWrite)}
PromotionWrites == {Writing({"promotion"}, AfterCatalogWrite)}
ProductWrites == {Writing({"product"}, AfterCatalogWrite)}

CityWrites == {Writing({"city"}, AfterGeoWrite)}
AreaWrites == {Writing({"area"}, AfterGeoWrite)}
SubAreaWrites == {Writing({"subArea"}, AfterGeoWrite)}

\* The areas and sub-areas that an import of coverage zones creates.
ImportWrites == {Writing({"area"}, <<>>), Writing({"subArea"}, <<>>)}

FaqWrites == {Writing({"faq", "faqStats"}, AfterFaqWrite)}
FaqCategoryWrites == {Writing({"faqCategory"}, AfterFaqWrite)}
MarkHelpful == Writing({"faqStats"}, <<{"faqs"}>>)
CountView == Writing({"faqStats"}, <<>>)

SlideWrites == {Writing({"slide"}, AfterCmsWrite)}
PageWrites == {Writing({"page"}, AfterCmsWrite)}
SectionWrites == {Writing({"section"}, AfterCmsWrite)}
SettingsWrites == {Writing({"settings"}, AfterCmsWrite)}

Writes == PlanWrites \cup PriceWrites \cup AddonWrites \cup PlanCategoryWrites
          \cup PromotionWrites \cup ProductWrites
          \cup CityWrites \cup AreaWrites \cup SubAreaWrites \cup ImportWrites
          \cup FaqWrites \cup FaqCategoryWrites \cup {MarkHelpful, CountView}
          \cup SlideWrites \cup PageWrites \cup SectionWrites \cup SettingsWrites

ASSUME ContentCacheAssumption ==
    /\ Redis \notin Instances
    /\ Contents \subseteq SUBSET Keys
    /\ Failures \in BOOLEAN

-----------------------------------------------------------------------------
VARIABLES
    content,   \* the keys this behaviour is about; never changes
    cache,     \* cache[s][k]: the entry of key k in store s
    healthy,   \* healthy[i]: instance i takes Redis to be up
    unswept,   \* unswept[s]: the tables with a write that did not clear store s
    req        \* what each request knows and where it stands

vars == <<content, cache, healthy, unswept, req>>

Stores == Instances \cup {Redis}

\* late: the tables written between the loader's read and the entry's store;
\* behind: those written since.
Absent == [held |-> FALSE, late |-> {}, behind |-> {}]
Entry == {Absent} \cup [held: {TRUE}, late: SUBSET Tables, behind: SUBSET Tables]

Idle == [pc |-> "idle"]
Loading == [pc: {"load"}, at: Instances, key: Keys, read: SUBSET Tables,
            late: SUBSET Tables]
Writer == [pc: {"clear", "scan"}, at: Instances, write: Writes, left: SUBSET Keys,
           clears: Seq(SUBSET Keys)]
ReqState == {Idle} \cup Loading \cup Writer

Init ==
    /\ content \in Contents
    /\ cache = [s \in Stores |-> [k \in content |-> Absent]]
    /\ healthy = [i \in Instances |-> FALSE]
    /\ unswept = [s \in Stores |-> {}]
    /\ req = [r \in Requests |-> Idle]

Goto(r, state) == req' = [req EXCEPT ![r] = state]

\* The store an instance reads and fills.
StoreOf(i) == IF healthy[i] THEN Redis ELSE i

\* Defect: a deleted entry keeps what is noted about it.
WithoutHeld(s, ks) == [cache EXCEPT ![s] = [k \in content |->
                         IF k \in ks THEN [cache[s][k] EXCEPT !.held = FALSE]
                         ELSE cache[s][k]]]

\* The entries of store s without those of the keys ks.
Without(s, ks) == [cache EXCEPT ![s] = [k \in content |-> IF k \in ks THEN Absent
                                                          ELSE cache[s][k]]]

\* The tables of which a key of this behaviour shows anything.
Shown == UNION {Loads[k] : k \in content}

Missed(stores, tables) ==
    unswept' = [s \in Stores |-> IF s \in stores THEN unswept[s] \cup (tables \cap Shown)
                                 ELSE unswept[s]]

-----------------------------------------------------------------------------
(* remember *)

\* A hit changes nothing; a miss runs the loader.
Miss(r, i, k) ==
    /\ req[r] = Idle
    /\ ~cache[StoreOf(i)][k].held
    /\ Goto(r, [pc |-> "load", at |-> i, key |-> k, read |-> {}, late |-> {}])
    /\ UNCHANGED <<content, cache, healthy, unswept>>

\* One statement of the loader; each include is a statement of its own.
Load(r, t) ==
    /\ req[r].pc = "load"
    /\ t \in Loads[req[r].key] \ req[r].read
    /\ req' = [req EXCEPT ![r].read = @ \cup {t}]
    /\ UNCHANGED <<content, cache, healthy, unswept>>

\* set: a value that Redis refuses is kept in memory.
Store(r) ==
    /\ req[r].pc = "load"
    /\ req[r].read = Loads[req[r].key]
    /\ \E s \in {StoreOf(req[r].at)} \cup (IF Failures THEN {req[r].at} ELSE {}) :
          /\ cache' = [cache EXCEPT ![s][req[r].key] =
                         [held |-> TRUE, late |-> req[r].late, behind |-> {}]]
          /\ healthy' = [healthy EXCEPT ![req[r].at] = s = Redis]
    /\ Goto(r, Idle)
    /\ UNCHANGED <<content, unswept>>

\* The time to live is over, or the fallback is full and this was its oldest key.
Expire(s, k) ==
    /\ cache[s][k].held
    /\ cache' = Without(s, {k})
    /\ UNCHANGED <<content, healthy, unswept, req>>

-----------------------------------------------------------------------------
(* Admin writes and their invalidations *)

\* The commit.  Entries that show the tables fall behind, loaders that have
\* read them are overtaken, and the other instances will not hear of it.
Commit(r, i, w) ==
    /\ req[r] = Idle
    /\ w.tables \cap Shown # {}
    /\ cache' = [s \in Stores |-> [k \in content |->
                   IF cache[s][k].held
                   THEN [cache[s][k] EXCEPT !.behind = @ \cup (w.tables \cap Loads[k])]
                   ELSE Absent]]
    /\ req' = [q \in Requests |->
                 IF q = r THEN [pc |-> "clear", at |-> i, write |-> w, left |-> {},
                                clears |-> w.clears]
                 ELSE IF req[q].pc = "load"
                 THEN [req[q] EXCEPT !.late = @ \cup (w.tables \cap req[q].read)]
                 ELSE req[q]]
    /\ Missed(IF w.clears = <<>> THEN Stores ELSE Instances \ {i}, w.tables)
    /\ UNCHANGED <<content, healthy>>

\* invalidateNamespace and del clear the instance's own memory at once, and
\* Redis only while it is up.
ClearLocal(r) ==
    /\ req[r].pc = "clear"
    /\ req[r].clears # <<>>
    /\ LET i == req[r].at
           ks == Head(req[r].clears)
       IN  /\ cache' = Without(i, ks)
           /\ Goto(r, [req[r] EXCEPT !.pc = IF healthy[i] THEN "scan" ELSE "clear",
                                     !.left = IF healthy[i] THEN ks \cap content ELSE {},
                                     !.clears = Tail(@)])
           /\ Missed(IF healthy[i] THEN {} ELSE {Redis}, req[r].write.tables)
    /\ UNCHANGED <<content, healthy>>

\* A round of SCAN and DEL passes some of the keys; what is set behind it stays.
ScanBatch(r, ks) ==
    /\ req[r].pc = "scan"
    /\ ks # {} /\ ks \subseteq req[r].left
    /\ cache' = Without(Redis, ks)
    /\ req' = [req EXCEPT ![r].left = @ \ ks]
    /\ UNCHANGED <<content, healthy, unswept>>

ScanEnd(r) ==
    /\ req[r].pc = "scan"
    /\ req[r].left = {}
    /\ req' = [req EXCEPT ![r].pc = "clear"]
    /\ UNCHANGED <<content, cache, healthy, unswept>>

\* A command fails: Redis is taken to be down, and the request goes on.
ScanFail(r) ==
    /\ Failures
    /\ req[r].pc = "scan"
    /\ healthy' = [healthy EXCEPT ![req[r].at] = FALSE]
    /\ req' = [req EXCEPT ![r].pc = "clear", ![r].left = {}]
    /\ Missed({Redis}, req[r].write.tables)
    /\ UNCHANGED <<content, cache>>

Finish(r) ==
    /\ req[r].pc = "clear"
    /\ req[r].clears = <<>>
    /\ Goto(r, Idle)
    /\ UNCHANGED <<content, cache, healthy, unswept>>

-----------------------------------------------------------------------------
(* Redis, and failures *)

Ready(i) ==
    /\ ~healthy[i]
    /\ healthy' = [healthy EXCEPT ![i] = TRUE]
    /\ UNCHANGED <<content, cache, unswept, req>>

Error(i) ==
    /\ Failures
    /\ healthy[i]
    /\ healthy' = [healthy EXCEPT ![i] = FALSE]
    /\ UNCHANGED <<content, cache, unswept, req>>

\* A loader throws, or the process dies: a writer's invalidation is left undone.
Abandon(r) ==
    /\ Failures
    /\ req[r] # Idle
    /\ Missed(IF req[r].pc = "load" THEN {} ELSE {req[r].at, Redis},
              IF req[r].pc = "load" THEN {} ELSE req[r].write.tables)
    /\ Goto(r, Idle)
    /\ UNCHANGED <<content, cache, healthy>>

Read(r) == \/ \E i \in Instances, k \in content : Miss(r, i, k)
           \/ \E t \in Tables : Load(r, t)
           \/ Store(r)
Sweep(r) == \/ ClearLocal(r) \/ ScanEnd(r) \/ ScanFail(r) \/ Finish(r)
            \/ \E ks \in SUBSET content : ScanBatch(r, ks)

Next ==
    \/ \E r \in Requests : \/ Read(r) \/ Sweep(r) \/ Abandon(r)
                           \/ \E i \in Instances, w \in Writes : Commit(r, i, w)
    \/ \E i \in Instances : Ready(i) \/ Error(i)
    \/ \E s \in Stores, k \in content : Expire(s, k)

Spec == Init /\ [][Next]_vars

-----------------------------------------------------------------------------
(* Properties *)

TypeOK ==
    /\ content \in SUBSET Keys
    /\ cache \in [Stores -> [content -> Entry]]
    /\ healthy \in [Instances -> BOOLEAN]
    /\ unswept \in [Stores -> SUBSET Tables]
    /\ req \in [Requests -> ReqState]

\* Request r has yet to clear the key k in store s.
Ahead(r, s, k) ==
    /\ req[r].pc \in {"clear", "scan"}
    /\ s \in {req[r].at, Redis}
    /\ \/ \E n \in DOMAIN req[r].clears : k \in req[r].clears[n]
       \/ s = Redis /\ k \in req[r].left

\* "Redis namespaces are invalidated on admin writes": an entry that is behind
\* a table is about to be cleared, in whatever service that table is written,
\* unless a write to the table went without clearing the store.
BehindIsCleared ==
    \A s \in Stores, k \in content : \A t \in cache[s][k].behind :
        \/ t \in unswept[s]
        \/ \E r \in Requests : Ahead(r, s, k) /\ t \in req[r].write.tables
=============================================================================
