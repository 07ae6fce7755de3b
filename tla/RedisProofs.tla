---------------------------- MODULE RedisProofs ----------------------------
(***************************************************************************)
(* Theorems about the two components that stand on Redis, for any number   *)
(* of instances, requests, keys, workers and channels: ContentCache, whose *)
(* entries are not left behind a write, and Notifications, whose messages  *)
(* leave once and whose rows tell the truth.                               *)
(***************************************************************************)
EXTENDS ContentCache, Notifications, FiniteSetTheorems, TLAPS

CatalogTables == PlanTables \cup {"product", "area", "subArea"}
SupportTables == {"faq", "faqStats", "faqCategory"}
CmsTables == {"slide", "section", "settings", "page"}

(* The keys by name. *)
LEMMA KeyNames ==
    /\ DOMAIN PlanLoads = {"plans", "planBySlug", "planCategories", "addons", "promotions"}
    /\ DOMAIN ProductLoads = {"products", "productBySlug"}
    /\ DOMAIN GeographyLoads = {"cities", "cityAreas", "areaSubAreas"}
    /\ SupportSpace = {"faqs", "faqCategories"}
    /\ CmsSpace = {"homepage", "heroSlides", "siteSettings", "cmsPage"}
  BY DEF PlanLoads, ProductLoads, GeographyLoads, SupportSpace, FaqLoads, CmsSpace, CmsLoads

(* What a key shows lies in the tables of its own namespace. *)
LEMMA SpaceTables ==
    /\ \A k \in CatalogSpace : Loads[k] \subseteq CatalogTables
    /\ \A k \in SupportSpace : Loads[k] \subseteq SupportTables
    /\ \A k \in CmsSpace : Loads[k] \subseteq CmsTables
  <1>1. \A k \in DOMAIN PlanLoads : Loads[k] \subseteq CatalogTables
    <2>1. \A k \in DOMAIN PlanLoads : PlanLoads[k] \subseteq CatalogTables
      BY KeyNames DEF PlanLoads, PlanTables, CatalogTables
    <2>2. \A k \in DOMAIN PlanLoads : k \in Keys /\ Loads[k] = PlanLoads[k]
      BY KeyNames DEF Keys, CatalogSpace, Loads
    <2>q. QED BY <2>1, <2>2
  <1>2. \A k \in DOMAIN ProductLoads : Loads[k] \subseteq CatalogTables
    <2>1. \A k \in DOMAIN ProductLoads : ProductLoads[k] \subseteq CatalogTables
      BY KeyNames DEF ProductLoads, CatalogTables
    <2>2. \A k \in DOMAIN ProductLoads : k \in Keys /\ Loads[k] = ProductLoads[k]
      BY KeyNames DEF Keys, CatalogSpace, Loads
    <2>q. QED BY <2>1, <2>2
  <1>3. \A k \in DOMAIN GeographyLoads : Loads[k] \subseteq CatalogTables
    <2>1. \A k \in DOMAIN GeographyLoads : GeographyLoads[k] \subseteq CatalogTables
      BY KeyNames DEF GeographyLoads, PlanTables, CatalogTables
    <2>2. \A k \in DOMAIN GeographyLoads : k \in Keys /\ Loads[k] = GeographyLoads[k]
      BY KeyNames DEF Keys, CatalogSpace, Loads
    <2>q. QED BY <2>1, <2>2
  <1>4. \A k \in SupportSpace : Loads[k] \subseteq SupportTables
    <2>1. \A k \in SupportSpace : FaqLoads[k] \subseteq SupportTables
      BY KeyNames DEF FaqLoads, SupportTables
    <2>2. \A k \in SupportSpace : k \in Keys /\ Loads[k] = FaqLoads[k]
      BY KeyNames DEF Keys, CatalogSpace, Loads
    <2>q. QED BY <2>1, <2>2
  <1>5. \A k \in CmsSpace : Loads[k] \subseteq CmsTables
    <2>1. \A k \in CmsSpace : CmsLoads[k] \subseteq CmsTables
      BY KeyNames DEF CmsLoads, CmsTables
    <2>2. \A k \in CmsSpace : k \in Keys /\ Loads[k] = CmsLoads[k]
      BY KeyNames DEF Keys, CatalogSpace, Loads
    <2>q. QED BY <2>1, <2>2
  <1>q. QED BY <1>1, <1>2, <1>3, <1>4, <1>5 DEF CatalogSpace

(* The votes and views of a question show in the searches alone. *)
LEMMA StatsShow == \A k \in Keys : "faqStats" \in Loads[k] => k = "faqs"
  <1>1. \A k \in SupportSpace : k # "faqs" => "faqStats" \notin FaqLoads[k]
    BY KeyNames DEF FaqLoads
  <1>2. \A k \in SupportSpace : Loads[k] = FaqLoads[k]
    BY KeyNames DEF Keys, CatalogSpace, Loads
  <1>3. "faqStats" \notin CatalogTables /\ "faqStats" \notin CmsTables
    BY DEF CatalogTables, PlanTables, CmsTables
  <1>q. QED BY <1>1, <1>2, <1>3, SpaceTables DEF Keys

(* What an invalidation that a write asks for looks like. *)
LEMMA WriteKinds ==
    ASSUME NEW w \in Writes
    PROVE  \/ w.clears = <<>>
           \/ w.tables \subseteq CatalogTables /\ w.clears = <<CatalogSpace>>
           \/ w.tables \subseteq CatalogTables /\ w.clears = <<CatalogSpace, CoverageSpace>>
           \/ w.tables \subseteq SupportTables /\ w.clears = <<SupportSpace>>
           \/ w.tables = {"faqStats"} /\ w.clears = <<{"faqs"}>>
           \/ w.tables \subseteq CmsTables /\ w.clears = <<CmsSpace, {"homepage"}>>
  <1>1. CASE w \in PlanWrites \cup PriceWrites \cup AddonWrites \cup PlanCategoryWrites
                  \cup PromotionWrites \cup ProductWrites
    BY <1>1 DEF PlanWrites, PriceWrites, AddonWrites, PlanCategoryWrites, PromotionWrites,
                ProductWrites, Writing, AfterCatalogWrite, CatalogTables, PlanTables
  <1>2. CASE w \in CityWrites \cup AreaWrites \cup SubAreaWrites \cup ImportWrites
    BY <1>2 DEF CityWrites, AreaWrites, SubAreaWrites, ImportWrites, Writing, AfterGeoWrite,
                CatalogTables, PlanTables
  <1>3. CASE w \in FaqWrites \cup FaqCategoryWrites \cup {MarkHelpful, CountView}
    BY <1>3 DEF FaqWrites, FaqCategoryWrites, MarkHelpful, CountView, Writing, AfterFaqWrite,
                SupportTables
  <1>4. CASE w \in SlideWrites \cup PageWrites \cup SectionWrites \cup SettingsWrites
    BY <1>4 DEF SlideWrites, PageWrites, SectionWrites, SettingsWrites, Writing, AfterCmsWrite,
                CmsTables
  <1>q. QED BY <1>1, <1>2, <1>3, <1>4 DEF Writes

(* A write that clears anything clears every key that shows what it wrote. *)
LEMMA Covers ==
    ASSUME NEW w \in Writes, NEW k \in Keys, NEW t \in w.tables \cap Loads[k],
           w.clears # <<>>
    PROVE  \E n \in DOMAIN w.clears : k \in w.clears[n]
  <1>1. CatalogTables \cap SupportTables = {} /\ CatalogTables \cap CmsTables = {}
        /\ SupportTables \cap CmsTables = {}
    BY DEF CatalogTables, PlanTables, SupportTables, CmsTables
  <1>2. CASE t \in CatalogTables
    <2>1. k \in CatalogSpace
      BY <1>1, <1>2, SpaceTables DEF Keys
    <2>2. w.clears[1] = CatalogSpace /\ 1 \in DOMAIN w.clears
      <3>1. "faqStats" \in SupportTables
        BY DEF SupportTables
      <3>q. QED BY <3>1, <1>1, <1>2, WriteKinds
    <2>q. QED BY <2>1, <2>2
  <1>3. CASE t \in SupportTables
    <2>1. k \in SupportSpace
      BY <1>1, <1>3, SpaceTables DEF Keys
    <2>2. \/ w.clears = <<SupportSpace>>
          \/ t = "faqStats" /\ w.clears = <<{"faqs"}>>
      BY <1>1, <1>3, WriteKinds
    <2>3. 1 \in DOMAIN w.clears /\ k \in w.clears[1]
      BY <2>1, <2>2, StatsShow
    <2>q. QED BY <2>3
  <1>4. CASE t \in CmsTables
    <2>1. k \in CmsSpace
      BY <1>1, <1>4, SpaceTables DEF Keys
    <2>2. w.clears = <<CmsSpace, {"homepage"}>>
      <3>1. "faqStats" \in SupportTables
        BY DEF SupportTables
      <3>q. QED BY <3>1, <1>1, <1>4, WriteKinds
    <2>q. QED BY <2>1, <2>2
  <1>q. QED BY <1>2, <1>3, <1>4, SpaceTables DEF Keys

LEMMA ClearsType == \A w \in Writes : w.clears \in Seq(SUBSET Keys)
  <1>1. CatalogSpace \subseteq Keys /\ SupportSpace \subseteq Keys /\ CmsSpace \subseteq Keys
        /\ CoverageSpace \subseteq Keys /\ {"faqs"} \subseteq Keys /\ {"homepage"} \subseteq Keys
    BY KeyNames DEF Keys, CoverageSpace
  <1>2. <<>> \in Seq(SUBSET Keys) /\ <<CatalogSpace>> \in Seq(SUBSET Keys)
        /\ <<SupportSpace>> \in Seq(SUBSET Keys) /\ <<{"faqs"}>> \in Seq(SUBSET Keys)
    BY <1>1
  <1>3. <<CatalogSpace, CoverageSpace>> \in Seq(SUBSET Keys)
    BY <1>1
  <1>4. <<CmsSpace, {"homepage"}>> \in Seq(SUBSET Keys)
    BY <1>1
  <1>q. QED BY <1>2, <1>3, <1>4, WriteKinds

-----------------------------------------------------------------------------
(* Types *)

\* The invariant of the types: between two invalidations nothing is left to scan.
Resting == \A r \in Requests : req[r].pc = "clear" => req[r].left = {}
TypeInv == TypeOK /\ Resting

LEMMA InitTypes == Init => TypeInv
  BY ContentCacheAssumption DEF Init, TypeInv, TypeOK, Resting, Entry, Absent, ReqState, Idle

(* What a request in each place has in its record. *)
LEMMA Places ==
    ASSUME TypeInv, NEW r \in Requests
    PROVE  /\ req[r].pc = "load" => req[r] \in Loading
           /\ req[r].pc \in {"clear", "scan"} => req[r] \in Writer
           /\ req[r].pc \in {"idle", "load", "clear", "scan"}
           /\ req[r].pc = "idle" => req[r] = Idle
  BY DEF TypeInv, TypeOK, ReqState, Idle, Loading, Writer

LEMMA HeldEntries ==
    ASSUME NEW e \in Entry, e.held
    PROVE  e \in [held: {TRUE}, late: SUBSET Tables, behind: SUBSET Tables]
  <1>1. Absent.held = FALSE
    BY DEF Absent
  <1>2. e # Absent
    BY <1>1
  <1>q. QED BY <1>2 DEF Entry

LEMMA GotoTypes ==
    ASSUME TypeInv, NEW r \in Requests, NEW st \in ReqState, Goto(r, st),
           st.pc = "clear" => st.left = {}
    PROVE  req' \in [Requests -> ReqState] /\ Resting'
  BY DEF Goto, TypeInv, TypeOK, Resting

LEMMA WithoutTypes ==
    ASSUME TypeInv, NEW s \in Stores, NEW ks
    PROVE  Without(s, ks) \in [Stores -> [content -> Entry]]
  BY DEF Without, TypeInv, TypeOK, Entry

LEMMA MissedTypes ==
    ASSUME TypeInv, NEW ss, NEW ts, Missed(ss, ts)
    PROVE  unswept' \in [Stores -> SUBSET Tables]
  <1>1. Shown \subseteq Tables
    BY DEF Shown, Tables, TypeInv, TypeOK
  <1>q. QED BY <1>1 DEF Missed, TypeInv, TypeOK

LEMMA StepTypes == TypeInv /\ [Next]_vars => TypeInv'
  <1> SUFFICES ASSUME TypeInv, [Next]_vars PROVE TypeInv'
    OBVIOUS
  <1> USE DEF TypeInv
  <1>u. CASE UNCHANGED vars
    BY <1>u DEF vars, TypeOK, Resting
  <1>1. ASSUME NEW r \in Requests, NEW i \in Instances, NEW k \in content, Miss(r, i, k)
        PROVE  TypeInv'
    <2> DEFINE st == [pc |-> "load", at |-> i, key |-> k, read |-> {}, late |-> {}]
    <2>1. st \in ReqState /\ st.pc # "clear"
      BY DEF ReqState, Loading, TypeOK
    <2> HIDE DEF st
    <2>2. Goto(r, st)
      BY <1>1 DEF Miss, st
    <2>q. QED BY <1>1, <2>1, <2>2, GotoTypes DEF Miss, TypeOK
  <1>2. ASSUME NEW r \in Requests, NEW t \in Tables, Load(r, t)
        PROVE  TypeInv'
    <2> DEFINE st == [req[r] EXCEPT !.read = @ \cup {t}]
    <2>1. req[r] \in Loading
      BY <1>2, Places DEF Load
    <2>2. st \in ReqState /\ st.pc # "clear"
      BY <2>1 DEF ReqState, Loading
    <2>3. Goto(r, st)
      BY <1>2 DEF Load, Goto, TypeOK
    <2> HIDE DEF st
    <2>q. QED BY <1>2, <2>2, <2>3, GotoTypes DEF Load, TypeOK
  <1>3. ASSUME NEW r \in Requests, Store(r)
        PROVE  TypeInv'
    <2>1. req[r] \in Loading
      BY <1>3, Places DEF Store
    <2>2. PICK s \in {StoreOf(req[r].at)} \cup (IF Failures THEN {req[r].at} ELSE {}) :
            /\ cache' = [cache EXCEPT ![s][req[r].key] =
                           [held |-> TRUE, late |-> req[r].late, behind |-> {}]]
            /\ healthy' = [healthy EXCEPT ![req[r].at] = s = Redis]
      BY <1>3 DEF Store
    <2> DEFINE e == [held |-> TRUE, late |-> req[r].late, behind |-> {}]
    <2>3. e \in Entry
      BY <2>1 DEF Entry, Loading
    <2> HIDE DEF e
    <2>4. cache' = [cache EXCEPT ![s][req[r].key] = e]
      BY <2>2 DEF e
    <2>5. cache' \in [Stores -> [content -> Entry]]
      BY <2>3, <2>4 DEF TypeOK
    <2>6. healthy' \in [Instances -> BOOLEAN]
      BY <2>2 DEF TypeOK
    <2>7. Idle \in ReqState /\ Idle.pc # "clear"
      BY DEF ReqState, Idle
    <2>q. QED BY <1>3, <2>5, <2>6, <2>7, GotoTypes DEF Store, TypeOK
  <1>4. ASSUME NEW s \in Stores, NEW k \in content, Expire(s, k)
        PROVE  TypeInv'
    BY <1>4, WithoutTypes DEF Expire, TypeOK, Resting
  <1>5. ASSUME NEW r \in Requests, NEW i \in Instances, NEW w \in Writes, Commit(r, i, w)
        PROVE  TypeInv'
    <2>1. \A k \in content : w.tables \cap Loads[k] \subseteq Tables
      BY DEF Tables, TypeOK
    <2> DEFINE seen(s, k) == IF cache[s][k].held
                             THEN [cache[s][k] EXCEPT !.behind = @ \cup (w.tables \cap Loads[k])]
                             ELSE Absent
    <2>2a. ASSUME NEW s \in Stores, NEW k \in content
           PROVE  seen(s, k) \in Entry
      <3>1. cache[s][k] \in Entry
        BY DEF TypeOK
      <3>2. Absent \in Entry
        BY DEF Entry
      <3>3. CASE cache[s][k].held
        <4>1. cache[s][k] \in [held: {TRUE}, late: SUBSET Tables, behind: SUBSET Tables]
          BY <3>1, <3>3, HeldEntries
        <4> DEFINE b == cache[s][k].behind \cup (w.tables \cap Loads[k])
        <4>2. b \in SUBSET Tables
          BY <2>1, <4>1
        <4> HIDE DEF b
        <4>3. [cache[s][k] EXCEPT !.behind = b] \in Entry
          BY <4>1, <4>2 DEF Entry
        <4>q. QED BY <3>3, <4>3 DEF b
      <3>4. CASE ~cache[s][k].held
        BY <3>2, <3>4
      <3>q. QED BY <3>3, <3>4
    <2>2b. cache' = [s \in Stores |-> [k \in content |-> seen(s, k)]]
      BY <1>5 DEF Commit
    <2> HIDE DEF seen
    <2>2. cache' \in [Stores -> [content -> Entry]]
      BY <2>2a, <2>2b
    <2> DEFINE st == [pc |-> "clear", at |-> i, write |-> w, left |-> {}, clears |-> w.clears]
    <2>3. st \in ReqState /\ st.left = {}
      BY ClearsType DEF ReqState, Writer
    <2> HIDE DEF st
    <2>4. ASSUME NEW q \in Requests
          PROVE  req'[q] \in ReqState /\ (req'[q].pc = "clear" => req'[q].left = {})
      <3>1. CASE q = r
        BY <1>5, <2>3, <3>1 DEF Commit, st
      <3>2. CASE q # r /\ req[q].pc = "load"
        <4>1. req[q] \in Loading
          BY <3>2, Places
        <4>2. req'[q] = [req[q] EXCEPT !.late = @ \cup (w.tables \cap req[q].read)]
          BY <1>5, <3>2 DEF Commit
        <4>3. req'[q] \in Loading
          BY <4>1, <4>2 DEF Loading
        <4>q. QED BY <4>3 DEF ReqState, Loading
      <3>3. CASE q # r /\ req[q].pc # "load"
        BY <1>5, <3>3 DEF Commit, TypeOK, Resting
      <3>q. QED BY <3>1, <3>2, <3>3
    <2>5. req' \in [Requests -> ReqState] /\ Resting'
      <3>1. \E f : req' = [q \in Requests |-> f[q]]
        BY <1>5 DEF Commit
      <3>q. QED BY <2>4, <3>1 DEF Resting
    <2>q. QED BY <1>5, <2>2, <2>5, MissedTypes DEF Commit, TypeOK
  <1>6. ASSUME NEW r \in Requests, ClearLocal(r)
        PROVE  TypeInv'
    <2>1. req[r] \in Writer /\ req[r].left = {}
      BY <1>6, Places DEF ClearLocal, Resting
    <2> DEFINE i == req[r].at
               ks == Head(req[r].clears)
               st == [req[r] EXCEPT !.pc = IF healthy[i] THEN "scan" ELSE "clear",
                                    !.left = IF healthy[i] THEN ks \cap content ELSE {},
                                    !.clears = Tail(@)]
    <2>2. Tail(req[r].clears) \in Seq(SUBSET Keys) /\ ks \cap content \in SUBSET Keys
      BY <1>6, <2>1 DEF Writer, ClearLocal, TypeOK
    <2>3. st \in ReqState
      BY <2>1, <2>2 DEF ReqState, Writer
    <2>4. st.pc = "clear" => st.left = {}
      BY <2>1 DEF Writer
    <2>5. i \in Stores
      BY <2>1 DEF Writer, Stores
    <2>6. Goto(r, st)
      BY <1>6 DEF ClearLocal
    <2>7. cache' \in [Stores -> [content -> Entry]]
      BY <1>6, <2>5, WithoutTypes DEF ClearLocal
    <2>8. unswept' \in [Stores -> SUBSET Tables]
      BY <1>6, MissedTypes DEF ClearLocal
    <2> HIDE DEF st
    <2>q. QED BY <1>6, <2>3, <2>4, <2>6, <2>7, <2>8, GotoTypes DEF ClearLocal, TypeOK
  <1>7. ASSUME NEW r \in Requests, NEW ks \in SUBSET content, ScanBatch(r, ks)
        PROVE  TypeInv'
    <2> DEFINE st == [req[r] EXCEPT !.left = @ \ ks]
    <2>1. req[r] \in Writer
      BY <1>7, Places DEF ScanBatch
    <2>2. st \in ReqState /\ st.pc # "clear"
      BY <1>7, <2>1 DEF ReqState, Writer, ScanBatch
    <2>3. Goto(r, st)
      BY <1>7 DEF ScanBatch, Goto, TypeOK
    <2>4. cache' \in [Stores -> [content -> Entry]]
      BY <1>7, WithoutTypes DEF ScanBatch, Stores
    <2> HIDE DEF st
    <2>q. QED BY <1>7, <2>2, <2>3, <2>4, GotoTypes DEF ScanBatch, TypeOK
  <1>8. ASSUME NEW r \in Requests, ScanEnd(r)
        PROVE  TypeInv'
    <2> DEFINE st == [req[r] EXCEPT !.pc = "clear"]
    <2>1. req[r] \in Writer /\ req[r].left = {}
      BY <1>8, Places DEF ScanEnd
    <2>2. st \in ReqState /\ st.left = {}
      BY <2>1 DEF ReqState, Writer
    <2>3. Goto(r, st)
      BY <1>8 DEF ScanEnd, Goto, TypeOK
    <2> HIDE DEF st
    <2>q. QED BY <1>8, <2>2, <2>3, GotoTypes DEF ScanEnd, TypeOK
  <1>9. ASSUME NEW r \in Requests, ScanFail(r)
        PROVE  TypeInv'
    <2> DEFINE st == [req[r] EXCEPT !.pc = "clear", !.left = {}]
    <2>1. req[r] \in Writer
      BY <1>9, Places DEF ScanFail
    <2>2. st \in ReqState /\ st.left = {}
      BY <2>1 DEF ReqState, Writer
    <2>3. Goto(r, st)
      BY <1>9, <2>1 DEF ScanFail, Goto, TypeOK
    <2> HIDE DEF st
    <2>4. healthy' \in [Instances -> BOOLEAN]
      BY <1>9 DEF ScanFail, TypeOK
    <2>q. QED BY <1>9, <2>2, <2>3, <2>4, GotoTypes, MissedTypes DEF ScanFail, TypeOK
  <1>10. ASSUME NEW r \in Requests, Finish(r)
         PROVE  TypeInv'
    <2>1. Idle \in ReqState /\ Idle.pc # "clear"
      BY DEF ReqState, Idle
    <2>q. QED BY <1>10, <2>1, GotoTypes DEF Finish, TypeOK
  <1>11. ASSUME NEW r \in Requests, Abandon(r)
         PROVE  TypeInv'
    <2>1. Idle \in ReqState /\ Idle.pc # "clear"
      BY DEF ReqState, Idle
    <2>q. QED BY <1>11, <2>1, GotoTypes, MissedTypes DEF Abandon, TypeOK
  <1>12. ASSUME NEW i \in Instances, Ready(i) \/ Error(i)
         PROVE  TypeInv'
    BY <1>12 DEF Ready, Error, TypeOK, Resting
  <1>q. QED
    BY <1>u, <1>1, <1>2, <1>3, <1>4, <1>5, <1>6, <1>7, <1>8, <1>9, <1>10, <1>11, <1>12
       DEF Next, Read, Sweep

(* Every reachable state is well typed, and a request that is between two    *)
(* invalidations has finished the scan of the last.                          *)
THEOREM TypeCorrect == Spec => []TypeInv
  BY InitTypes, StepTypes, PTL DEF Spec

(* TypeOK: every reachable state of the cache is well typed. *)
THEOREM TypesAreCorrect == Spec => []TypeOK
  <1>1. TypeInv => TypeOK
    BY DEF TypeInv
  <1>q. QED BY <1>1, TypeCorrect, PTL

-----------------------------------------------------------------------------
(* Invalidation *)

(* What is yet to be cleared of the key k in store s, for a write to t. *)
Coming(s, k, t) == \E r \in Requests : Ahead(r, s, k) /\ t \in req[r].write.tables

(* The invariant: what an entry is behind is shown by its key, and is         *)
(* cleared later unless the write was not announced to the store.             *)
Swept == \A s \in Stores, k \in content : \A t \in cache[s][k].behind :
            t \in Loads[k] /\ (t \in unswept[s] \/ Coming(s, k, t))

(* Only an entry's key can show what it is behind, and only writers clear.   *)
LEMMA SweptFrame ==
    ASSUME Swept, content' = content,
           \A s \in Stores, k \in content : cache'[s][k].behind \subseteq cache[s][k].behind,
           \A s \in Stores : unswept[s] \subseteq unswept'[s],
           \A s \in Stores, k \in content : \A t \in cache'[s][k].behind :
               Coming(s, k, t) => t \in unswept'[s] \/ Coming(s, k, t)'
    PROVE  Swept'
  BY DEF Swept, Stores

LEMMA AheadKept ==
    ASSUME NEW q \in Requests, NEW s, NEW k, req'[q] = req[q]
    PROVE  Ahead(q, s, k)' <=> Ahead(q, s, k)
  BY DEF Ahead

LEMMA ComingKept ==
    ASSUME NEW s, NEW k, NEW t, Coming(s, k, t),
           \A q \in Requests : req[q].pc \in {"clear", "scan"} => req'[q] = req[q]
    PROVE  Coming(s, k, t)'
  <1>1. PICK q \in Requests : Ahead(q, s, k) /\ t \in req[q].write.tables
    BY DEF Coming
  <1>2. req[q].pc \in {"clear", "scan"}
    BY <1>1 DEF Ahead
  <1>3. req'[q] = req[q]
    BY <1>2
  <1>4. Ahead(q, s, k)' <=> Ahead(q, s, k)
    BY <1>3, AheadKept
  <1>q. QED BY <1>1, <1>3, <1>4 DEF Coming

(* When one request alone moves, only what it was to clear is in doubt.      *)
LEMMA ComingOfOthers ==
    ASSUME NEW r \in Requests, NEW s, NEW k, NEW t, Coming(s, k, t),
           \A q \in Requests \ {r} : req'[q] = req[q],
           ~Coming(s, k, t)'
    PROVE  Ahead(r, s, k) /\ t \in req[r].write.tables
  <1>1. PICK q \in Requests : Ahead(q, s, k) /\ t \in req[q].write.tables
    BY DEF Coming
  <1>2. CASE q # r
    <2>1. req'[q] = req[q] /\ (Ahead(q, s, k)' <=> Ahead(q, s, k))
      BY <1>2, AheadKept
    <2>q. QED BY <1>1, <2>1 DEF Coming
  <1>q. QED BY <1>1, <1>2

LEMMA MissedGrows ==
    ASSUME TypeInv, NEW ss, NEW ts, Missed(ss, ts)
    PROVE  /\ \A s \in Stores : unswept[s] \subseteq unswept'[s]
           /\ \A s \in Stores \cap ss : ts \cap Shown \subseteq unswept'[s]
  BY DEF Missed, TypeInv, TypeOK

LEMMA WithoutShows ==
    ASSUME TypeInv, NEW z \in Stores, NEW ks, cache' = Without(z, ks)
    PROVE  /\ \A s \in Stores, k \in content : cache'[s][k].behind \subseteq cache[s][k].behind
           /\ \A k \in ks \cap content : cache'[z][k].behind = {}
  BY DEF Without, Absent, TypeInv, TypeOK

LEMMA BehindIsShown ==
    ASSUME Swept, NEW s \in Stores, NEW k \in content, NEW t \in cache[s][k].behind
    PROVE  t \in Loads[k] /\ t \in Shown
  BY DEF Swept, Shown

LEMMA InitSwept == Init => Swept
  BY DEF Init, Swept, Absent

(* A reader's steps: entries are filled anew, and no writer moves. *)
LEMMA ReadSwept ==
    ASSUME TypeInv, Swept, NEW r \in Requests, Read(r)
    PROVE  Swept'
  <1>1. content' = content /\ unswept' = unswept
    BY DEF Read, Miss, Load, Store
  <1>2. req[r].pc \in {"idle", "load"} /\ \A q \in Requests \ {r} : req'[q] = req[q]
    BY DEF Read, Miss, Load, Store, Goto, Idle, TypeInv, TypeOK
  <1>3. \A q \in Requests : req[q].pc \in {"clear", "scan"} => req'[q] = req[q]
    BY <1>2
  <1>4. \A s \in Stores, k \in content : cache'[s][k].behind \subseteq cache[s][k].behind
    <2>1. CASE Store(r)
      <3>1. PICK z : cache' = [cache EXCEPT ![z][req[r].key] =
                                 [held |-> TRUE, late |-> req[r].late, behind |-> {}]]
        BY <2>1 DEF Store
      <3>q. QED BY <3>1 DEF TypeInv, TypeOK
    <2>2. CASE cache' = cache
      BY <2>2
    <2>q. QED BY <2>1, <2>2 DEF Read, Miss, Load
  <1>q. QED BY <1>1, <1>3, <1>4, SweptFrame, ComingKept

(* A commit: what falls behind is announced to the writer's own stores.      *)
LEMMA CommitSwept ==
    ASSUME TypeInv, Swept, NEW r \in Requests, NEW i \in Instances, NEW w \in Writes,
           Commit(r, i, w)
    PROVE  Swept'
  <1> DEFINE ss == IF w.clears = <<>> THEN Stores ELSE Instances \ {i}
  <1>1. /\ content' = content
        /\ \A s \in Stores : unswept[s] \subseteq unswept'[s]
        /\ \A s \in Stores \cap ss : w.tables \cap Shown \subseteq unswept'[s]
    BY MissedGrows DEF Commit
  <1>2. \A q \in Requests : req[q].pc \in {"clear", "scan"} => req'[q] = req[q]
    BY DEF Commit, Idle, TypeInv, TypeOK
  <1>3. req'[r] = [pc |-> "clear", at |-> i, write |-> w, left |-> {}, clears |-> w.clears]
    BY DEF Commit
  <1>4. ASSUME NEW s \in Stores, NEW k \in content
        PROVE  cache'[s][k].behind \subseteq cache[s][k].behind \cup (w.tables \cap Loads[k])
    <2>1. cache'[s][k] = IF cache[s][k].held
                         THEN [cache[s][k] EXCEPT !.behind = @ \cup (w.tables \cap Loads[k])]
                         ELSE Absent
      BY DEF Commit
    <2>2. CASE cache[s][k].held
      <3>1. cache[s][k] \in [held: {TRUE}, late: SUBSET Tables, behind: SUBSET Tables]
        <4>1. cache[s][k] \in Entry
          BY DEF TypeInv, TypeOK
        <4>q. QED BY <2>2, <4>1, HeldEntries
      <3>q. QED BY <2>1, <2>2, <3>1
    <2>3. CASE ~cache[s][k].held
      BY <2>1, <2>3 DEF Absent
    <2>q. QED BY <2>2, <2>3
  <1>5. ASSUME NEW s \in Stores, NEW k \in content, NEW t \in cache'[s][k].behind
        PROVE  t \in Loads[k] /\ (t \in unswept'[s] \/ Coming(s, k, t)')
    <2>1. CASE t \in cache[s][k].behind
      <3>1. t \in Loads[k] /\ (t \in unswept[s] \/ Coming(s, k, t))
        BY <2>1 DEF Swept
      <3>q. QED BY <1>1, <1>2, <3>1, ComingKept
    <2>2. CASE t \in w.tables \cap Loads[k]
      <3>1. t \in w.tables \cap Shown
        BY <2>2 DEF Shown
      <3>2. CASE s \in ss
        BY <1>1, <2>2, <3>1, <3>2
      <3>3. CASE s \notin ss
        <4>1. w.clears # <<>> /\ s \in {i, Redis}
          BY <3>3 DEF Stores
        <4>2. k \in Keys
          BY DEF TypeInv, TypeOK
        <4>3. PICK n \in DOMAIN w.clears : k \in w.clears[n]
          BY <2>2, <4>1, <4>2, Covers
        <4>4. Ahead(r, s, k)'
          BY <1>3, <4>1, <4>3 DEF Ahead
        <4>q. QED BY <1>3, <2>2, <4>4 DEF Coming
      <3>q. QED BY <3>2, <3>3
    <2>q. QED BY <1>4, <2>1, <2>2
  <1>q. QED BY <1>1, <1>5 DEF Swept, Stores

(* An invalidation's steps: what leaves the list of keys to clear has been    *)
(* cleared, or the store is noted as missed.                                  *)
LEMMA ClearLocalSwept ==
    ASSUME TypeInv, Swept, NEW r \in Requests, ClearLocal(r)
    PROVE  Swept'
  <1> DEFINE i == req[r].at
             ks == Head(req[r].clears)
             cs == req[r].clears
  <1>1. req[r] \in Writer /\ req[r].left = {} /\ req[r].pc = "clear"
    BY Places DEF ClearLocal, TypeInv, Resting
  <1>2. i \in Stores /\ i # Redis
    BY <1>1, ContentCacheAssumption DEF Writer, Stores
  <1>3. cs \in Seq(SUBSET Keys) /\ cs # <<>>
    BY <1>1 DEF Writer, ClearLocal
  <1>4. cache' = Without(i, ks) /\ content' = content
        /\ Missed(IF healthy[i] THEN {} ELSE {Redis}, req[r].write.tables)
    BY DEF ClearLocal
  <1>5. \A q \in Requests \ {r} : req'[q] = req[q]
    BY DEF ClearLocal, Goto, TypeInv, TypeOK
  <1>6. req'[r] = [req[r] EXCEPT !.pc = IF healthy[i] THEN "scan" ELSE "clear",
                                 !.left = IF healthy[i] THEN ks \cap content ELSE {},
                                 !.clears = Tail(@)]
    BY DEF ClearLocal, Goto, TypeInv, TypeOK
  <1>7. /\ req'[r].pc \in {"clear", "scan"} /\ req'[r].at = i
        /\ req'[r].left = IF healthy[i] THEN ks \cap content ELSE {}
        /\ req'[r].clears = Tail(cs) /\ req'[r].write = req[r].write
    BY <1>1, <1>6 DEF Writer
  <1>8. ASSUME NEW n \in DOMAIN cs
        PROVE  cs[n] = ks \/ \E m \in DOMAIN Tail(cs) : Tail(cs)[m] = cs[n]
    <2>1. CASE n = 1
      BY <1>3, <2>1
    <2>2. CASE n # 1
      <3>1. n - 1 \in DOMAIN Tail(cs) /\ Tail(cs)[n - 1] = cs[n]
        BY <1>3, <2>2
      <3>q. QED BY <3>1
    <2>q. QED BY <2>1, <2>2
  <1>8a. \A k \in ks \cap content : cache'[i][k].behind = {}
    BY <1>2, <1>4, WithoutShows
  <1>8b. \A s \in Stores, k \in content : cache'[s][k].behind \subseteq cache[s][k].behind
    BY <1>2, <1>4, WithoutShows
  <1> HIDE DEF i, ks, cs
  <1>9. ASSUME NEW s \in Stores, NEW k \in content, NEW t \in cache'[s][k].behind,
               Coming(s, k, t), ~Coming(s, k, t)'
        PROVE  t \in unswept'[s]
    <2>1. Ahead(r, s, k) /\ t \in req[r].write.tables
      BY <1>5, <1>9, ComingOfOthers
    <2>2. ~Ahead(r, s, k)'
      BY <1>7, <1>9, <2>1 DEF Coming
    <2>3. s \in {i, Redis} /\ \E n \in DOMAIN cs : k \in cs[n]
      BY <1>1, <2>1 DEF Ahead, i, cs
    <2>4. \A m \in DOMAIN Tail(cs) : k \notin Tail(cs)[m]
      BY <1>7, <2>2, <2>3 DEF Ahead
    <2>5. k \in ks
      BY <1>8, <2>3, <2>4
    <2>6. s = Redis
      BY <1>8a, <1>9, <2>3, <2>5
    <2>7. ~healthy[i]
      BY <1>7, <2>2, <2>5, <2>6 DEF Ahead
    <2>8. t \in cache[s][k].behind
      BY <1>8b, <1>9
    <2>9. t \in Shown
      BY <2>8, BehindIsShown
    <2>10. Missed({Redis}, req[r].write.tables)
      BY <1>4, <2>7
    <2>11. req[r].write.tables \cap Shown \subseteq unswept'[Redis]
      BY <2>10, MissedGrows DEF Stores
    <2>q. QED BY <2>1, <2>6, <2>9, <2>11
  <1>10. \A s \in Stores : unswept[s] \subseteq unswept'[s]
    BY <1>4, MissedGrows
  <1>q. QED BY <1>4, <1>8b, <1>9, <1>10, SweptFrame

LEMMA ScanBatchSwept ==
    ASSUME TypeInv, Swept, NEW r \in Requests, NEW ks \in SUBSET content, ScanBatch(r, ks)
    PROVE  Swept'
  <1>1. req[r] \in Writer /\ req[r].pc = "scan"
    BY Places DEF ScanBatch
  <1>2. Redis \in Stores /\ cache' = Without(Redis, ks) /\ content' = content
        /\ unswept' = unswept
    BY DEF ScanBatch, Stores
  <1>3. \A q \in Requests \ {r} : req'[q] = req[q]
    BY DEF ScanBatch, TypeInv, TypeOK
  <1>4. req'[r] = [req[r] EXCEPT !.left = @ \ ks]
    BY DEF ScanBatch, TypeInv, TypeOK
  <1>5. /\ req'[r].pc = "scan" /\ req'[r].at = req[r].at
        /\ req'[r].left = req[r].left \ ks
        /\ req'[r].clears = req[r].clears /\ req'[r].write = req[r].write
    BY <1>1, <1>4 DEF Writer
  <1>6. ASSUME NEW s \in Stores, NEW k \in content, NEW t \in cache'[s][k].behind,
               Coming(s, k, t), ~Coming(s, k, t)'
        PROVE  FALSE
    <2>1. Ahead(r, s, k) /\ t \in req[r].write.tables
      BY <1>3, <1>6, ComingOfOthers
    <2>2. ~Ahead(r, s, k)'
      BY <1>5, <1>6, <2>1 DEF Coming
    <2>3. s = Redis /\ k \in ks
      BY <1>1, <1>5, <2>1, <2>2 DEF Ahead
    <2>q. QED BY <1>2, <1>6, <2>3, WithoutShows
  <1>7. \A s \in Stores, k \in content : cache'[s][k].behind \subseteq cache[s][k].behind
    BY <1>2, WithoutShows
  <1>q. QED BY <1>2, <1>6, <1>7, SweptFrame

LEMMA ScanFailSwept ==
    ASSUME TypeInv, Swept, NEW r \in Requests, ScanFail(r)
    PROVE  Swept'
  <1>1. req[r] \in Writer /\ req[r].pc = "scan"
    BY Places DEF ScanFail
  <1>2. cache' = cache /\ content' = content /\ Missed({Redis}, req[r].write.tables)
    BY DEF ScanFail
  <1>3. \A q \in Requests \ {r} : req'[q] = req[q]
    BY DEF ScanFail, TypeInv, TypeOK
  <1>4. req'[r] = [req[r] EXCEPT !.pc = "clear", !.left = {}]
    BY <1>1 DEF ScanFail, TypeInv, TypeOK
  <1>5. /\ req'[r].pc = "clear" /\ req'[r].at = req[r].at /\ req'[r].left = {}
        /\ req'[r].clears = req[r].clears /\ req'[r].write = req[r].write
    BY <1>1, <1>4 DEF Writer
  <1>6. ASSUME NEW s \in Stores, NEW k \in content, NEW t \in cache'[s][k].behind,
               Coming(s, k, t), ~Coming(s, k, t)'
        PROVE  t \in unswept'[s]
    <2>1. Ahead(r, s, k) /\ t \in req[r].write.tables
      BY <1>3, <1>6, ComingOfOthers
    <2>2. ~Ahead(r, s, k)'
      BY <1>5, <1>6, <2>1 DEF Coming
    <2>3. s = Redis
      BY <1>1, <1>5, <2>1, <2>2 DEF Ahead
    <2>4. t \in Shown
      BY <1>2, <1>6, BehindIsShown
    <2>5. req[r].write.tables \cap Shown \subseteq unswept'[Redis]
      BY <1>2, MissedGrows DEF Stores
    <2>q. QED BY <2>1, <2>3, <2>4, <2>5
  <1>7. \A s \in Stores : unswept[s] \subseteq unswept'[s]
    BY <1>2, MissedGrows
  <1>q. QED BY <1>2, <1>6, <1>7, SweptFrame

(* The end of a scan and of a request: nothing was left to clear. *)
LEMMA EndSwept ==
    ASSUME TypeInv, Swept, NEW r \in Requests, ScanEnd(r) \/ Finish(r)
    PROVE  Swept'
  <1>1. cache' = cache /\ content' = content /\ unswept' = unswept
    BY DEF ScanEnd, Finish
  <1>2. \A q \in Requests \ {r} : req'[q] = req[q]
    BY DEF ScanEnd, Finish, Goto, TypeInv, TypeOK
  <1>3. \A s, k : Ahead(r, s, k) => Ahead(r, s, k)'
    <2>1. CASE ScanEnd(r)
      <3>1. req[r] \in Writer /\ req[r].pc = "scan" /\ req[r].left = {}
        BY <2>1, Places DEF ScanEnd
      <3>2. req'[r] = [req[r] EXCEPT !.pc = "clear"]
        BY <2>1 DEF ScanEnd, TypeInv, TypeOK
      <3>3. /\ req'[r].pc = "clear" /\ req'[r].at = req[r].at
            /\ req'[r].left = req[r].left /\ req'[r].clears = req[r].clears
        BY <3>1, <3>2 DEF Writer
      <3>q. QED BY <3>1, <3>3 DEF Ahead
    <2>2. CASE Finish(r)
      <3>1. req[r].left = {} /\ req[r].clears = <<>>
        BY <2>2 DEF Finish, TypeInv, Resting
      <3>2. \A s, k : ~Ahead(r, s, k)
        BY <3>1 DEF Ahead
      <3>q. QED BY <3>2
    <2>q. QED BY <2>1, <2>2
  <1>4. ASSUME NEW s \in Stores, NEW k \in content, NEW t \in cache'[s][k].behind,
               Coming(s, k, t), ~Coming(s, k, t)'
        PROVE  FALSE
    <2>1. Ahead(r, s, k) /\ t \in req[r].write.tables
      BY <1>2, <1>4, ComingOfOthers
    <2>2. req'[r].write = req[r].write
      <3>1. CASE ScanEnd(r)
        <4>1. req[r] \in Writer
          BY <3>1, Places DEF ScanEnd
        <4>q. QED BY <3>1, <4>1 DEF ScanEnd, TypeInv, TypeOK, Writer
      <3>2. CASE Finish(r)
        <4>1. ~Ahead(r, s, k)
          BY <3>2 DEF Ahead, Finish, TypeInv, Resting
        <4>q. QED BY <2>1, <4>1
      <3>q. QED BY <3>1, <3>2
    <2>q. QED BY <1>3, <1>4, <2>1, <2>2 DEF Coming
  <1>q. QED BY <1>1, <1>4, SweptFrame

LEMMA AbandonSwept ==
    ASSUME TypeInv, Swept, NEW r \in Requests, Abandon(r)
    PROVE  Swept'
  <1>1. cache' = cache /\ content' = content
    BY DEF Abandon
  <1>2. \A q \in Requests \ {r} : req'[q] = req[q]
    BY DEF Abandon, Goto, TypeInv, TypeOK
  <1>3. \A s \in Stores : unswept[s] \subseteq unswept'[s]
    BY MissedGrows DEF Abandon
  <1>4. ASSUME NEW s \in Stores, NEW k \in content, NEW t \in cache'[s][k].behind,
               Coming(s, k, t), ~Coming(s, k, t)'
        PROVE  t \in unswept'[s]
    <2>1. Ahead(r, s, k) /\ t \in req[r].write.tables
      BY <1>2, <1>4, ComingOfOthers
    <2>2. req[r].pc \in {"clear", "scan"} /\ s \in {req[r].at, Redis}
      BY <2>1 DEF Ahead
    <2>3. Missed({req[r].at, Redis}, req[r].write.tables)
      BY <2>2 DEF Abandon
    <2>4. t \in Shown
      BY <1>1, <1>4, BehindIsShown
    <2>q. QED BY <2>1, <2>2, <2>3, <2>4, MissedGrows
  <1>q. QED BY <1>1, <1>3, <1>4, SweptFrame

LEMMA StepSwept == TypeInv /\ Swept /\ [Next]_vars => Swept'
  <1> SUFFICES ASSUME TypeInv, Swept, [Next]_vars PROVE Swept'
    OBVIOUS
  <1>1. CASE UNCHANGED vars
    BY <1>1 DEF vars, Swept, Coming, Ahead, Stores
  <1>2. ASSUME NEW r \in Requests, Sweep(r)
        PROVE  Swept'
    BY <1>2, ClearLocalSwept, ScanBatchSwept, ScanFailSwept, EndSwept DEF Sweep
  <1>3. ASSUME NEW i \in Instances, Ready(i) \/ Error(i)
        PROVE  Swept'
    <2>1. cache' = cache /\ content' = content /\ unswept' = unswept /\ req' = req
      BY <1>3 DEF Ready, Error
    <2>q. QED BY <2>1, SweptFrame, ComingKept
  <1>4. ASSUME NEW s \in Stores, NEW k \in content, Expire(s, k)
        PROVE  Swept'
    <2>1. content' = content /\ unswept' = unswept /\ req' = req
          /\ cache' = Without(s, {k})
      BY <1>4 DEF Expire
    <2>2. \A z \in Stores, j \in content : cache'[z][j].behind \subseteq cache[z][j].behind
      BY <2>1, WithoutShows
    <2>q. QED BY <2>1, <2>2, SweptFrame, ComingKept
  <1>q. QED
    BY <1>1, <1>2, <1>3, <1>4, ReadSwept, CommitSwept, AbandonSwept DEF Next

(* BehindIsCleared: a cached entry that is behind a write is still to be      *)
(* cleared by that writer, or the write never reached the store: every write  *)
(* of the plans, products, geography, FAQ and CMS services that clears        *)
(* anything clears every key that shows what it wrote.                        *)
THEOREM StaleEntriesAreCleared == Spec => []BehindIsCleared
  <1>1. Swept => BehindIsCleared
    BY DEF Swept, BehindIsCleared, Coming
  <1>q. QED BY <1>1, InitSwept, StepSwept, TypeCorrect, PTL DEF Spec

-----------------------------------------------------------------------------
(***************************************************************************)
(* Notifications: a fan-out of any length over any number of workers.      *)
(***************************************************************************)

ToCome(n) == n > request.at \/ (n = request.at /\ request.pc = "create")

\* A row shown in the feed, or still to be created, has no job and no run.
AtRest(n) ==
    job[n] = NoJob /\ sent[n] = 0 /\ \A x \in Runners : run[x] # NoRun => run[x].note # n

\* The request runs a delivery itself only while it waits for it, and in-app rows
\* are delivered by nobody.
FanoutInv ==
    /\ FanoutTypeOK
    /\ run[Api] # NoRun => request.pc = "inline" /\ run[Api].note = request.at
    /\ request.pc = "appear" => channels[request.at] = "IN_APP"
    /\ request.pc \in {"enqueue", "inline"} => channels[request.at] # "IN_APP"
    /\ \A n \in Notes : channels[n] = "IN_APP" \/ ToCome(n) => AtRest(n)

LEMMA ChannelCount ==
    ASSUME ConstantsOK, FanoutTypeOK
    PROVE  /\ Notes = 1..Len(channels) /\ Len(channels) \in Nat \ {0}
           /\ \A n \in Notes : n \in Nat /\ n <= Len(channels) /\ n > 0
           /\ request.at \in Nat /\ request.at > 0
           /\ request.pc \in {"create", "appear", "enqueue", "inline"}
                 => request.at \in Notes
  <1>1. channels \in Seq({"IN_APP", "EMAIL", "SMS"}) /\ channels # <<>>
    BY DEF ConstantsOK, FanoutTypeOK
  <1>2. Notes = 1..Len(channels) /\ Len(channels) \in Nat \ {0}
    BY <1>1 DEF Notes
  <1>3. request.at \in 1..(Len(channels) + 1)
    BY DEF FanoutTypeOK
  <1>4. request.pc \in {"create", "appear", "enqueue", "inline"}
           => request.at <= Len(channels)
    BY DEF FanoutTypeOK
  <1> QED
    BY <1>2, <1>3, <1>4

LEMMA RunKinds ==
    /\ \A q \in RunState :
          /\ q # NoRun <=> q.pc # "idle"
          /\ q # NoRun => q.pc \in {"read", "send", "write"} /\ q.note \in Notes
          /\ q.pc = "write" => q.delivered \in BOOLEAN
          /\ q.pc = "read" => [q EXCEPT !.pc = "send"] = [pc |-> "send", note |-> q.note]
    /\ NoRun \in RunState /\ NoRun.pc = "idle"
    /\ \A n \in Notes : /\ [pc |-> "read", note |-> n] \in RunState
                        /\ [pc |-> "send", note |-> n] \in RunState
                        /\ \A d \in BOOLEAN :
                              [pc |-> "write", note |-> n, delivered |-> d] \in RunState
  BY DEF RunState, NoRun

LEMMA NextChannelType ==
    ASSUME ConstantsOK, FanoutTypeOK, request.at \in Notes
    PROVE  /\ NextChannel \in [pc: {"create", "appear", "enqueue", "inline", "done", "dead"},
                               at: 1..(Len(channels) + 1)]
           /\ NextChannel.at <= Len(channels) \/ NextChannel.pc \in {"done", "dead"}
           /\ NextChannel.at = request.at + 1
           /\ NextChannel.pc \in {"create", "done"}
  <1>1. /\ Len(channels) \in Nat /\ request.at \in Nat /\ request.at > 0
        /\ request.at <= Len(channels)
    BY ChannelCount
  <1>2. CASE request.at = Len(channels)
    BY <1>1, <1>2 DEF NextChannel
  <1>3. CASE request.at # Len(channels)
    BY <1>1, <1>3 DEF NextChannel
  <1> QED
    BY <1>2, <1>3

LEMMA InitFanout == ConstantsOK /\ FanoutInit => FanoutInv
  <1> SUFFICES ASSUME ConstantsOK, FanoutInit PROVE FanoutInv
    OBVIOUS
  <1>1. channels \in Seq({"IN_APP", "EMAIL", "SMS"}) /\ channels # <<>>
    BY DEF ConstantsOK, FanoutInit
  <1>2. Notes = 1..Len(channels) /\ Len(channels) \in Nat \ {0}
    BY <1>1 DEF Notes
  <1>3. /\ request \in [pc: {"create", "appear", "enqueue", "inline", "done", "dead"},
                        at: 1..(Len(channels) + 1)]
        /\ request.at <= Len(channels)
    BY <1>2 DEF FanoutInit
  <1>4. NoRun \in RunState /\ NoJob \in {NoJob, Waiting, GivenUp} \cup ByWorker
    BY RunKinds
  <1>5. FanoutTypeOK
    BY <1>3, <1>4 DEF FanoutInit, FanoutTypeOK
  <1>6. \A x \in Runners : run[x] = NoRun
    BY DEF FanoutInit
  <1>7. Api \in Runners
    BY DEF Runners
  <1> QED
    BY <1>5, <1>6, <1>7 DEF FanoutInit, FanoutInv, AtRest

LEMMA CreateRowFanout ==
    ASSUME ConstantsOK, FanoutInv, CreateRow
    PROVE  FanoutInv'
  <1>1. request.at \in Notes /\ request.pc = "create"
    BY ChannelCount DEF FanoutInv, CreateRow, At
  <1>2. /\ UNCHANGED <<enabled, channels, run, job, sent, faults>>
        /\ status' = [status EXCEPT ![request.at] = "QUEUED"]
        /\ request' = [request EXCEPT !.pc = IF channels[request.at] = "IN_APP"
                                             THEN "appear" ELSE "enqueue"]
    BY DEF CreateRow
  <1>3. request'.at = request.at /\ request'.pc \in {"appear", "enqueue"}
        /\ (request'.pc = "appear" <=> channels[request.at] = "IN_APP")
        /\ request' \in [pc: {"create", "appear", "enqueue", "inline", "done", "dead"},
                         at: 1..(Len(channels) + 1)]
        /\ request.at <= Len(channels)
    <2>1. request \in [pc: {"create", "appear", "enqueue", "inline", "done", "dead"},
                       at: 1..(Len(channels) + 1)]
      BY DEF FanoutInv, FanoutTypeOK
    <2>2. request.at <= Len(channels)
      BY <1>1, ChannelCount DEF FanoutInv
    <2> QED
      BY <1>2, <2>1, <2>2
  <1>4. Notes' = Notes /\ RunState' = RunState
    BY <1>2 DEF Notes, RunState
  <1>5. status' \in [Notes -> {"none", "QUEUED", "SENT", "FAILED", "READ"}]
    BY <1>1, <1>2 DEF FanoutInv, FanoutTypeOK
  <1>6. FanoutTypeOK'
    BY <1>2, <1>3, <1>4, <1>5 DEF FanoutInv, FanoutTypeOK, faults
  <1>7. \A n \in Notes : ToCome(n)' => ToCome(n)
    BY <1>3 DEF ToCome
  <1>8. \A n \in Notes : AtRest(n) => AtRest(n)'
    BY <1>2 DEF AtRest
  <1> QED
    BY <1>1, <1>2, <1>3, <1>4, <1>6, <1>7, <1>8 DEF FanoutInv

\* The request goes on to its next channel, with nothing of its own in work.
LEMMA MovesToNext ==
    ASSUME ConstantsOK, FanoutInv, request.at \in Notes, request' = NextChannel,
           channels' = channels
    PROVE  /\ request' \in [pc: {"create", "appear", "enqueue", "inline", "done", "dead"},
                            at: 1..(Len(channels') + 1)]
           /\ request'.at <= Len(channels') \/ request'.pc \in {"done", "dead"}
           /\ request'.pc \in {"create", "done"}
           /\ \A n \in Notes : ToCome(n)' => ToCome(n)
  <1>1. /\ request' \in [pc: {"create", "appear", "enqueue", "inline", "done", "dead"},
                         at: 1..(Len(channels) + 1)]
        /\ request'.at <= Len(channels) \/ request'.pc \in {"done", "dead"}
        /\ request'.at = request.at + 1 /\ request'.pc \in {"create", "done"}
    BY NextChannelType DEF FanoutInv
  <1>2. request.at \in Nat /\ \A n \in Notes : n \in Nat
    BY ChannelCount DEF FanoutInv
  <1>3. \A n \in Notes : ToCome(n)' => ToCome(n)
    BY <1>1, <1>2 DEF ToCome
  <1> QED
    BY <1>1, <1>3

LEMMA AppearFanout ==
    ASSUME ConstantsOK, FanoutInv, Appear
    PROVE  FanoutInv'
  <1>1. request.at \in Notes /\ request.pc = "appear"
    BY ChannelCount DEF FanoutInv, Appear, At
  <1>2. /\ UNCHANGED <<enabled, channels, run, job, sent, faults>>
        /\ status' = [status EXCEPT ![request.at] = "SENT"]
        /\ request' = NextChannel
    BY DEF Appear
  <1>3. /\ request' \in [pc: {"create", "appear", "enqueue", "inline", "done", "dead"},
                         at: 1..(Len(channels') + 1)]
        /\ request'.at <= Len(channels') \/ request'.pc \in {"done", "dead"}
        /\ request'.pc \in {"create", "done"}
        /\ \A n \in Notes : ToCome(n)' => ToCome(n)
    BY <1>1, <1>2, MovesToNext
  <1>4. Notes' = Notes /\ RunState' = RunState
    BY <1>2 DEF Notes, RunState
  <1>5. status' \in [Notes -> {"none", "QUEUED", "SENT", "FAILED", "READ"}]
    BY <1>1, <1>2 DEF FanoutInv, FanoutTypeOK
  <1>6. FanoutTypeOK'
    BY <1>2, <1>3, <1>4, <1>5 DEF FanoutInv, FanoutTypeOK, faults
  <1>7. \A n \in Notes : AtRest(n) => AtRest(n)'
    BY <1>2 DEF AtRest
  <1> QED
    BY <1>1, <1>2, <1>3, <1>4, <1>6, <1>7 DEF FanoutInv

LEMMA EnqueueFanout ==
    ASSUME ConstantsOK, FanoutInv, Enqueue
    PROVE  FanoutInv'
  <1>1. /\ request.at \in Notes /\ request.pc = "enqueue"
        /\ channels[request.at] # "IN_APP" /\ ~ToCome(request.at)
    <2>1. request.at \in Notes /\ request.pc = "enqueue"
      BY ChannelCount DEF FanoutInv, Enqueue, At
    <2>2. request.at \in Nat
      BY ChannelCount DEF FanoutInv
    <2> QED
      BY <2>1, <2>2 DEF FanoutInv, ToCome
  <1>2. /\ UNCHANGED <<enabled, channels, status, sent, faults>>
        /\ (job' = [job EXCEPT ![request.at] = Waiting] \/ job' = job)
        /\ ((request' = NextChannel /\ run' = run) \/ StartInline)
    BY DEF Enqueue
  <1>4. Notes' = Notes /\ RunState' = RunState
    BY <1>2 DEF Notes, RunState
  <1>5. job' \in [Notes -> {NoJob, Waiting, GivenUp} \cup ByWorker]
    BY <1>1, <1>2 DEF FanoutInv, FanoutTypeOK
  <1>6. Api \in Runners /\ run \in [Runners -> RunState]
    BY DEF Runners, FanoutInv, FanoutTypeOK
  <1>7. CASE request' = NextChannel /\ run' = run
    <2>1. /\ request' \in [pc: {"create", "appear", "enqueue", "inline", "done", "dead"},
                           at: 1..(Len(channels') + 1)]
          /\ request'.at <= Len(channels') \/ request'.pc \in {"done", "dead"}
          /\ request'.pc \in {"create", "done"}
          /\ \A n \in Notes : ToCome(n)' => ToCome(n)
      BY <1>1, <1>2, <1>7, MovesToNext
    <2>2. FanoutTypeOK'
      BY <1>2, <1>4, <1>5, <1>7, <2>1 DEF FanoutInv, FanoutTypeOK, faults
    <2>3. \A n \in Notes : AtRest(n) /\ n # request.at => AtRest(n)'
      BY <1>2, <1>7 DEF AtRest, FanoutInv, FanoutTypeOK
    <2> QED
      BY <1>1, <1>2, <1>4, <1>7, <2>1, <2>2, <2>3 DEF FanoutInv
  <1>8. CASE StartInline
    <2>1. /\ run' = [run EXCEPT ![Api] = [pc |-> "read", note |-> request.at]]
          /\ request' = [request EXCEPT !.pc = "inline"]
      BY <1>8 DEF StartInline
    <2>2. /\ request' \in [pc: {"create", "appear", "enqueue", "inline", "done", "dead"},
                           at: 1..(Len(channels') + 1)]
          /\ request'.at = request.at /\ request'.pc = "inline"
          /\ request'.at <= Len(channels')
      <3>1. request \in [pc: {"create", "appear", "enqueue", "inline", "done", "dead"},
                         at: 1..(Len(channels) + 1)]
        BY DEF FanoutInv, FanoutTypeOK
      <3>2. request.at <= Len(channels)
        BY <1>1, ChannelCount DEF FanoutInv
      <3> QED
        BY <1>2, <2>1, <3>1, <3>2
    <2>3. run' \in [Runners -> RunState]
      <3>1. [pc |-> "read", note |-> request.at] \in RunState
        BY <1>1, RunKinds
      <3> QED
        BY <1>6, <2>1, <3>1
    <2>4. FanoutTypeOK'
      BY <1>2, <1>4, <1>5, <2>2, <2>3 DEF FanoutInv, FanoutTypeOK, faults
    <2>5. \A n \in Notes : ToCome(n)' => ToCome(n)
      BY <2>2 DEF ToCome
    <2>6. run'[Api].note = request.at /\ \A y \in Runners : y # Api => run'[y] = run[y]
      BY <1>6, <2>1
    <2>7. \A n \in Notes : AtRest(n) /\ n # request.at => AtRest(n)'
      BY <1>2, <2>6 DEF AtRest, FanoutInv, FanoutTypeOK
    <2> QED
      BY <1>1, <1>2, <1>4, <2>2, <2>4, <2>5, <2>6, <2>7 DEF FanoutInv
  <1> QED
    BY <1>2, <1>7, <1>8

LEMMA MarkReadFanout ==
    ASSUME ConstantsOK, FanoutInv, NEW n \in Notes, MarkRead(n)
    PROVE  FanoutInv'
  <1>1. /\ UNCHANGED <<enabled, channels, request, run, job, sent, faults>>
        /\ status' = [status EXCEPT ![n] = "READ"]
    BY DEF MarkRead
  <1>2. Notes' = Notes /\ RunState' = RunState
    BY <1>1 DEF Notes, RunState
  <1>3. status' \in [Notes -> {"none", "QUEUED", "SENT", "FAILED", "READ"}]
    BY <1>1 DEF FanoutInv, FanoutTypeOK
  <1>4. FanoutTypeOK'
    BY <1>1, <1>2, <1>3 DEF FanoutInv, FanoutTypeOK, faults
  <1>5. \A m \in Notes : (AtRest(m)' <=> AtRest(m)) /\ (ToCome(m)' <=> ToCome(m))
    BY <1>1 DEF AtRest, ToCome
  <1> QED
    BY <1>1, <1>2, <1>4, <1>5 DEF FanoutInv

\* A run that goes on, or begins, on a row that is not at rest.
LEMMA RunFanout ==
    ASSUME ConstantsOK, FanoutInv, NEW x \in Runners, NEW n \in Notes, NEW next \in RunState,
           next = NoRun \/ next.note = n,
           channels[n] # "IN_APP", ~ToCome(n),
           run' = [run EXCEPT ![x] = next],
           x = Api => next = NoRun \/ run[Api] # NoRun,
           UNCHANGED <<enabled, channels, request>>,
           status' \in [Notes -> {"none", "QUEUED", "SENT", "FAILED", "READ"}],
           dropped' \in [Notes -> BOOLEAN],
           job' \in [Notes -> {NoJob, Waiting, GivenUp} \cup ByWorker],
           \A m \in Notes : m # n => job'[m] = job[m] /\ sent'[m] = sent[m],
           sent' \in [Notes -> Nat], cut' \in [Notes -> Nat], together' \in [Notes -> Nat],
           errors' \in [Notes -> Nat], stalls' \in [Notes -> Nat],
           x = Api => next = NoRun \/ n = run[Api].note
    PROVE  FanoutInv'
  <1>0. run \in [Runners -> RunState] /\ Api \in Runners
    BY DEF FanoutInv, FanoutTypeOK, Runners
  <1>1. /\ run' \in [Runners -> RunState] /\ run'[x] = next
        /\ \A y \in Runners : y # x => run'[y] = run[y]
    BY <1>0
  <1>2. Notes' = Notes /\ RunState' = RunState
    BY DEF Notes, RunState
  <1>3. FanoutTypeOK'
    BY <1>1, <1>2 DEF FanoutInv, FanoutTypeOK
  <1>4. \A m \in Notes : AtRest(m) /\ m # n => AtRest(m)'
    BY <1>1 DEF AtRest
  <1>5. \A m \in Notes : ToCome(m)' <=> ToCome(m)
    BY DEF ToCome
  <1>6. run'[Api] # NoRun => request.pc = "inline" /\ run'[Api].note = request.at
    BY <1>0, <1>1 DEF FanoutInv
  <1> QED
    BY <1>2, <1>3, <1>4, <1>5, <1>6 DEF FanoutInv

\* The request's own run ends, or the request does.
LEMMA ApiEndsFanout ==
    ASSUME ConstantsOK, FanoutInv,
           run' = [run EXCEPT ![Api] = NoRun],
           \/ run[Api] # NoRun /\ request' = NextChannel
           \/ request' = [request EXCEPT !.pc = "dead"],
           UNCHANGED <<enabled, channels, sent>>,
           status' \in [Notes -> {"none", "QUEUED", "SENT", "FAILED", "READ"}],
           dropped' \in [Notes -> BOOLEAN],
           job' \in [Notes -> {NoJob, Waiting, GivenUp} \cup ByWorker],
           \A m \in Notes : job[m] = NoJob => job'[m] = NoJob,
           cut' \in [Notes -> Nat], together' = together,
           errors' = errors, stalls' = stalls
    PROVE  FanoutInv'
  <1>0. run \in [Runners -> RunState] /\ Api \in Runners /\ NoRun \in RunState
    BY RunKinds DEF FanoutInv, FanoutTypeOK, Runners
  <1>1. /\ run' \in [Runners -> RunState] /\ run'[Api] = NoRun
        /\ \A y \in Runners : y # Api => run'[y] = run[y]
    BY <1>0
  <1>2. Notes' = Notes /\ RunState' = RunState
    BY DEF Notes, RunState
  <1>3. /\ request' \in [pc: {"create", "appear", "enqueue", "inline", "done", "dead"},
                         at: 1..(Len(channels') + 1)]
        /\ request'.at <= Len(channels') \/ request'.pc \in {"done", "dead"}
        /\ request'.pc \in {"create", "done", "dead"}
        /\ \A n \in Notes : ToCome(n)' => ToCome(n)
    <2>1. CASE run[Api] # NoRun /\ request' = NextChannel
      <3>1. request.at \in Notes
        BY <2>1, ChannelCount DEF FanoutInv
      <3> QED
        BY <2>1, <3>1, MovesToNext
    <2>2. CASE request' = [request EXCEPT !.pc = "dead"]
      <3>1. request \in [pc: {"create", "appear", "enqueue", "inline", "done", "dead"},
                         at: 1..(Len(channels) + 1)]
        BY DEF FanoutInv, FanoutTypeOK
      <3>2. /\ request' \in [pc: {"create", "appear", "enqueue", "inline", "done", "dead"},
                             at: 1..(Len(channels') + 1)]
            /\ request'.pc = "dead" /\ request'.at = request.at
        BY <2>2, <3>1
      <3> QED
        BY <3>2 DEF ToCome
    <2> QED
      BY <2>1, <2>2
  <1>4. FanoutTypeOK'
    BY <1>1, <1>2, <1>3 DEF FanoutInv, FanoutTypeOK
  <1>5. \A m \in Notes : AtRest(m) => AtRest(m)'
    BY <1>1 DEF AtRest
  <1> QED
    BY <1>1, <1>2, <1>3, <1>4, <1>5 DEF FanoutInv

\* Where a runner is at work, and what it works on.
LEMMA AtWorkOn ==
    ASSUME ConstantsOK, FanoutInv, NEW x \in Runners, run[x].pc # "idle"
    PROVE  /\ run[x] # NoRun /\ run[x] \in RunState
           /\ run[x].note \in Notes /\ channels[run[x].note] # "IN_APP"
           /\ ~ToCome(run[x].note)
           /\ run[x].pc \in {"read", "send", "write"}
  <1>1. run[x] \in RunState
    BY DEF FanoutInv, FanoutTypeOK
  <1>2. run[x] # NoRun /\ run[x].note \in Notes /\ run[x].pc \in {"read", "send", "write"}
    BY <1>1, RunKinds
  <1> QED
    BY <1>1, <1>2 DEF FanoutInv, AtRest

LEMMA TakeFanout ==
    ASSUME ConstantsOK, FanoutInv, NEW w \in Workers, NEW n \in Notes, Take(w, n)
    PROVE  FanoutInv'
  <1>1. channels[n] # "IN_APP" /\ ~ToCome(n)
    BY DEF Take, Waiting, NoJob, FanoutInv, AtRest
  <1> DEFINE next == [pc |-> "read", note |-> n]
  <1>2. next \in RunState /\ next.note = n
    BY RunKinds
  <1>3. w \in Runners /\ w # Api
    BY DEF Runners, ConstantsOK
  <1>4. /\ job' = [job EXCEPT ![n] = [state |-> "active", worker |-> w]]
        /\ run' = [run EXCEPT ![w] = next]
        /\ UNCHANGED <<enabled, channels, status, request, sent, faults>>
    BY DEF Take
  <1> HIDE DEF next
  <1>5. [state |-> "active", worker |-> w] \in ByWorker
    BY DEF ByWorker
  <1>6. /\ job' \in [Notes -> {NoJob, Waiting, GivenUp} \cup ByWorker]
        /\ \A m \in Notes : m # n => job'[m] = job[m]
    BY <1>4, <1>5 DEF FanoutInv, FanoutTypeOK
  <1>7. /\ UNCHANGED <<enabled, channels, request>>
        /\ status' \in [Notes -> {"none", "QUEUED", "SENT", "FAILED", "READ"}]
        /\ dropped' \in [Notes -> BOOLEAN] /\ sent' = sent
        /\ sent' \in [Notes -> Nat] /\ cut' \in [Notes -> Nat]
        /\ together' \in [Notes -> Nat] /\ errors' \in [Notes -> Nat]
        /\ stalls' \in [Notes -> Nat]
    BY <1>4 DEF faults, FanoutInv, FanoutTypeOK
  <1> QED
    BY <1>1, <1>2, <1>3, <1>4, <1>6, <1>7, RunFanout

LEMMA ReturnJob ==
    ASSUME FanoutTypeOK, NEW x \in Runners, NEW n \in Notes, Return(x, n)
    PROVE  /\ job' \in [Notes -> {NoJob, Waiting, GivenUp} \cup ByWorker]
           /\ \A m \in Notes : /\ m # n => job'[m] = job[m]
                               /\ job[m] = NoJob => job'[m] = NoJob
  <1>1. job' = job \/ job' = [job EXCEPT ![n] = NoJob]
    BY DEF Return
  <1>2. job \in [Notes -> {NoJob, Waiting, GivenUp} \cup ByWorker]
    BY DEF FanoutTypeOK
  <1> HIDE DEF NoJob
  <1> QED
    BY <1>1, <1>2

LEMMA ReturnFanout ==
    ASSUME ConstantsOK, FanoutInv, NEW x \in Runners, NEW n \in Notes,
           run[x].pc # "idle", run[x].note = n, Return(x, n),
           UNCHANGED <<enabled, channels, sent, cut, together, errors, stalls, dropped>>,
           status' \in [Notes -> {"none", "QUEUED", "SENT", "FAILED", "READ"}]
    PROVE  FanoutInv'
  <1>1. /\ job' \in [Notes -> {NoJob, Waiting, GivenUp} \cup ByWorker]
        /\ \A m \in Notes : /\ m # n => job'[m] = job[m]
                            /\ job[m] = NoJob => job'[m] = NoJob
    BY ReturnJob DEF FanoutInv
  <1>2. /\ run[x] # NoRun /\ channels[n] # "IN_APP" /\ ~ToCome(n)
    BY AtWorkOn
  <1>3. run' = [run EXCEPT ![x] = NoRun] /\ NoRun \in RunState
    BY RunKinds DEF Return
  <1>4. /\ sent' \in [Notes -> Nat] /\ cut' \in [Notes -> Nat]
        /\ together' \in [Notes -> Nat] /\ errors' \in [Notes -> Nat]
        /\ stalls' \in [Notes -> Nat] /\ dropped' \in [Notes -> BOOLEAN]
    BY DEF FanoutInv, FanoutTypeOK
  <1>5. CASE x = Api
    <2>1. request' = NextChannel /\ run' = [run EXCEPT ![Api] = NoRun] /\ run[Api] # NoRun
      BY <1>2, <1>3, <1>5 DEF Return
    <2>2. \A m \in Notes : job[m] = NoJob => job'[m] = NoJob
      BY <1>1
    <2>3. /\ UNCHANGED <<enabled, channels, sent>>
          /\ together' = together /\ errors' = errors /\ stalls' = stalls
      OBVIOUS
    <2> QED
      BY <1>1, <1>4, <2>1, <2>2, <2>3, ApiEndsFanout
  <1>6. CASE x # Api
    <2>1. request' = request
      BY <1>6 DEF Return
    <2>2. /\ \A m \in Notes : m # n => job'[m] = job[m] /\ sent'[m] = sent[m]
          /\ UNCHANGED <<enabled, channels, request>>
      BY <1>1, <2>1
    <2>3. PICK next \in RunState : next = NoRun
      BY <1>3
    <2>4. /\ run' = [run EXCEPT ![x] = next]
          /\ next = NoRun \/ next.note = n
          /\ x = Api => next = NoRun \/ run[Api] # NoRun
          /\ x = Api => next = NoRun \/ n = run[Api].note
      BY <1>3, <2>3
    <2> HIDE DEF NoRun
    <2> QED
      BY <1>1, <1>2, <1>4, <2>2, <2>4, RunFanout
  <1> QED
    BY <1>5, <1>6

LEMMA DeliverReadFanout ==
    ASSUME ConstantsOK, FanoutInv, NEW x \in Runners, DeliverRead(x)
    PROVE  FanoutInv'
  <1>1. PICK n \in Notes : n = run[x].note
    BY AtWorkOn DEF DeliverRead
  <1>2. /\ run[x].pc = "read" /\ run[x] # NoRun /\ run[x] \in RunState
        /\ channels[n] # "IN_APP" /\ ~ToCome(n)
    BY <1>1, AtWorkOn DEF DeliverRead
  <1>3. /\ UNCHANGED <<enabled, channels, status, sent, cut, errors, stalls, dropped>>
        /\ status' \in [Notes -> {"none", "QUEUED", "SENT", "FAILED", "READ"}]
    BY DEF DeliverRead, FanoutInv, FanoutTypeOK
  <1>4. CASE status[n] = "SENT"
    <2>1. Return(x, n) /\ together' = together
      BY <1>1, <1>4 DEF DeliverRead
    <2> QED
      BY <1>1, <1>2, <1>3, <2>1, ReturnFanout
  <1>5. CASE status[n] # "SENT"
    <2> DEFINE next == [pc |-> "send", note |-> n]
    <2>1. /\ run' = [run EXCEPT ![x] = [run[x] EXCEPT !.pc = "send"]]
          /\ together' = [together EXCEPT ![n] = IF UnderWay(n) = {} THEN @ ELSE @ + 1]
          /\ UNCHANGED <<request, job>>
      BY <1>1, <1>5 DEF DeliverRead, FanoutInv, FanoutTypeOK
    <2>2. [run[x] EXCEPT !.pc = "send"] = next
      BY <1>1, <1>2, RunKinds
    <2>3. next \in RunState /\ next.note = n
      BY RunKinds
    <2>4. run' = [run EXCEPT ![x] = next]
      BY <2>1, <2>2
    <2>5. together' \in [Notes -> Nat]
      BY <2>1 DEF FanoutInv, FanoutTypeOK
    <2>6. /\ dropped' \in [Notes -> BOOLEAN]
          /\ job' \in [Notes -> {NoJob, Waiting, GivenUp} \cup ByWorker]
          /\ sent' \in [Notes -> Nat] /\ cut' \in [Notes -> Nat]
          /\ errors' \in [Notes -> Nat] /\ stalls' \in [Notes -> Nat]
      BY <1>3, <2>1 DEF FanoutInv, FanoutTypeOK
    <2>7. /\ \A m \in Notes : m # n => job'[m] = job[m] /\ sent'[m] = sent[m]
          /\ UNCHANGED <<enabled, channels, request>>
      BY <1>3, <2>1
    <2>8. x = Api => n = run[Api].note /\ run[Api] # NoRun
      BY <1>1, <1>2
    <2> HIDE DEF next
    <2> QED
      BY <1>2, <1>3, <2>3, <2>4, <2>5, <2>6, <2>7, <2>8, RunFanout
  <1> QED
    BY <1>4, <1>5

LEMMA SendFanout ==
    ASSUME ConstantsOK, FanoutInv, NEW x \in Runners, Send(x)
    PROVE  FanoutInv'
  <1>1. PICK n \in Notes : n = run[x].note
    BY AtWorkOn DEF Send
  <1>2. run[x] # NoRun /\ channels[n] # "IN_APP" /\ ~ToCome(n)
    BY <1>1, AtWorkOn DEF Send
  <1>3. PICK d \in BOOLEAN :
          /\ run' = [run EXCEPT ![x] = [pc |-> "write", note |-> n, delivered |-> d]]
          /\ sent' = [sent EXCEPT ![n] = IF d THEN @ + 1 ELSE @]
    BY <1>1 DEF Send
  <1> DEFINE next == [pc |-> "write", note |-> n, delivered |-> d]
  <1>4. next \in RunState /\ next.note = n /\ run' = [run EXCEPT ![x] = next]
    BY <1>3, RunKinds
  <1>5. sent' \in [Notes -> Nat] /\ \A m \in Notes : m # n => sent'[m] = sent[m]
    BY <1>3 DEF FanoutInv, FanoutTypeOK
  <1>6. /\ dropped' \in [Notes -> BOOLEAN]
        /\ status' \in [Notes -> {"none", "QUEUED", "SENT", "FAILED", "READ"}]
        /\ job' \in [Notes -> {NoJob, Waiting, GivenUp} \cup ByWorker]
        /\ together' \in [Notes -> Nat] /\ cut' \in [Notes -> Nat]
        /\ errors' \in [Notes -> Nat] /\ stalls' \in [Notes -> Nat]
        /\ UNCHANGED <<enabled, channels, request, job>>
    BY DEF Send, faults, FanoutInv, FanoutTypeOK
  <1>7. x = Api => n = run[Api].note /\ run[Api] # NoRun
    BY <1>1, <1>2
  <1> HIDE DEF next
  <1> QED
    BY <1>2, <1>4, <1>5, <1>6, <1>7, RunFanout

LEMMA WriteFanout ==
    ASSUME ConstantsOK, FanoutInv, NEW x \in Runners, WriteOutcome(x)
    PROVE  FanoutInv'
  <1>1. PICK n \in Notes : n = run[x].note
    BY AtWorkOn DEF WriteOutcome
  <1>2. /\ run[x].pc # "idle" /\ Return(x, n)
        /\ UNCHANGED <<enabled, channels, sent, cut, together, errors, stalls, dropped>>
    BY <1>1 DEF WriteOutcome, faults
  <1>3. status' \in [Notes -> {"none", "QUEUED", "SENT", "FAILED", "READ"}]
    BY DEF WriteOutcome, FanoutInv, FanoutTypeOK
  <1> QED
    BY <1>1, <1>2, <1>3, ReturnFanout

LEMMA CutOffType ==
    ASSUME FanoutTypeOK, NEW x \in Runners, CutOff(x)
    PROVE  cut' \in [Notes -> Nat]
  <1> DEFINE u == run[x].note
  <1>1. cut \in [Notes -> Nat] /\ (cut' = cut \/ cut' = [cut EXCEPT ![u] = @ + 1])
    <2>1. CASE Delivered(x)
      BY <2>1 DEF CutOff, FanoutTypeOK
    <2>2. CASE ~Delivered(x)
      <3>1. cut \in [Notes -> Nat] /\ cut' = [cut EXCEPT ![u] = cut[u]]
        BY <2>2 DEF CutOff, FanoutTypeOK
      <3> HIDE DEF u
      <3> QED
        BY <3>1
    <2> QED
      BY <2>1, <2>2
  <1> HIDE DEF u
  <1>2. CASE u \in Notes
    BY <1>1, <1>2
  <1>3. CASE u \notin Notes
    BY <1>1, <1>3
  <1> QED
    BY <1>2, <1>3

LEMMA ThrowsFanout ==
    ASSUME ConstantsOK, FanoutInv, NEW w \in Workers, RunThrows(w)
    PROVE  FanoutInv'
  <1>0. w \in Runners /\ w # Api
    BY DEF Runners, ConstantsOK
  <1>1. PICK n \in Notes : n = run[w].note
    BY <1>0, AtWorkOn DEF RunThrows
  <1>2. channels[n] # "IN_APP" /\ ~ToCome(n)
    BY <1>0, <1>1, AtWorkOn DEF RunThrows
  <1>3. /\ errors' = [errors EXCEPT ![n] = @ + 1]
        /\ (job' = job \/ job' = [job EXCEPT ![n] = Waiting]
                       \/ job' = [job EXCEPT ![n] = GivenUp])
        /\ cut' \in [Notes -> Nat]
        /\ run' = [run EXCEPT ![w] = NoRun]
        /\ UNCHANGED <<enabled, channels, status, request, sent, together, stalls, dropped>>
    BY <1>0, <1>1, CutOffType DEF RunThrows, FanoutInv
  <1>4. errors' \in [Notes -> Nat]
    BY <1>3 DEF FanoutInv, FanoutTypeOK
  <1>5. /\ job' \in [Notes -> {NoJob, Waiting, GivenUp} \cup ByWorker]
        /\ \A m \in Notes : m # n => job'[m] = job[m] /\ sent'[m] = sent[m]
    BY <1>3 DEF FanoutInv, FanoutTypeOK
  <1>6. /\ status' \in [Notes -> {"none", "QUEUED", "SENT", "FAILED", "READ"}]
        /\ dropped' \in [Notes -> BOOLEAN] /\ sent' \in [Notes -> Nat]
        /\ together' \in [Notes -> Nat] /\ stalls' \in [Notes -> Nat]
        /\ UNCHANGED <<enabled, channels, request>>
    BY <1>3 DEF FanoutInv, FanoutTypeOK
  <1>7. NoRun \in RunState
    BY RunKinds
  <1> QED
    BY <1>0, <1>2, <1>3, <1>4, <1>5, <1>6, <1>7, RunFanout

LEMMA StallsFanout ==
    ASSUME ConstantsOK, FanoutInv, NEW w \in Workers, NEW n \in Notes, JobStalls(w, n)
    PROVE  FanoutInv'
  <1>0. w \in Runners /\ w # Api
    BY DEF Runners, ConstantsOK
  <1>1. channels[n] # "IN_APP" /\ ~ToCome(n)
    BY DEF JobStalls, Holds, NoJob, FanoutInv, AtRest
  <1>2. /\ stalls' = [stalls EXCEPT ![n] = @ + 1]
        /\ (job' = [job EXCEPT ![n] = Waiting] \/ job' = [job EXCEPT ![n] = GivenUp])
        /\ UNCHANGED <<enabled, channels, status, request, sent, together, errors, dropped>>
    BY DEF JobStalls
  <1>3. /\ stalls' \in [Notes -> Nat]
        /\ job' \in [Notes -> {NoJob, Waiting, GivenUp} \cup ByWorker]
        /\ \A m \in Notes : m # n => job'[m] = job[m] /\ sent'[m] = sent[m]
    <2>1. stalls' \in [Notes -> Nat]
      BY <1>2 DEF FanoutInv, FanoutTypeOK
    <2>2. /\ job' \in [Notes -> {NoJob, Waiting, GivenUp} \cup ByWorker]
          /\ \A m \in Notes : m # n => job'[m] = job[m]
      <3>1. job \in [Notes -> {NoJob, Waiting, GivenUp} \cup ByWorker]
        BY DEF FanoutInv, FanoutTypeOK
      <3> QED
        BY <1>2, <3>1
    <2> QED
      BY <1>2, <2>1, <2>2
  <1>4. /\ status' \in [Notes -> {"none", "QUEUED", "SENT", "FAILED", "READ"}]
        /\ dropped' \in [Notes -> BOOLEAN] /\ sent' \in [Notes -> Nat]
        /\ together' \in [Notes -> Nat] /\ errors' \in [Notes -> Nat]
        /\ UNCHANGED <<enabled, channels, request>>
    BY <1>2 DEF FanoutInv, FanoutTypeOK
  <1>5. CASE run' = run /\ cut' = cut
    <2>1. Notes' = Notes /\ RunState' = RunState
      BY <1>2 DEF Notes, RunState
    <2>2. FanoutTypeOK'
      BY <1>2, <1>3, <1>4, <1>5, <2>1 DEF FanoutInv, FanoutTypeOK
    <2>3. \A m \in Notes : AtRest(m) /\ m # n => AtRest(m)'
      BY <1>3, <1>5 DEF AtRest
    <2>4. \A m \in Notes : ToCome(m)' <=> ToCome(m)
      BY <1>2 DEF ToCome
    <2> QED
      BY <1>1, <1>2, <1>5, <2>1, <2>2, <2>3, <2>4 DEF FanoutInv
  <1>6. CASE run' = [run EXCEPT ![w] = NoRun] /\ CutOff(w)
    <2>1. NoRun \in RunState /\ cut' \in [Notes -> Nat]
      BY <1>0, <1>6, RunKinds, CutOffType DEF FanoutInv
    <2> QED
      BY <1>0, <1>1, <1>3, <1>4, <1>6, <2>1, RunFanout
  <1> QED
    BY <1>5, <1>6 DEF JobStalls

LEMMA RequestFanout ==
    ASSUME ConstantsOK, FanoutInv, InlineThrows \/ RequestEnds
    PROVE  FanoutInv'
  <1>0. Api \in Runners
    BY DEF Runners
  <1>1. cut' \in [Notes -> Nat]
    BY <1>0, CutOffType DEF InlineThrows, RequestEnds, FanoutInv, FanoutTypeOK
  <1>2. /\ run' = [run EXCEPT ![Api] = NoRun]
        /\ UNCHANGED <<enabled, channels, sent, status, job>>
        /\ together' = together /\ errors' = errors /\ stalls' = stalls
    BY DEF InlineThrows, RequestEnds
  <1>3. (run[Api] # NoRun /\ request' = NextChannel)
           \/ request' = [request EXCEPT !.pc = "dead"]
    BY DEF InlineThrows, RequestEnds, NoRun
  <1>4. dropped' \in [Notes -> BOOLEAN]
    BY DEF InlineThrows, RequestEnds, FanoutInv, FanoutTypeOK
  <1>5. /\ status' \in [Notes -> {"none", "QUEUED", "SENT", "FAILED", "READ"}]
        /\ job' \in [Notes -> {NoJob, Waiting, GivenUp} \cup ByWorker]
        /\ \A m \in Notes : job[m] = NoJob => job'[m] = NoJob
    BY <1>2 DEF FanoutInv, FanoutTypeOK
  <1> QED
    BY <1>1, <1>2, <1>3, <1>4, <1>5, ApiEndsFanout

LEMMA FanoutStep == ConstantsOK /\ FanoutInv /\ [FanoutNext]_fanoutVars => FanoutInv'
  <1> SUFFICES ASSUME ConstantsOK, FanoutInv, [FanoutNext]_fanoutVars PROVE FanoutInv'
    OBVIOUS
  <1>1. CASE UNCHANGED fanoutVars
    <2>1. Notes' = Notes /\ RunState' = RunState
      BY <1>1 DEF fanoutVars, Notes, RunState
    <2> QED
      BY <1>1, <2>1 DEF fanoutVars, faults, FanoutInv, FanoutTypeOK, AtRest, ToCome
  <1>2. ASSUME NEW x \in Runners, Deliver(x) PROVE FanoutInv'
    BY <1>2, DeliverReadFanout, SendFanout, WriteFanout DEF Deliver
  <1>3. ASSUME Dispatch PROVE FanoutInv'
    BY <1>3, CreateRowFanout, AppearFanout, EnqueueFanout DEF Dispatch
  <1>4. ASSUME NEW w \in Workers,
               RunThrows(w) \/ \E n \in Notes : Take(w, n) \/ JobStalls(w, n)
        PROVE  FanoutInv'
    BY <1>4, ThrowsFanout, TakeFanout, StallsFanout
  <1> QED
    BY <1>1, <1>2, <1>3, <1>4, MarkReadFanout, RequestFanout DEF FanoutNext

\* Every step of a fan-out preserves the types.
THEOREM FanoutTypes == FanoutSpec => []FanoutTypeOK
  <1>1. FanoutSpec => []FanoutInv
    BY NotificationsAssumption, InitFanout, FanoutStep, PTL DEF FanoutSpec
  <1> QED
    BY <1>1, PTL DEF FanoutInv

-----------------------------------------------------------------------------
(* How often a message leaves, and what its row says *)

\* Runs whose message a gateway took and whose outcome is not yet written.
Told(n) == {x \in UnderWay(n) : Delivered(x)}

\* Of the runs of a row that are past the read, the first finds no message out but
\* those of runs cut off or overlapped; each further one is counted in "together",
\* and a run that is not Told and ends takes its leave to send with it.
RowInv(n) ==
    /\ Told(n) # {} => sent[n] > 0
    /\ status[n] = "SENT" => channels[n] = "IN_APP" \/ sent[n] > 0
    /\ sent[n] + Cardinality(UnderWay(n))
         <= 1 + cut[n] + together[n] + Cardinality(Told(n))
    /\ UnderWay(n) = {} /\ status[n] # "SENT" => sent[n] <= cut[n] + together[n]

DeliveryInv == \A n \in Notes : RowInv(n)

LEMMA FiniteWorkers == ConstantsOK => IsFiniteSet(Workers)
  BY DEF ConstantsOK, IsFiniteSet

LEMMA RunsCounted ==
    ASSUME ConstantsOK, NEW n
    PROVE  /\ IsFiniteSet(UnderWay(n)) /\ Cardinality(UnderWay(n)) \in Nat
           /\ IsFiniteSet(Told(n)) /\ Cardinality(Told(n)) \in Nat
           /\ Cardinality(Told(n)) <= Cardinality(UnderWay(n))
           /\ UnderWay(n) # {} => Cardinality(UnderWay(n)) > 0
  <1> DEFINE U == UnderWay(n)
             T == Told(n)
  <1>1. U \subseteq Runners /\ T \subseteq U
    BY DEF UnderWay, Told
  <1>2. IsFiniteSet(Runners)
    BY FiniteWorkers, FS_AddElement DEF Runners
  <1> HIDE DEF U, T
  <1>3. /\ IsFiniteSet(U) /\ Cardinality(U) \in Nat
        /\ IsFiniteSet(T) /\ Cardinality(T) \in Nat
        /\ Cardinality(T) <= Cardinality(U)
    BY <1>1, <1>2, FS_Subset, FS_CardinalityType
  <1>4. U # {} => Cardinality(U) > 0
    BY <1>3, FS_EmptySet
  <1> QED
    BY <1>3, <1>4 DEF U, T

LEMMA RowNumbers ==
    ASSUME FanoutTypeOK, NEW n \in Notes
    PROVE  /\ sent[n] \in Nat /\ cut[n] \in Nat /\ together[n] \in Nat
           /\ status[n] \in {"none", "QUEUED", "SENT", "FAILED", "READ"}
  BY DEF FanoutTypeOK

\* One runner moves.
LEMMA OneRuns ==
    ASSUME FanoutTypeOK, NEW x \in Runners, NEW next, run' = [run EXCEPT ![x] = next], NEW n
    PROVE  /\ UnderWay(n)' = IF next.pc \in {"send", "write"} /\ next.note = n
                             THEN UnderWay(n) \cup {x} ELSE UnderWay(n) \ {x}
           /\ Told(n)' = IF next.pc = "write" /\ next.note = n /\ next.delivered
                         THEN Told(n) \cup {x} ELSE Told(n) \ {x}
  <1>1. /\ run'[x] = next
        /\ \A y \in Runners : y # x => run'[y] = run[y]
    BY DEF FanoutTypeOK
  <1>2. UnderWay(n)' = {y \in Runners : run'[y].pc \in {"send", "write"} /\ run'[y].note = n}
    BY DEF UnderWay
  <1>3. Told(n)' = {y \in UnderWay(n)' : run'[y].pc = "write" /\ run'[y].delivered}
    BY DEF Told, Delivered
  <1>4. UnderWay(n)' = IF next.pc \in {"send", "write"} /\ next.note = n
                       THEN UnderWay(n) \cup {x} ELSE UnderWay(n) \ {x}
    BY <1>1, <1>2 DEF UnderWay
  <1>5. Told(n)' = IF next.pc = "write" /\ next.note = n /\ next.delivered
                   THEN Told(n) \cup {x} ELSE Told(n) \ {x}
    BY <1>1, <1>2, <1>3 DEF UnderWay, Told, Delivered
  <1> QED
    BY <1>4, <1>5

LEMMA IdleRuns ==
    ASSUME FanoutTypeOK, NEW x \in Runners, run' = [run EXCEPT ![x] = NoRun], NEW n
    PROVE  UnderWay(n)' = UnderWay(n) \ {x} /\ Told(n)' = Told(n) \ {x}
  <1>1. NoRun.pc = "idle"
    BY DEF NoRun
  <1> HIDE DEF NoRun
  <1> QED
    BY <1>1, OneRuns

LEMMA ReadRuns ==
    ASSUME FanoutTypeOK, NEW x \in Runners, NEW m, NEW n,
           run' = [run EXCEPT ![x] = [pc |-> "read", note |-> m]]
    PROVE  /\ UnderWay(n)' = UnderWay(n) \ {x}
           /\ Told(n)' = Told(n) \ {x}
  <1> DEFINE next == [pc |-> "read", note |-> m]
  <1>1. next.pc = "read"
    OBVIOUS
  <1>2. run' = [run EXCEPT ![x] = next]
    OBVIOUS
  <1> HIDE DEF next
  <1> QED
    BY <1>1, <1>2, OneRuns

LEMMA SendRuns ==
    ASSUME FanoutTypeOK, NEW x \in Runners, NEW m, NEW n,
           run' = [run EXCEPT ![x] = [pc |-> "send", note |-> m]]
    PROVE  /\ UnderWay(n)' = IF m = n THEN UnderWay(n) \cup {x} ELSE UnderWay(n) \ {x}
           /\ Told(n)' = Told(n) \ {x}
  <1> DEFINE next == [pc |-> "send", note |-> m]
  <1>1. next.pc = "send" /\ next.note = m
    OBVIOUS
  <1>2. run' = [run EXCEPT ![x] = next]
    OBVIOUS
  <1> HIDE DEF next
  <1> QED
    BY <1>1, <1>2, OneRuns

LEMMA WriteRuns ==
    ASSUME FanoutTypeOK, NEW x \in Runners, NEW m, NEW d \in BOOLEAN,
           run' = [run EXCEPT ![x] = [pc |-> "write", note |-> m, delivered |-> d]], NEW n
    PROVE  /\ UnderWay(n)' = IF m = n THEN UnderWay(n) \cup {x} ELSE UnderWay(n) \ {x}
           /\ (m = n /\ d) => Told(n)' = Told(n) \cup {x}
           /\ ~(m = n /\ d) => Told(n)' = Told(n) \ {x}
  <1> DEFINE next == [pc |-> "write", note |-> m, delivered |-> d]
  <1>1. next.pc = "write" /\ next.note = m /\ (next.delivered <=> d)
    OBVIOUS
  <1>2. run' = [run EXCEPT ![x] = next]
    OBVIOUS
  <1> HIDE DEF next
  <1>3. /\ UnderWay(n)' = IF next.pc \in {"send", "write"} /\ next.note = n
                          THEN UnderWay(n) \cup {x} ELSE UnderWay(n) \ {x}
        /\ Told(n)' = IF next.pc = "write" /\ next.note = n /\ next.delivered
                      THEN Told(n) \cup {x} ELSE Told(n) \ {x}
    BY <1>2, OneRuns
  <1> QED
    BY <1>1, <1>3

LEMMA RowFrame ==
    ASSUME ConstantsOK, FanoutTypeOK, NEW n \in Notes, RowInv(n), channels' = channels,
           UnderWay(n)' = UnderWay(n), Told(n)' = Told(n),
           sent'[n] = sent[n], cut'[n] = cut[n], together'[n] = together[n],
           status'[n] = status[n]
    PROVE  RowInv(n)'
  BY DEF RowInv

\* A runner that is at this row leaves it, with what it did written or cut off.
LEMMA RowLeave ==
    ASSUME ConstantsOK, FanoutTypeOK, NEW n \in Notes, RowInv(n), channels' = channels,
           NEW x \in UnderWay(n),
           UnderWay(n)' = UnderWay(n) \ {x}, Told(n)' = Told(n) \ {x},
           sent'[n] = sent[n], together'[n] = together[n],
           \/ x \in Told(n) /\ cut'[n] = cut[n] + 1 /\ status'[n] = status[n]
           \/ x \in Told(n) /\ cut'[n] = cut[n] /\ status'[n] = "SENT"
           \/ x \notin Told(n) /\ cut'[n] = cut[n] /\ status'[n] \in {status[n], "FAILED"}
    PROVE  RowInv(n)'
  <1> DEFINE U == UnderWay(n)
             U2 == UnderWay(n)'
             T == Told(n)
             T2 == Told(n)'
  <1>1. /\ IsFiniteSet(U) /\ Cardinality(U) \in Nat
        /\ IsFiniteSet(T) /\ Cardinality(T) \in Nat
    BY RunsCounted
  <1>2. U2 = U \ {x} /\ T2 = T \ {x} /\ x \in U /\ T \subseteq U
    BY DEF Told
  <1>3. /\ sent[n] \in Nat /\ cut[n] \in Nat /\ together[n] \in Nat
        /\ sent[n] + Cardinality(U) <= 1 + cut[n] + together[n] + Cardinality(T)
        /\ T # {} => sent[n] > 0
        /\ status[n] = "SENT" => channels[n] = "IN_APP" \/ sent[n] > 0
    BY RowNumbers DEF RowInv
  <1>4. \/ x \in T /\ cut'[n] = cut[n] + 1 /\ status'[n] = status[n]
        \/ x \in T /\ cut'[n] = cut[n] /\ status'[n] = "SENT"
        \/ x \notin T /\ cut'[n] = cut[n] /\ status'[n] \in {status[n], "FAILED"}
    OBVIOUS
  <1> HIDE DEF U, U2, T, T2
  <1>5. IsFiniteSet(U2) /\ Cardinality(U2) = Cardinality(U) - 1
    BY <1>1, <1>2, FS_RemoveElement
  <1>6. Cardinality(T2) = IF x \in T THEN Cardinality(T) - 1 ELSE Cardinality(T)
    <2>1. CASE x \in T
      BY <1>1, <1>2, <2>1, FS_RemoveElement
    <2>2. CASE x \notin T
      <3>1. T2 = T
        BY <1>2, <2>2
      <3> QED
        BY <2>2, <3>1
    <2> QED
      BY <2>1, <2>2
  <1>7. U2 = {} => Cardinality(U) = 1 /\ Cardinality(T2) = 0
    <2> SUFFICES ASSUME U2 = {} PROVE Cardinality(U) = 1 /\ Cardinality(T2) = 0
      OBVIOUS
    <2>1. T2 = {}
      BY <1>2
    <2>2. Cardinality({}) = 0
      BY FS_EmptySet
    <2>3. Cardinality(U2) = 0 /\ Cardinality(T2) = 0
      BY <2>1, <2>2
    <2> QED
      BY <1>1, <1>5, <2>3
  <1>8. T2 # {} => sent'[n] > 0
    BY <1>2, <1>3
  <1>9. status'[n] = "SENT" => channels'[n] = "IN_APP" \/ sent'[n] > 0
    BY <1>3, <1>4
  <1>10. sent'[n] + Cardinality(U2) <= 1 + cut'[n] + together'[n] + Cardinality(T2)
    BY <1>1, <1>3, <1>4, <1>5, <1>6
  <1>11. U2 = {} /\ status'[n] # "SENT" => sent'[n] <= cut'[n] + together'[n]
    BY <1>1, <1>3, <1>4, <1>5, <1>6, <1>7
  <1> QED
    BY <1>8, <1>9, <1>10, <1>11 DEF RowInv, U2, T2

LEMMA InitRows == ConstantsOK /\ FanoutInit => DeliveryInv
  <1> SUFFICES ASSUME ConstantsOK, FanoutInit, NEW n \in Notes PROVE RowInv(n)
    BY DEF DeliveryInv
  <1>1. UnderWay(n) = {} /\ Told(n) = {}
    BY DEF FanoutInit, NoRun, UnderWay, Told
  <1>2. Cardinality({}) = 0
    BY FS_EmptySet
  <1> QED
    BY <1>1, <1>2 DEF FanoutInit, RowInv

\* Of a row at rest, sent and counted nothing.
LEMMA RestRow ==
    ASSUME FanoutInv, NEW n \in Notes, AtRest(n)
    PROVE  UnderWay(n) = {} /\ Told(n) = {} /\ sent[n] = 0
  BY DEF FanoutInv, FanoutTypeOK, AtRest, UnderWay, Told, NoRun

LEMMA RestRows ==
    ASSUME ConstantsOK, FanoutInv, NEW n \in Notes, AtRest(n), channels' = channels,
           UNCHANGED <<run, sent, cut, together>>,
           status'[n] = "SENT" => channels[n] = "IN_APP"
    PROVE  RowInv(n)'
  <1>1. UnderWay(n) = {} /\ Told(n) = {} /\ sent[n] = 0
    BY RestRow
  <1>2. UnderWay(n)' = {} /\ Told(n)' = {} /\ sent'[n] = 0
    BY <1>1 DEF UnderWay, Told, Delivered
  <1>3. cut'[n] \in Nat /\ together'[n] \in Nat /\ Cardinality({}) = 0
    BY RowNumbers, FS_EmptySet DEF FanoutInv
  <1> QED
    BY <1>2, <1>3 DEF RowInv

\* A run is cut off: a message it had out and not yet written is counted.
LEMMA CutRow ==
    ASSUME FanoutTypeOK, NEW x \in Runners, CutOff(x), NEW n \in Notes,
           run[x].pc = "idle" => cut' = cut
    PROVE  cut'[n] = IF x \in Told(n) THEN cut[n] + 1 ELSE cut[n]
  <1>1. x \in Told(n) <=> Delivered(x) /\ run[x].note = n
    BY DEF Told, UnderWay, Delivered
  <1>2. cut \in [Notes -> Nat]
    BY DEF FanoutTypeOK
  <1>3. CASE Delivered(x)
    <2>1. cut' = [cut EXCEPT ![run[x].note] = @ + 1]
      BY <1>3 DEF CutOff
    <2> QED
      BY <1>1, <1>2, <1>3, <2>1
  <1>4. CASE ~Delivered(x)
    <2>1. cut' = [cut EXCEPT ![run[x].note] = @]
      BY <1>4 DEF CutOff
    <2> QED
      BY <1>1, <1>2, <1>4, <2>1
  <1> QED
    BY <1>3, <1>4

LEMMA CutOffRow ==
    ASSUME ConstantsOK, FanoutInv, NEW n \in Notes, RowInv(n), NEW x \in Runners,
           run' = [run EXCEPT ![x] = NoRun],
           CutOff(x) \/ (run[x].pc = "idle" /\ cut' = cut),
           UNCHANGED <<channels, status, sent, together>>
    PROVE  RowInv(n)'
  <1>0. FanoutTypeOK
    BY DEF FanoutInv
  <1>1. UnderWay(n)' = UnderWay(n) \ {x} /\ Told(n)' = Told(n) \ {x}
    BY <1>0, IdleRuns
  <1>2. cut'[n] = IF x \in Told(n) THEN cut[n] + 1 ELSE cut[n]
    <2>1. CASE CutOff(x)
      <3>1. run[x].pc = "idle" => cut' = cut
        <4> SUFFICES ASSUME run[x].pc = "idle" PROVE cut' = cut
          OBVIOUS
        <4>1. ~Delivered(x)
          BY DEF Delivered
        <4>2. cut' = [cut EXCEPT ![run[x].note] = @]
          BY <2>1, <4>1 DEF CutOff
        <4>3. cut \in [Notes -> Nat]
          BY <1>0 DEF FanoutTypeOK
        <4> QED
          BY <4>2, <4>3
      <3> QED
        BY <1>0, <2>1, <3>1, CutRow
    <2>2. CASE run[x].pc = "idle" /\ cut' = cut
      BY <2>2 DEF Told, UnderWay
    <2> QED
      BY <2>1, <2>2
  <1>3. CASE x \in UnderWay(n)
    <2>1. /\ sent'[n] = sent[n] /\ together'[n] = together[n] /\ channels' = channels
          /\ \/ x \in Told(n) /\ cut'[n] = cut[n] + 1 /\ status'[n] = status[n]
             \/ x \in Told(n) /\ cut'[n] = cut[n] /\ status'[n] = "SENT"
             \/ x \notin Told(n) /\ cut'[n] = cut[n] /\ status'[n] \in {status[n], "FAILED"}
      BY <1>2
    <2> QED
      BY <1>0, <1>1, <1>3, <2>1, RowLeave
  <1>4. CASE x \notin UnderWay(n)
    <2>1. /\ x \notin Told(n) /\ UnderWay(n)' = UnderWay(n) /\ Told(n)' = Told(n)
      BY <1>1, <1>4 DEF Told
    <2> QED
      BY <1>0, <1>2, <2>1, RowFrame
  <1> QED
    BY <1>3, <1>4

LEMMA DispatchRows ==
    ASSUME ConstantsOK, FanoutInv, NEW n \in Notes, RowInv(n), Dispatch
    PROVE  RowInv(n)'
  <1>0. FanoutTypeOK
    BY DEF FanoutInv
  <1>1. CASE CreateRow
    <2>1. /\ request.at \in Notes /\ AtRest(request.at)
      BY <1>0, <1>1, ChannelCount DEF CreateRow, At, FanoutInv, ToCome
    <2>2. /\ channels' = channels /\ UNCHANGED <<run, sent, cut, together>>
          /\ status' = [status EXCEPT ![request.at] = "QUEUED"]
      BY <1>1 DEF CreateRow, faults
    <2>3. CASE n = request.at
      <3>1. status'[n] = "QUEUED"
        BY <1>0, <2>2, <2>3 DEF FanoutTypeOK
      <3> QED
        BY <2>1, <2>2, <2>3, <3>1, RestRows
    <2>4. CASE n # request.at
      <3>1. status'[n] = status[n]
        BY <1>0, <2>2, <2>4 DEF FanoutTypeOK
      <3>2. UnderWay(n)' = UnderWay(n) /\ Told(n)' = Told(n)
        BY <2>2 DEF UnderWay, Told, Delivered
      <3> QED
        BY <1>0, <2>2, <3>1, <3>2, RowFrame
    <2> QED
      BY <2>3, <2>4
  <1>2. CASE Appear
    <2>1. /\ request.at \in Notes /\ channels[request.at] = "IN_APP" /\ AtRest(request.at)
      BY <1>0, <1>2, ChannelCount DEF Appear, At, FanoutInv
    <2>2. /\ channels' = channels /\ UNCHANGED <<run, sent, cut, together>>
          /\ status' = [status EXCEPT ![request.at] = "SENT"]
      BY <1>2 DEF Appear, faults
    <2>3. CASE n = request.at
      BY <2>1, <2>2, <2>3, RestRows
    <2>4. CASE n # request.at
      <3>1. status'[n] = status[n]
        BY <1>0, <2>2, <2>4 DEF FanoutTypeOK
      <3>2. UnderWay(n)' = UnderWay(n) /\ Told(n)' = Told(n)
        BY <2>2 DEF UnderWay, Told, Delivered
      <3> QED
        BY <1>0, <2>2, <3>1, <3>2, RowFrame
    <2> QED
      BY <2>3, <2>4
  <1>3. CASE Enqueue
    <2>1. channels' = channels /\ UNCHANGED <<status, sent, cut, together>>
      BY <1>3 DEF Enqueue, faults
    <2>2. run[Api] = NoRun
      BY <1>3 DEF Enqueue, At, FanoutInv
    <2>3. run' = run \/ run' = [run EXCEPT ![Api] = [pc |-> "read", note |-> request.at]]
      BY <1>3 DEF Enqueue, StartInline
    <2>4. UnderWay(n)' = UnderWay(n) /\ Told(n)' = Told(n)
      <3>1. CASE run' = run
        BY <3>1 DEF UnderWay, Told, Delivered
      <3>2. CASE run' = [run EXCEPT ![Api] = [pc |-> "read", note |-> request.at]]
        <4>1. Api \in Runners /\ run[Api].pc = "idle"
          BY <2>2 DEF NoRun, Runners
        <4>2. Api \notin UnderWay(n) /\ Api \notin Told(n)
          BY <4>1 DEF UnderWay, Told
        <4>3. UnderWay(n)' = UnderWay(n) \ {Api} /\ Told(n)' = Told(n) \ {Api}
          BY <1>0, <3>2, <4>1, ReadRuns
        <4> QED
          BY <4>2, <4>3
      <3> QED
        BY <2>3, <3>1, <3>2
    <2> QED
      BY <1>0, <2>1, <2>4, RowFrame
  <1> QED
    BY <1>1, <1>2, <1>3 DEF Dispatch

LEMMA MarkReadRows ==
    ASSUME ConstantsOK, FanoutInv, NEW n \in Notes, RowInv(n), NEW m \in Notes, MarkRead(m)
    PROVE  RowInv(n)'
  <1>1. /\ channels' = channels /\ UNCHANGED <<run, sent, cut, together>>
        /\ status' = [status EXCEPT ![m] = "READ"] /\ AtRest(m)
    BY DEF MarkRead, faults, FanoutInv
  <1>2. CASE n = m
    <2>1. status'[n] = "READ"
      BY <1>1, <1>2 DEF FanoutInv, FanoutTypeOK
    <2> QED
      BY <1>1, <1>2, <2>1, RestRows
  <1>3. CASE n # m
    <2>1. status'[n] = status[n]
      BY <1>1, <1>3 DEF FanoutInv, FanoutTypeOK
    <2>2. UnderWay(n)' = UnderWay(n) /\ Told(n)' = Told(n)
      BY <1>1 DEF UnderWay, Told, Delivered
    <2> QED
      BY <1>1, <2>1, <2>2, RowFrame DEF FanoutInv
  <1> QED
    BY <1>2, <1>3

LEMMA TakeRows ==
    ASSUME ConstantsOK, FanoutInv, NEW n \in Notes, RowInv(n),
           NEW w \in Workers, NEW m \in Notes, Take(w, m)
    PROVE  RowInv(n)'
  <1>0. FanoutTypeOK /\ w \in Runners
    BY DEF FanoutInv, Runners
  <1>1. /\ channels' = channels /\ UNCHANGED <<status, sent, cut, together>>
        /\ run' = [run EXCEPT ![w] = [pc |-> "read", note |-> m]]
        /\ run[w].pc = "idle"
    BY DEF Take, faults, NoRun
  <1>2. w \notin UnderWay(n) /\ w \notin Told(n)
    BY <1>1 DEF UnderWay, Told
  <1>3. UnderWay(n)' = UnderWay(n) \ {w} /\ Told(n)' = Told(n) \ {w}
    BY <1>0, <1>1, ReadRuns
  <1> QED
    BY <1>0, <1>1, <1>2, <1>3, RowFrame

LEMMA DeliverReadRows ==
    ASSUME ConstantsOK, FanoutInv, NEW n \in Notes, RowInv(n),
           NEW x \in Runners, DeliverRead(x)
    PROVE  RowInv(n)'
  <1>0. FanoutTypeOK
    BY DEF FanoutInv
  <1>1. PICK m \in Notes : m = run[x].note
    BY AtWorkOn DEF DeliverRead
  <1>2. /\ run[x].pc = "read" /\ x \notin UnderWay(n) /\ x \notin Told(n)
        /\ UNCHANGED <<channels, status, sent, cut>>
    BY DEF DeliverRead, UnderWay, Told
  <1>3. CASE status[m] = "SENT"
    <2>1. run' = [run EXCEPT ![x] = NoRun] /\ together' = together
      BY <1>1, <1>3 DEF DeliverRead, Return
    <2>2. UnderWay(n)' = UnderWay(n) \ {x} /\ Told(n)' = Told(n) \ {x}
      BY <1>0, <2>1, IdleRuns
    <2> QED
      BY <1>0, <1>2, <2>1, <2>2, RowFrame
  <1>4. CASE status[m] # "SENT"
    <2>1. /\ run' = [run EXCEPT ![x] = [run[x] EXCEPT !.pc = "send"]]
          /\ together' = [together EXCEPT ![m] = IF UnderWay(m) = {} THEN @ ELSE @ + 1]
      BY <1>0, <1>1, <1>4 DEF DeliverRead, FanoutTypeOK
    <2>2. [run[x] EXCEPT !.pc = "send"] = [pc |-> "send", note |-> m]
      <3>1. run[x] \in RunState
        BY <1>0 DEF FanoutTypeOK
      <3> QED
        BY <1>1, <1>2, <3>1, RunKinds
    <2>3. run' = [run EXCEPT ![x] = [pc |-> "send", note |-> m]]
      BY <2>1, <2>2
    <2>4. /\ UnderWay(n)' = IF m = n THEN UnderWay(n) \cup {x} ELSE UnderWay(n) \ {x}
          /\ Told(n)' = Told(n) \ {x}
      BY <1>0, <2>3, SendRuns
    <2>5. CASE m # n
      <3>1. together'[n] = together[n]
        BY <1>0, <2>1, <2>5 DEF FanoutTypeOK
      <3>2. UnderWay(n)' = UnderWay(n) /\ Told(n)' = Told(n)
        BY <1>2, <2>4, <2>5
      <3> QED
        BY <1>0, <1>2, <3>1, <3>2, RowFrame
    <2>6. CASE m = n
      <3> DEFINE U == UnderWay(n)
                 U2 == UnderWay(n)'
                 T == Told(n)
                 T2 == Told(n)'
      <3>1. /\ IsFiniteSet(U) /\ Cardinality(U) \in Nat
            /\ IsFiniteSet(T) /\ Cardinality(T) \in Nat
        BY RunsCounted
      <3>2. U2 = U \cup {x} /\ x \notin U /\ T2 = T /\ T \subseteq U
        BY <1>2, <2>4, <2>6 DEF Told
      <3>3. /\ sent[n] \in Nat /\ cut[n] \in Nat /\ together[n] \in Nat
            /\ sent[n] + Cardinality(U) <= 1 + cut[n] + together[n] + Cardinality(T)
            /\ U = {} => sent[n] <= cut[n] + together[n]
            /\ T # {} => sent[n] > 0
            /\ status[n] = "SENT" => channels[n] = "IN_APP" \/ sent[n] > 0
        BY <1>0, <1>4, <2>6, RowNumbers DEF RowInv
      <3>4. together'[n] = IF U = {} THEN together[n] ELSE together[n] + 1
        BY <1>0, <2>1, <2>6 DEF FanoutTypeOK
      <3>5. sent'[n] = sent[n] /\ cut'[n] = cut[n] /\ status'[n] = status[n]
            /\ channels' = channels
        BY <1>2
      <3> HIDE DEF U, U2, T, T2
      <3>6. Cardinality(U2) = Cardinality(U) + 1 /\ U2 # {}
        BY <3>1, <3>2, FS_AddElement
      <3>7. U = {} => Cardinality(U) = 0
        BY FS_EmptySet
      <3>8. sent'[n] + Cardinality(U2) <= 1 + cut'[n] + together'[n] + Cardinality(T2)
        BY <3>1, <3>2, <3>3, <3>4, <3>5, <3>6, <3>7
      <3>9. /\ T2 # {} => sent'[n] > 0
            /\ status'[n] = "SENT" => channels'[n] = "IN_APP" \/ sent'[n] > 0
        BY <3>2, <3>3, <3>5
      <3> QED
        BY <3>6, <3>8, <3>9 DEF RowInv, U2, T2
    <2> QED
      BY <2>5, <2>6
  <1> QED
    BY <1>3, <1>4

LEMMA SendRows ==
    ASSUME ConstantsOK, FanoutInv, NEW n \in Notes, RowInv(n),
           NEW x \in Runners, Send(x)
    PROVE  RowInv(n)'
  <1>0. FanoutTypeOK
    BY DEF FanoutInv
  <1>1. PICK m \in Notes : m = run[x].note
    BY AtWorkOn DEF Send
  <1>2. PICK d \in BOOLEAN :
          /\ run' = [run EXCEPT ![x] = [pc |-> "write", note |-> m, delivered |-> d]]
          /\ sent' = [sent EXCEPT ![m] = IF d THEN @ + 1 ELSE @]
    BY <1>1 DEF Send
  <1>3. /\ channels' = channels /\ UNCHANGED <<status, cut, together>>
        /\ run[x].pc = "send" /\ x \notin Told(n) /\ (x \in UnderWay(n) <=> m = n)
    BY <1>1 DEF Send, faults, Told, Delivered, UnderWay
  <1>4. /\ UnderWay(n)' = IF m = n THEN UnderWay(n) \cup {x} ELSE UnderWay(n) \ {x}
        /\ (m = n /\ d) => Told(n)' = Told(n) \cup {x}
        /\ ~(m = n /\ d) => Told(n)' = Told(n) \ {x}
    BY <1>0, <1>2, WriteRuns
  <1>5. UnderWay(n)' = UnderWay(n)
    BY <1>3, <1>4
  <1>6. CASE m # n \/ ~d
    <2>1. sent'[n] = sent[n] /\ Told(n)' = Told(n)
      BY <1>0, <1>2, <1>3, <1>4, <1>6 DEF FanoutTypeOK
    <2> QED
      BY <1>0, <1>3, <1>5, <2>1, RowFrame
  <1>7. CASE m = n /\ d
    <2> DEFINE U2 == UnderWay(n)'
               T == Told(n)
               T2 == Told(n)'
    <2>1. /\ IsFiniteSet(T) /\ Cardinality(T) \in Nat
          /\ Cardinality(UnderWay(n)) \in Nat
      BY RunsCounted
    <2>2. T2 = T \cup {x} /\ x \notin T /\ U2 = UnderWay(n) /\ x \in U2
      BY <1>3, <1>4, <1>5, <1>7
    <2>3. /\ sent[n] \in Nat /\ cut[n] \in Nat /\ together[n] \in Nat
          /\ sent[n] + Cardinality(U2) <= 1 + cut[n] + together[n] + Cardinality(T)
      BY <1>0, <2>2, RowNumbers DEF RowInv
    <2>4. sent'[n] = sent[n] + 1 /\ cut'[n] = cut[n] /\ together'[n] = together[n]
      BY <1>0, <1>2, <1>3, <1>7 DEF FanoutTypeOK
    <2>5. Cardinality(U2) \in Nat
      BY <2>1, <2>2
    <2> HIDE DEF U2, T, T2
    <2>6. Cardinality(T2) = Cardinality(T) + 1
      BY <2>1, <2>2, FS_AddElement
    <2>7. sent'[n] > 0 /\ U2 # {}
      BY <2>2, <2>3, <2>4
    <2>8. sent'[n] + Cardinality(U2) <= 1 + cut'[n] + together'[n] + Cardinality(T2)
      BY <2>1, <2>3, <2>4, <2>5, <2>6
    <2> QED
      BY <2>7, <2>8 DEF RowInv, U2, T2
  <1> QED
    BY <1>6, <1>7

LEMMA WriteRows ==
    ASSUME ConstantsOK, FanoutInv, NEW n \in Notes, RowInv(n),
           NEW x \in Runners, WriteOutcome(x)
    PROVE  RowInv(n)'
  <1>0. FanoutTypeOK
    BY DEF FanoutInv
  <1>1. PICK m \in Notes : m = run[x].note
    BY AtWorkOn DEF WriteOutcome
  <1>2. /\ run[x].pc = "write" /\ run' = [run EXCEPT ![x] = NoRun]
        /\ channels' = channels /\ UNCHANGED <<sent, cut, together>>
        /\ status' = [status EXCEPT ![m] = IF run[x].delivered THEN "SENT" ELSE "FAILED"]
    BY <1>1 DEF WriteOutcome, Return, faults
  <1>3. /\ x \in UnderWay(n) <=> m = n
        /\ x \in Told(n) <=> (m = n /\ run[x].delivered)
    BY <1>1, <1>2 DEF UnderWay, Told, Delivered
  <1>4. UnderWay(n)' = UnderWay(n) \ {x} /\ Told(n)' = Told(n) \ {x}
    BY <1>0, <1>2, IdleRuns
  <1>5. CASE m = n
    <2>1. status'[n] = IF run[x].delivered THEN "SENT" ELSE "FAILED"
      BY <1>0, <1>2, <1>5 DEF FanoutTypeOK
    <2>2. /\ x \in UnderWay(n) /\ sent'[n] = sent[n] /\ together'[n] = together[n]
          /\ \/ x \in Told(n) /\ cut'[n] = cut[n] + 1 /\ status'[n] = status[n]
             \/ x \in Told(n) /\ cut'[n] = cut[n] /\ status'[n] = "SENT"
             \/ x \notin Told(n) /\ cut'[n] = cut[n] /\ status'[n] \in {status[n], "FAILED"}
      BY <1>2, <1>3, <1>5, <2>1
    <2> QED
      BY <1>0, <1>2, <1>4, <2>2, RowLeave
  <1>6. CASE m # n
    <2>1. /\ status'[n] = status[n]
          /\ UnderWay(n)' = UnderWay(n) /\ Told(n)' = Told(n)
      BY <1>0, <1>2, <1>3, <1>4, <1>6 DEF FanoutTypeOK
    <2> QED
      BY <1>0, <1>2, <2>1, RowFrame
  <1> QED
    BY <1>5, <1>6

LEMMA FaultRows ==
    ASSUME ConstantsOK, FanoutInv, NEW n \in Notes, RowInv(n),
           \/ \E w \in Workers : RunThrows(w)
           \/ \E w \in Workers, m \in Notes : JobStalls(w, m)
           \/ InlineThrows \/ RequestEnds
    PROVE  RowInv(n)'
  <1>1. UNCHANGED <<channels, status, sent, together>>
    BY DEF RunThrows, JobStalls, InlineThrows, RequestEnds
  <1>2. CASE run' = run /\ cut' = cut
    <2>1. UnderWay(n)' = UnderWay(n) /\ Told(n)' = Told(n)
      BY <1>2 DEF UnderWay, Told, Delivered
    <2> QED
      BY <1>1, <1>2, <2>1, RowFrame DEF FanoutInv
  <1>3. CASE ~(run' = run /\ cut' = cut)
    <2>1. PICK x \in Runners :
             /\ run' = [run EXCEPT ![x] = NoRun]
             /\ CutOff(x) \/ (run[x].pc = "idle" /\ cut' = cut)
      BY <1>3 DEF RunThrows, JobStalls, InlineThrows, RequestEnds, Runners, NoRun
    <2> QED
      BY <1>1, <2>1, CutOffRow
  <1> QED
    BY <1>2, <1>3

LEMMA DeliveryStep ==
    ConstantsOK /\ FanoutInv /\ DeliveryInv /\ [FanoutNext]_fanoutVars => DeliveryInv'
  <1> SUFFICES ASSUME ConstantsOK, FanoutInv, DeliveryInv, [FanoutNext]_fanoutVars
               PROVE  DeliveryInv'
    OBVIOUS
  <1>1. channels' = channels
    BY DEF FanoutNext, fanoutVars, Dispatch, CreateRow, Appear, Enqueue, Deliver,
           DeliverRead, Send, WriteOutcome, RunThrows, Take, JobStalls, MarkRead, InlineThrows, RequestEnds
  <1>2. Notes' = Notes
    BY <1>1 DEF Notes
  <1>3. ASSUME NEW n \in Notes
        PROVE  RowInv(n)'
    <2>0. RowInv(n) /\ FanoutTypeOK
      BY DEF DeliveryInv, FanoutInv
    <2>1. CASE UNCHANGED fanoutVars
      <3>1. UNCHANGED <<run, sent, cut, together, status>>
        BY <2>1 DEF fanoutVars
      <3>2. UnderWay(n)' = UnderWay(n) /\ Told(n)' = Told(n)
        BY <3>1 DEF UnderWay, Told, Delivered
      <3> QED
        BY <1>1, <2>0, <3>1, <3>2, RowFrame
    <2>2. ASSUME NEW x \in Runners, Deliver(x) PROVE RowInv(n)'
      BY <2>0, <2>2, DeliverReadRows, SendRows, WriteRows DEF Deliver
    <2>3. ASSUME NEW w \in Workers, NEW m \in Notes, Take(w, m) PROVE RowInv(n)'
      BY <2>0, <2>3, TakeRows
    <2>4. ASSUME NEW m \in Notes, MarkRead(m) PROVE RowInv(n)'
      BY <2>0, <2>4, MarkReadRows
    <2>5. ASSUME \/ \E w \in Workers : RunThrows(w)
                 \/ \E w \in Workers, m \in Notes : JobStalls(w, m)
                 \/ InlineThrows \/ RequestEnds
          PROVE  RowInv(n)'
      BY <2>0, <2>5, FaultRows
    <2>6. CASE Dispatch
      BY <2>0, <2>6, DispatchRows
    <2> QED
      BY <2>1, <2>2, <2>3, <2>4, <2>5, <2>6 DEF FanoutNext
  <1> QED
    BY <1>2, <1>3 DEF DeliveryInv

LEMMA FanoutCorrect == FanoutSpec => [](FanoutInv /\ DeliveryInv)
  BY NotificationsAssumption, InitFanout, InitRows, FanoutStep, DeliveryStep, PTL
     DEF FanoutSpec

\* A message leaves once, and once more only for each run that was cut off between
\* the gateway's answer and the row, or began while another was under way.
THEOREM SentOnce == FanoutSpec => []SentOnceUnlessDisturbed
  <1>1. FanoutInv /\ DeliveryInv => SentOnceUnlessDisturbed
    <2> SUFFICES ASSUME FanoutInv, DeliveryInv, NEW n \in Notes
                 PROVE  sent[n] <= 1 + cut[n] + together[n]
      BY DEF SentOnceUnlessDisturbed
    <2>1. /\ sent[n] + Cardinality(UnderWay(n))
               <= 1 + cut[n] + together[n] + Cardinality(Told(n))
          /\ sent[n] \in Nat /\ cut[n] \in Nat /\ together[n] \in Nat
      BY NotificationsAssumption, RowNumbers DEF FanoutInv, DeliveryInv, RowInv
    <2>2. /\ Cardinality(UnderWay(n)) \in Nat /\ Cardinality(Told(n)) \in Nat
          /\ Cardinality(Told(n)) <= Cardinality(UnderWay(n))
      BY NotificationsAssumption, RunsCounted
    <2> QED
      BY <2>1, <2>2
  <1> QED
    BY <1>1, FanoutCorrect, PTL

\* Once nobody is at a row, SENT was sent, and FAILED was not, unless runs of it were
\* cut off or overlapped.
THEOREM OutcomesAreTrue == FanoutSpec => []OutcomeIsTrue
  <1>1. FanoutInv /\ DeliveryInv => OutcomeIsTrue
    <2> SUFFICES ASSUME FanoutInv, DeliveryInv, NEW n \in Notes,
                        channels[n] # "IN_APP", UnderWay(n) = {}
                 PROVE  /\ status[n] = "SENT" => sent[n] > 0
                        /\ status[n] = "FAILED" /\ cut[n] + together[n] = 0 => sent[n] = 0
      BY DEF OutcomeIsTrue
    <2>1. RowInv(n) /\ sent[n] \in Nat /\ cut[n] \in Nat /\ together[n] \in Nat
      BY NotificationsAssumption, RowNumbers DEF FanoutInv, DeliveryInv
    <2> QED
      BY <2>1 DEF RowInv
  <1> QED
    BY <1>1, FanoutCorrect, PTL
=============================================================================
