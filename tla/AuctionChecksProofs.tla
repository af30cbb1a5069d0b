-------------------------- MODULE AuctionChecksProofs --------------------------
(***************************************************************************)
(* Lemmas about the database and the checks that the proofs of the servers *)
(* share: what the tables hold at every step of setup_db.sh, what the      *)
(* queries return, and that what was read stays read.                      *)
(***************************************************************************)
EXTENDS AuctionChecks, FiniteSetTheorems, TLAPS

(* The part of TypeOK about the database.                                   *)
DBTypeOK ==
  /\ \E r \in Reloads : old = r.old /\ fresh = r.fresh
  /\ step \in 0..LastStep

(* The five names.                                                          *)
LEMMA TableNames ==
  /\ Tables = {"advertisers", "ads_sizes", "adses", "category_blockings",
               "ads_features"}
  /\ \A t \in Tables : Position[t] \in 1..5
BY DEF Tables, Position

(* At every step of the script a table that exists holds rows of the old    *)
(* contents, rows of the new ones, or nothing.                              *)
LEMMA RowsOfTable ==
  ASSUME NEW v \in 0..LastStep, NEW t \in Tables, t \in DOMAIN DBAt(v), DBTypeOK
  PROVE  DBAt(v)[t] \subseteq old[t] \cup fresh[t]
BY TableNames DEF DBAt, LastStep, DBTypeOK

LEMMA RowTypes ==
  ASSUME DBTypeOK
  PROVE  /\ IsDatabase(old)
         /\ IsDatabase(fresh)
BY ReloadsAreDatabases DEF DBTypeOK

(* What the SELECTs return is typed, whichever contents they read.          *)
LEMMA QueryTypes ==
  ASSUME NEW v \in 0..LastStep, DBTypeOK
  PROVE  /\ "adses" \in DOMAIN DBAt(v) => SelectAdses(DBAt(v)) \subseteq Ads
         /\ "advertisers" \in DOMAIN DBAt(v) =>
              \A i : SelectAdvertiser(DBAt(v), i) \subseteq Advertiser
         /\ "ads_features" \in DOMAIN DBAt(v) =>
              \A i : SelectAdsFeature(DBAt(v), i) \subseteq AdsFeature
BY RowsOfTable, RowTypes, TableNames
   DEF SelectAdses, SelectAdvertiser, SelectAdsFeature, IsDatabase, Tabular

LEMMA AdsesKeyed ==
  ASSUME NEW v \in 0..LastStep, DBTypeOK, "adses" \in DOMAIN DBAt(v)
  PROVE  Unique(SelectAdses(DBAt(v)), "ads_id")
<1>1. SelectAdses(DBAt(v)) \in {old["adses"], fresh["adses"], {}}
  BY TableNames DEF DBAt, SelectAdses
<1> QED
  BY <1>1, RowTypes DEF IsDatabase, Tabular, Unique

(* Before the script, and as soon as it has created the tables, the         *)
(* contents are those of five tables with their keys.                       *)
LEMMA WholeIsTabular ==
  ASSUME NEW v \in 0..LastStep, DBTypeOK, Whole(v)
  PROVE  Tabular(DBAt(v))
<1>1. CASE v = 0
  BY <1>1, RowTypes DEF DBAt, IsDatabase
<1>2. CASE v # 0
  <2>1. DBAt(v) = [t \in Tables |-> IF Position[t] + 6 <= v THEN fresh[t] ELSE {}]
    BY <1>2 DEF DBAt, Whole
  <2>2. \A t \in Tables : DBAt(v)[t] \in {fresh[t], {}}
    BY <2>1
  <2>3. IsFiniteSet({})
    BY FS_EmptySet
  <2> QED
    BY <2>1, <2>2, <2>3, RowTypes, TableNames DEF IsDatabase, Tabular, Unique
<1> QED
  BY <1>1, <1>2

(* The statements that read the database.                                   *)
LEMMA QueryNames ==
  Queries = {"fetchAdses", "fetchAdSize", "fetchAdvertiser",
             "fetchAdvertiserAgain", "fetchCategoryBlocking", "fetchAdsFeature"}
BY DEF Queries, TableOf
-----------------------------------------------------------------------------
(* What was read stays read: the contents at a step never change, and the   *)
(* steps only grow.                                                         *)
LEMMA HistoryIsRigid ==
  ASSUME UNCHANGED <<old, fresh>>, NEW v \in 0..LastStep
  PROVE  DBAt(v)' = DBAt(v)
BY DEF DBAt

LEMMA Persists ==
  ASSUME UNCHANGED <<old, fresh>>, step \in 0..LastStep, step' \in 0..LastStep,
         step <= step', NEW a, NEW rq, NEW found, NEW from \in 0..LastStep
  PROVE  /\ Read(a, from, step) => Read(a, from, step)'
         /\ ReadAndFits(a, rq, from, step) => ReadAndFits(a, rq, from, step)'
         /\ AlsoDomain(a, rq, from, step) => AlsoDomain(a, rq, from, step)'
         /\ AdvertiserRead(a, rq, found, from, step) =>
              AdvertiserRead(a, rq, found, from, step)'
         /\ AlsoCategory(a, rq, from, step) => AlsoCategory(a, rq, from, step)'
         /\ AlsoFeature(a, rq, from, step) => AlsoFeature(a, rq, from, step)'
<1> USE DEF LastStep
<1>0. \A v \in from..step : v \in from..step' /\ v \in 0..LastStep
  OBVIOUS
<1>1. \A v \in 0..LastStep : DBAt(v)' = DBAt(v) /\ \A t : Exists(t, v)' = Exists(t, v)
  BY HistoryIsRigid DEF Exists
<1>2. \A v \in 0..LastStep : Read(a, from, v)' = Read(a, from, v)
  BY <1>1 DEF Read
<1>3. \A v \in 0..LastStep : ReadAndFits(a, rq, from, v)' = ReadAndFits(a, rq, from, v)
  BY <1>1, <1>2 DEF ReadAndFits
<1>4. \A v \in 0..LastStep : AlsoDomain(a, rq, from, v)' = AlsoDomain(a, rq, from, v)
  BY <1>1, <1>3 DEF AlsoDomain
<1>5. \A v \in 0..LastStep : AlsoCategory(a, rq, from, v)' = AlsoCategory(a, rq, from, v)
  BY <1>1, <1>4 DEF AlsoCategory
<1>6. Read(a, from, step) => Read(a, from, step)'
  BY <1>0, <1>1 DEF Read
<1>7. ReadAndFits(a, rq, from, step) => ReadAndFits(a, rq, from, step)'
  BY <1>0, <1>1, <1>2 DEF ReadAndFits
<1>8. AlsoDomain(a, rq, from, step) => AlsoDomain(a, rq, from, step)'
  BY <1>0, <1>1, <1>3 DEF AlsoDomain
<1>9. AdvertiserRead(a, rq, found, from, step) => AdvertiserRead(a, rq, found, from, step)'
  BY <1>0, <1>1, <1>4 DEF AdvertiserRead
<1>10. AlsoCategory(a, rq, from, step) => AlsoCategory(a, rq, from, step)'
  BY <1>0, <1>1, <1>4 DEF AlsoCategory
<1>11. AlsoFeature(a, rq, from, step) => AlsoFeature(a, rq, from, step)'
  BY <1>0, <1>1, <1>5 DEF AlsoFeature
<1> QED
  BY <1>6, <1>7, <1>8, <1>9, <1>10, <1>11

LEMMA AlsoDomainIsRigid ==
  ASSUME UNCHANGED <<old, fresh>>, NEW a, NEW rq, NEW from \in 0..LastStep,
         NEW to \in 0..LastStep
  PROVE  /\ Read(a, from, to)' = Read(a, from, to)
         /\ ReadAndFits(a, rq, from, to)' = ReadAndFits(a, rq, from, to)
         /\ AlsoDomain(a, rq, from, to)' = AlsoDomain(a, rq, from, to)
<1> USE DEF LastStep
<1>1. \A v \in 0..LastStep :
        DBAt(v)' = DBAt(v) /\ \A t : Exists(t, v)' = Exists(t, v)
  BY HistoryIsRigid DEF Exists
<1>2. \A v \in 0..LastStep : Read(a, from, v)' = Read(a, from, v)
  BY <1>1 DEF Read
<1>3. \A v \in 0..LastStep : ReadAndFits(a, rq, from, v)' = ReadAndFits(a, rq, from, v)
  BY <1>1, <1>2 DEF ReadAndFits
<1>4. AlsoDomain(a, rq, from, to)' = AlsoDomain(a, rq, from, to)
  BY <1>1, <1>3 DEF AlsoDomain
<1> QED
  BY <1>2, <1>3, <1>4

LEMMA AlsoFeatureIsRigid ==
  ASSUME UNCHANGED <<old, fresh>>, NEW a, NEW rq, NEW from \in 0..LastStep,
         NEW to \in 0..LastStep
  PROVE  AlsoFeature(a, rq, from, to)' = AlsoFeature(a, rq, from, to)
<1> USE DEF LastStep
<1>1. \A v \in 0..LastStep :
        DBAt(v)' = DBAt(v) /\ \A t : Exists(t, v)' = Exists(t, v)
  BY HistoryIsRigid DEF Exists
<1>2. \A v \in 0..LastStep : Read(a, from, v)' = Read(a, from, v)
  BY <1>1 DEF Read
<1>3. \A v \in 0..LastStep : ReadAndFits(a, rq, from, v)' = ReadAndFits(a, rq, from, v)
  BY <1>1, <1>2 DEF ReadAndFits
<1>4. \A v \in 0..LastStep : AlsoDomain(a, rq, from, v)' = AlsoDomain(a, rq, from, v)
  BY <1>1, <1>3 DEF AlsoDomain
<1>5. \A v \in 0..LastStep : AlsoCategory(a, rq, from, v)' = AlsoCategory(a, rq, from, v)
  BY <1>1, <1>4 DEF AlsoCategory
<1> QED
  BY <1>1, <1>5 DEF AlsoFeature
-----------------------------------------------------------------------------
(* The rows that the size loop, the domain loop and the category loop keep  *)
(* over contents d that nobody changes, and the ads of one advertiser.      *)
Fitting(d, rq) ==
  {a \in SelectAdses(d) : SizeMatches(SelectAdSize(d, a.size_id), rq)}
Unblocked(d, rq) ==
  {a \in Fitting(d, rq) : DomainPasses(SelectAdvertiser(d, a.advertiser_id), rq)}
Wanted(d, rq) ==
  {a \in Unblocked(d, rq) :
     CategoryPasses(SelectAdvertiser(d, a.advertiser_id),
                    SelectCategories(d, a.advertiser_id), rq)}

Group(rows, a) == {b \in rows : b.advertiser_id = a.advertiser_id}
FeaturesOf(d, rows) ==
  {f \in d["ads_features"] : \E b \in rows : b.ads_id = f.ads_id}

(* The first of the features at the least distance, as every server finds it. *)
Nearest(ads_features, request_feature) ==
  Least({f \in ads_features :
           \A g \in ads_features :
             Abs(request_feature - f.feature) <= Abs(request_feature - g.feature)},
        "ads_id")

(* What Taken changes, and that the outcome is contents with keys.          *)
LEMMA TakenColumns ==
  ASSUME NEW d, Tabular(d)
  PROVE  /\ \A t \in Tables : t \notin {"advertisers", "category_blockings"} =>
              Taken(d)[t] = d[t]
         /\ Taken(d) = [t \in Tables |-> Taken(d)[t]]
         /\ Taken(d)["category_blockings"] = CheckedRows(d)
         /\ Taken(d)["advertisers"] =
              {[v EXCEPT !.category_blocking_type = TakenType(d, v)] :
                 v \in d["advertisers"]}
BY TableNames DEF Taken, Tabular

LEMMA TakenSelects ==
  ASSUME NEW d, Tabular(d)
  PROVE  /\ SelectAdses(Taken(d)) = SelectAdses(d)
         /\ \A i : /\ SelectAdSize(Taken(d), i) = SelectAdSize(d, i)
                   /\ SelectAdsFeature(Taken(d), i) = SelectAdsFeature(d, i)
BY TakenColumns, TableNames DEF SelectAdses, SelectAdSize, SelectAdsFeature

(* A type that is known is one of the two, and so is the type as it is taken. *)
LEMMA TakenTypes ==
  ASSUME NEW d, NEW v \in Advertiser
  PROVE  /\ TakenType(d, v) \in {ALLOW, DENY}
         /\ [v EXCEPT !.category_blocking_type = TakenType(d, v)] \in Advertiser
BY DEF TakenType, Known, ALLOW, DENY, Advertiser

LEMMA TakenIsTabular ==
  ASSUME NEW d, Tabular(d)
  PROVE  Tabular(Taken(d))
<1> DEFINE taken(v) == [v EXCEPT !.category_blocking_type = TakenType(d, v)]
           A == d["advertisers"]
           B == Taken(d)["advertisers"]
<1>1. A \subseteq Advertiser /\ B = {taken(v) : v \in A}
  BY TakenColumns DEF Tabular
<1>2. \A v \in A : taken(v) \in Advertiser /\ taken(v).advertiser_id = v.advertiser_id
  BY <1>1, TakenTypes DEF Advertiser
<1>3. IsFiniteSet(B)
  <2> DEFINE f == [v \in A |-> taken(v)]
  <2>1. f \in Surjection(A, B)
    <3> HIDE DEF taken
    <3> QED
      BY <1>1 DEF Surjection
  <2>2. IsFiniteSet(A)
    BY TableNames DEF Tabular
  <2> HIDE DEF f
  <2> QED
    BY <2>1, <2>2, FS_Surjection
<1>4. Unique(B, "advertiser_id")
  <2>1. \A v, w \in A : taken(v).advertiser_id = taken(w).advertiser_id => v = w
    BY <1>2 DEF Tabular, Unique
  <2> HIDE DEF taken
  <2> QED
    BY <1>1, <2>1 DEF Unique
<1>5. B \subseteq Advertiser
  <2> HIDE DEF taken
  <2> QED
    BY <1>1, <1>2
<1>6. /\ \A t \in Tables : t \notin {"advertisers", "category_blockings"} =>
           Taken(d)[t] = d[t]
      /\ Taken(d) = [t \in Tables |-> Taken(d)[t]]
      /\ Taken(d)["category_blockings"] \subseteq d["category_blockings"]
  BY TakenColumns DEF CheckedRows
<1>7. IsFiniteSet(Taken(d)["category_blockings"])
  <2>1. IsFiniteSet(d["category_blockings"])
    BY TableNames DEF Tabular
  <2> QED
    BY <1>6, <2>1, FS_Subset
<1>8. \A t \in Tables : IsFiniteSet(Taken(d)[t])
  BY <1>3, <1>6, <1>7 DEF Tabular
<1> QED
  BY <1>4, <1>5, <1>6, <1>8, TableNames DEF Tabular

(* Contents that conform are taken as they are.                             *)
LEMMA TakenAsTheyAre ==
  ASSUME NEW d, IsDatabase(d), Conforms(d)
  PROVE  Taken(d) = d
<1>1. \A v \in d["advertisers"] : v \in Advertiser /\ Known(v) /\ TypeOf(v) = v.category_blocking_type
  BY DEF IsDatabase, Tabular, Conforms, Known, TypeOf, ALLOW, DENY, NULL
<1>2. \A v \in d["advertisers"] :
        [v EXCEPT !.category_blocking_type = TakenType(d, v)] = v
  <2> TAKE v \in d["advertisers"]
  <2>1. TakenType(d, v) = v.category_blocking_type
    BY <1>1 DEF Conforms, TakenType
  <2> QED
    BY <1>1, <2>1 DEF Advertiser
<1>3. {[v EXCEPT !.category_blocking_type = TakenType(d, v)] :
         v \in d["advertisers"]} = d["advertisers"]
  BY <1>2
<1>4. CheckedRows(d) = d["category_blockings"]
  BY <1>1 DEF CheckedRows, SelectAdvertiser, IsDatabase, References
<1>5. Taken(d) = [d EXCEPT !["category_blockings"] = d["category_blockings"],
                           !["advertisers"] = d["advertisers"]]
  BY <1>3, <1>4 DEF Taken
<1> QED
  BY <1>5 DEF IsDatabase, Tabular

(* The loops keep the candidates of the documents over the contents as they *)
(* are taken.                                                               *)
LEMMA LoopsKeepCandidates ==
  ASSUME NEW d, Tabular(d), NEW rq \in Request
  PROVE  {a \in SelectAdses(d) : Candidate(Taken(d), rq, a)} = Wanted(d, rq)
<1> SUFFICES ASSUME NEW a \in SelectAdses(d)
             PROVE  Candidate(Taken(d), rq, a) <=> a \in Wanted(d, rq)
  BY DEF Wanted, Unblocked, Fitting
<1> DEFINE taken(v) == [v EXCEPT !.category_blocking_type = TakenType(d, v)]
           categories == SelectCategories(d, a.advertiser_id)
           left == SelectCategories(Taken(d), a.advertiser_id)
           found == SelectAdvertiser(d, a.advertiser_id)
<1>1. SizeMatches(SelectAdSize(d, a.size_id), rq) <=>
        \E s \in SelectAdSize(Taken(d), a.size_id) : SizeFits(s, rq)
  BY TakenSelects DEF SizeMatches, SizeFits
<1>2. /\ \A v \in found : v \in d["advertisers"] /\ v \in Advertiser
                         /\ v.advertiser_id = a.advertiser_id
      /\ \A v, w \in found : v = w
  BY DEF Tabular, Unique, SelectAdvertiser
<1>3. SelectAdvertiser(Taken(d), a.advertiser_id) = {taken(v) : v \in found}
  <2>1. Taken(d)["advertisers"] = {taken(v) : v \in d["advertisers"]}
    BY TakenColumns
  <2>2. \A v \in d["advertisers"] : taken(v).advertiser_id = v.advertiser_id
    BY DEF Tabular, Advertiser
  <2> HIDE DEF taken
  <2> QED
    BY <2>1, <2>2 DEF SelectAdvertiser
<1>4. ASSUME NEW v \in found
      PROVE  /\ taken(v).domain = v.domain
             /\ taken(v).category_blocking_type = TakenType(d, v)
             /\ TakenType(d, v) \in {ALLOW, DENY}
  BY <1>2, TakenTypes DEF Advertiser
<1>5. ASSUME NEW v \in found
      PROVE  /\ Known(v) => left = categories
             /\ ~Known(v) => left = {}
  <2>1. Taken(d)["category_blockings"] = CheckedRows(d)
    BY TakenColumns
  <2>2. \A r \in d["category_blockings"] :
          r.advertiser_id = a.advertiser_id => (r \in CheckedRows(d) <=> Known(v))
    BY <1>2, <1>5 DEF CheckedRows
  <2>3. CheckedRows(d) \subseteq d["category_blockings"]
    BY DEF CheckedRows
  <2> QED
    BY <2>1, <2>2, <2>3 DEF SelectCategories
<1>6. ASSUME NEW v \in found
      PROVE  CategoryPasses(found, categories, rq) <=>
               Deliverable(TakenType(d, v), left, rq)
  <2>1. CategoryPasses(found, categories, rq) <=>
          ~ (categories # {} /\ categoryBlocking(v, categories, rq.category_ids))
    BY <1>2, <1>6 DEF CategoryPasses
  <2>2. v.advertiser_id = a.advertiser_id
    BY <1>2, <1>6
  <2>3. CASE ~Known(v)
    BY <1>5, <1>6, <2>1, <2>3 DEF Known, TakenType, categoryBlocking, Deliverable, ALLOW, DENY
  <2>4. CASE Known(v) /\ categories = {}
    BY <1>5, <1>6, <2>1, <2>2, <2>4 DEF TakenType, Deliverable, ALLOW, DENY
  <2>5. CASE Known(v) /\ categories # {}
    <3>1. left = categories /\ TakenType(d, v) = TypeOf(v) /\ TypeOf(v) \in {ALLOW, DENY}
      BY <1>5, <1>6, <2>2, <2>5 DEF TakenType, Known
    <3> HIDE DEF left, categories
    <3> QED
      BY <2>1, <2>5, <3>1 DEF categoryBlocking, Deliverable, ALLOW, DENY
  <2> QED
    BY <2>3, <2>4, <2>5
<1>7. ASSUME NEW v \in found
      PROVE  DomainPasses(found, rq) <=> ~DomainBlocked(taken(v).domain, rq)
  BY <1>2, <1>4, <1>7 DEF DomainPasses, DomainBlocked
<1>8. Candidate(Taken(d), rq, a) <=>
        /\ SizeMatches(SelectAdSize(d, a.size_id), rq)
        /\ \E v \in found :
             /\ ~DomainBlocked(taken(v).domain, rq)
             /\ Deliverable(taken(v).category_blocking_type, left, rq)
  <2> HIDE DEF taken, found, left
  <2> QED
    BY <1>1, <1>3 DEF Candidate, left
<1>9. a \in Wanted(d, rq) <=>
        /\ SizeMatches(SelectAdSize(d, a.size_id), rq)
        /\ DomainPasses(found, rq)
        /\ CategoryPasses(found, categories, rq)
  BY DEF Wanted, Unblocked, Fitting
<1>10. CASE found = {}
  BY <1>8, <1>9, <1>10 DEF DomainPasses
<1>11. CASE found # {}
  <2>1. PICK v \in found : TRUE
    BY <1>11
  <2>2. \A w \in found : w = v
    BY <1>2
  <2> HIDE DEF taken, found, left, categories
  <2> QED
    BY <1>4, <1>6, <1>7, <1>8, <1>9, <2>1, <2>2
<1> QED
  BY <1>10, <1>11

LEMMA RepresentativesAreWanted ==
  ASSUME NEW d, Tabular(d), NEW rq \in Request
  PROVE  /\ Candidates(Taken(d), rq) =
              {a \in Wanted(d, rq) : SelectAdsFeature(d, a.ads_id) # {}}
         /\ Representatives(Taken(d), rq) \subseteq Wanted(d, rq)
<1>1. Wanted(d, rq) = {a \in SelectAdses(d) : Candidate(Taken(d), rq, a)}
  BY LoopsKeepCandidates
<1>2. \A a : Distances(Taken(d), rq, a) # {} <=> SelectAdsFeature(d, a.ads_id) # {}
  BY TakenSelects DEF Distances
<1> QED
  BY <1>1, <1>2, TakenSelects DEF Candidates, Representatives

(* The ad of the nearest feature stands for its advertiser.                 *)
LEMMA NearestIsRepresentative ==
  ASSUME NEW d, Tabular(d), NEW rq \in Request,
         NEW a \in Wanted(d, rq), NEW b \in Group(Wanted(d, rq), a)
  PROVE  b \in Representatives(Taken(d), rq) <=>
           \E f \in Nearest(FeaturesOf(d, Group(Wanted(d, rq), a)), rq.zone_feature) :
             b.ads_id = f.ads_id
<1> DEFINE W == Wanted(d, rq)
           G == Group(W, a)
           F == FeaturesOf(d, G)
           Away(f) == Abs(rq.zone_feature - f.feature)
           nearest == {f \in F : \A g \in F : Away(f) <= Away(g)}
<1>1. /\ G \subseteq W /\ W \subseteq d["adses"] /\ W \subseteq Ads
      /\ \A c \in W : c \in G <=> c.advertiser_id = b.advertiser_id
  BY DEF Wanted, Unblocked, Fitting, Group, SelectAdses, Tabular
<1>2. \A f, g \in d["ads_features"] : f.ads_id = g.ads_id => f = g
  BY DEF Tabular, Unique
<1>3. \A x, y \in W : x.ads_id = y.ads_id => x = y
  BY <1>1 DEF Tabular, Unique
<1>4. \A f \in d["ads_features"] : Away(f) \in Int /\ f.ads_id \in Nat
  BY DEF Abs, Tabular, AdsFeature, Request
<1>5. \A f : f \in F <=>
        f \in d["ads_features"] /\ \E c \in G : f \in SelectAdsFeature(d, c.ads_id)
  BY DEF FeaturesOf, SelectAdsFeature
<1>6. \A c, f : f \in SelectAdsFeature(d, c.ads_id) <=>
        f \in d["ads_features"] /\ f.ads_id = c.ads_id
  BY DEF SelectAdsFeature
<1>7. \A c : Nearer(Taken(d), rq, b, c) <=>
        \E f \in SelectAdsFeature(d, b.ads_id), g \in SelectAdsFeature(d, c.ads_id) :
          Away(f) < Away(g) \/ (Away(f) = Away(g) /\ b.ads_id < c.ads_id)
  BY TakenSelects DEF Nearer, Distances
<1>8. b \in Representatives(Taken(d), rq) <=>
        /\ SelectAdsFeature(d, b.ads_id) # {}
        /\ \A c \in G : SelectAdsFeature(d, c.ads_id) # {} /\ c # b => Nearer(Taken(d), rq, b, c)
  BY <1>1, RepresentativesAreWanted DEF Representatives
<1>9. Nearest(F, rq.zone_feature) = Least(nearest, "ads_id")
  BY DEF Nearest
<1>10. ASSUME NEW f \in Nearest(F, rq.zone_feature), b.ads_id = f.ads_id
       PROVE  b \in Representatives(Taken(d), rq)
  <2>1. f \in nearest /\ f \in F /\ \A g \in nearest : f.ads_id <= g.ads_id
    BY <1>9, <1>10 DEF Least
  <2>2. f \in SelectAdsFeature(d, b.ads_id)
    BY <1>5, <1>6, <1>10, <2>1
  <2>3. ASSUME NEW c \in G, NEW g \in SelectAdsFeature(d, c.ads_id), c # b
        PROVE  Nearer(Taken(d), rq, b, c)
    <3>1. g \in F /\ g.ads_id = c.ads_id /\ c.ads_id # b.ads_id
      BY <1>1, <1>3, <1>5, <1>6, <2>3
    <3>2. Away(f) <= Away(g) /\ Away(f) \in Int /\ Away(g) \in Int
          /\ f.ads_id \in Nat /\ g.ads_id \in Nat
      BY <1>4, <1>5, <2>1, <3>1
    <3>3. Away(g) = Away(f) => g \in nearest
      BY <2>1, <3>1
    <3>4. Away(f) < Away(g) \/ (Away(f) = Away(g) /\ b.ads_id < c.ads_id)
      BY <1>10, <2>1, <3>1, <3>2, <3>3
    <3> QED
      BY <1>7, <2>2, <3>4
  <2> QED
    BY <1>8, <2>2, <2>3
<1>11. ASSUME b \in Representatives(Taken(d), rq)
       PROVE  \E f \in Nearest(F, rq.zone_feature) : b.ads_id = f.ads_id
  <2>1. PICK f \in SelectAdsFeature(d, b.ads_id) : TRUE
    BY <1>8, <1>11
  <2>2. f \in F /\ f.ads_id = b.ads_id
    BY <1>5, <1>6, <2>1
  <2>3. ASSUME NEW g \in F
        PROVE  /\ Away(f) <= Away(g)
               /\ Away(f) = Away(g) => f.ads_id <= g.ads_id
    <3>1. PICK c \in G : g \in SelectAdsFeature(d, c.ads_id)
      BY <1>5
    <3>2. /\ g \in d["ads_features"] /\ g.ads_id = c.ads_id
          /\ Away(f) \in Int /\ Away(g) \in Int /\ f.ads_id \in Nat /\ g.ads_id \in Nat
      BY <1>4, <1>5, <1>6, <2>2, <3>1
    <3>3. CASE c = b
      BY <1>2, <1>5, <2>2, <3>2, <3>3
    <3>4. CASE c # b
      <4>1. PICK m \in SelectAdsFeature(d, b.ads_id), n \in SelectAdsFeature(d, c.ads_id) :
              Away(m) < Away(n) \/ (Away(m) = Away(n) /\ b.ads_id < c.ads_id)
        BY <1>7, <1>8, <1>11, <3>1, <3>4
      <4>2. m = f /\ n = g
        BY <1>2, <1>5, <1>6, <2>2, <3>2, <4>1
      <4> QED
        BY <2>2, <3>2, <4>1, <4>2
    <3> QED
      BY <3>3, <3>4
  <2>4. f \in nearest /\ \A g \in nearest : Away(f) = Away(g)
    BY <1>4, <1>5, <2>2, <2>3
  <2>5. f \in Least(nearest, "ads_id")
    BY <2>3, <2>4 DEF Least
  <2> QED
    BY <1>9, <2>2, <2>5
<1> QED
  BY <1>10, <1>11

(* An advertiser has at most one representative.                            *)
LEMMA RepresentativeIsOne ==
  ASSUME NEW d, Tabular(d), NEW rq \in Request,
         NEW a \in Representatives(d, rq), NEW b \in Representatives(d, rq),
         a.advertiser_id = b.advertiser_id
  PROVE  a = b
<1> SUFFICES ASSUME a # b PROVE FALSE
  OBVIOUS
<1>1. Nearer(d, rq, a, b) /\ Nearer(d, rq, b, a) /\ a \in Ads /\ b \in Ads
  BY DEF Representatives, Candidates, SelectAdses, Tabular
<1>2. /\ \A m, n \in Distances(d, rq, a) : m = n /\ m \in Int
      /\ \A m, n \in Distances(d, rq, b) : m = n /\ m \in Int
  BY DEF Distances, SelectAdsFeature, Tabular, Unique, AdsFeature, Abs, Request
<1> QED
  BY <1>1, <1>2 DEF Nearer, Ads

=============================================================================
