----------------------------- MODULE AuctionChecks -----------------------------
(***************************************************************************)
(* What the three servers do in the same way: the request that they make   *)
(* of a body, and the checks of their filter loops on one row, in the      *)
(* words of the C++ server.                                                *)
(***************************************************************************)
EXTENDS AuctionRules

CONSTANT NoAuctionId  \* the empty string

ASSUME NoAuctionIdIsId == NoAuctionId \in AuctionIds
-----------------------------------------------------------------------------
(* The statements that wait for the database, and the table each reads.     *)
TableOf == [fetchAdses |-> "adses", fetchAdSize |-> "ads_sizes",
            fetchAdvertiser |-> "advertisers",
            fetchAdvertiserAgain |-> "advertisers",
            fetchCategoryBlocking |-> "category_blockings",
            fetchAdsFeature |-> "ads_features"]
Queries == DOMAIN TableOf

(* A member that is absent leaves the default; in C++ and Go, so does one   *)
(* of another type.  A body that is no object at all, which only Go reads   *)
(* as one without members, is Malformed in the other two.                   *)
Member(body, name, default) ==
  IF name \in DOMAIN body THEN body[name] ELSE default

ParseRequest(body) ==
  [auction_id    |-> Member(body, "auction_id", NoAuctionId),
   category_ids  |-> Member(body, "category_ids", {}),
   zone_feature  |-> Member(body, "zone_feature", 0),
   zone_width    |-> Member(body, "zone_width", 0),
   zone_height   |-> Member(body, "zone_height", 0),
   block_domains |-> Member(body, "block_domains", {})]

(* The type that getInt() finds in the column: it is 0 where the column is   *)
(* NULL.  The other two servers go no further with a NULL.                  *)
TypeOf(v) ==
  IF v.category_blocking_type = NULL THEN ALLOW ELSE v.category_blocking_type

Known(v) == TypeOf(v) \in {ALLOW, DENY}

(* Of another type nothing is blocked in Go; in C++ the process ends here,  *)
(* and in Python fetchAdvertiser has raised before.                         *)
categoryBlocking(v, categories, category_ids) ==
  LET including_ids == categories \cap category_ids # {}
  IN  \/ TypeOf(v) = ALLOW /\ ~including_ids
      \/ TypeOf(v) = DENY /\ including_ids

(* The body of each filter loop: whether the row stays.                     *)
SizeMatches(found, rq) ==
  \E s \in found :
    s.ads_width = rq.zone_width /\ s.ads_height = rq.zone_height

DomainPasses(found, rq) ==
  \E v \in found :
    \A word \in rq.block_domains : <<word, v.domain>> \notin Substring

CategoryPasses(found, categories, rq) ==
  ~ \E v \in found :
      categories # {} /\ categoryBlocking(v, categories, rq.category_ids)

-----------------------------------------------------------------------------
(* Over a database that changes while auction() reads it, an answer need    *)
(* not fit any one state of the database.  What an answer can be held to is *)
(* that its ad passed every check, in the order of the code, each against   *)
(* the database as it was at some moment between request and answer.        *)
Exists(t, v) == t \in DOMAIN DBAt(v)

Read(a, from, to) ==
  \E v \in from..to : Exists("adses", v) /\ a \in SelectAdses(DBAt(v))

ReadAndFits(a, rq, from, to) ==
  \E v \in from..to :
    /\ Exists("ads_sizes", v)
    /\ SizeMatches(SelectAdSize(DBAt(v), a.size_id), rq)
    /\ Read(a, from, v)

AlsoDomain(a, rq, from, to) ==
  \E v \in from..to :
    /\ Exists("advertisers", v)
    /\ DomainPasses(SelectAdvertiser(DBAt(v), a.advertiser_id), rq)
    /\ ReadAndFits(a, rq, from, v)

AdvertiserRead(a, rq, found, from, to) ==
  \E v \in from..to :
    /\ Exists("advertisers", v)
    /\ found = SelectAdvertiser(DBAt(v), a.advertiser_id)
    /\ AlsoDomain(a, rq, from, v)

AlsoCategory(a, rq, from, to) ==
  \E v \in from..to, u \in from..to :
    /\ u <= v
    /\ Exists("advertisers", u)
    /\ Exists("category_blockings", v)
    /\ CategoryPasses(SelectAdvertiser(DBAt(u), a.advertiser_id),
                      SelectCategories(DBAt(v), a.advertiser_id), rq)
    /\ AlsoDomain(a, rq, from, u)

AlsoFeature(a, rq, from, to) ==
  \E v \in from..to :
    /\ Exists("ads_features", v)
    /\ SelectAdsFeature(DBAt(v), a.ads_id) # {}
    /\ AlsoCategory(a, rq, from, v)
-----------------------------------------------------------------------------
(* The contents as the category loop takes them: an advertiser without a    *)
(* category, or of an unknown type, is served like a denying one that has   *)
(* no category.                                                             *)
CheckedRows(d) ==
  {r \in d["category_blockings"] :
     \E v \in SelectAdvertiser(d, r.advertiser_id) : Known(v)}

TakenType(d, v) ==
  IF Known(v) /\ SelectCategories(d, v.advertiser_id) # {}
  THEN TypeOf(v) ELSE DENY

Taken(d) ==
  [d EXCEPT !["category_blockings"] = CheckedRows(d),
            !["advertisers"] =
              {[v EXCEPT !.category_blocking_type = TakenType(d, v)] : v \in @}]

(* Contents of the shape of test/create_data.py: every advertiser has a     *)
(* category and one of the two types.  schema.sql asks for neither,         *)
(* doc/db.md:54 for the second.  Taken does not change them.                *)
Conforms(d) ==
  \A v \in d["advertisers"] :
    /\ v.category_blocking_type \in {ALLOW, DENY}
    /\ SelectCategories(d, v.advertiser_id) # {}
=============================================================================
