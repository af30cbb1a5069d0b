----------------------------- MODULE AuctionRules -----------------------------
(***************************************************************************)
(* The rules of the auction as doc/size-scan.md, doc/domain-blocking.md,   *)
(* doc/category-blocking.md, doc/feature-targeting.md and                  *)
(* doc/final-auction.md state them, over the contents d of a database and  *)
(* a request rq.  They say what an answer is, not how it is computed; the  *)
(* modules of the servers are checked against them.                        *)
(***************************************************************************)
EXTENDS AdDatabase

CONSTANTS
  AuctionIds, \* the strings a request may carry as auction_id
  BlockWords, \* the strings a request may list in block_domains
  Substring   \* the pairs <<word, domain>> where word occurs in domain

ASSUME SubstringIsRelation == Substring \subseteq BlockWords \X Domains

Request == [auction_id : AuctionIds, category_ids : SUBSET Nat, zone_feature : Int,
            zone_width : Nat, zone_height : Nat,
            block_domains : SUBSET BlockWords]

Abs(n) == IF n < 0 THEN -n ELSE n

SizeFits(s, rq) ==
  s.ads_width = rq.zone_width /\ s.ads_height = rq.zone_height

DomainBlocked(domain, rq) ==
  \E word \in rq.block_domains : <<word, domain>> \in Substring

(* doc/category-blocking.md: a common category makes an allowing advertiser *)
(* deliverable and a denying one not; no common category is the opposite.   *)
Deliverable(type, categories, rq) ==
  (type = ALLOW) <=> (categories \cap rq.category_ids # {})

Candidate(d, rq, a) ==
  /\ \E s \in SelectAdSize(d, a.size_id) : SizeFits(s, rq)
  /\ \E v \in SelectAdvertiser(d, a.advertiser_id) :
       /\ ~DomainBlocked(v.domain, rq)
       /\ Deliverable(v.category_blocking_type,
                      SelectCategories(d, a.advertiser_id), rq)

(* How far an ad is from the request, for an ad that has a feature.         *)
Distances(d, rq, a) ==
  {Abs(rq.zone_feature - f.feature) : f \in SelectAdsFeature(d, a.ads_id)}

Candidates(d, rq) ==
  {a \in SelectAdses(d) : Candidate(d, rq, a) /\ Distances(d, rq, a) # {}}

Nearer(d, rq, a, b) ==
  \E m \in Distances(d, rq, a), n \in Distances(d, rq, b) :
    m < n \/ (m = n /\ a.ads_id < b.ads_id)

(* The one ad that stands for its advertiser.                               *)
Representatives(d, rq) ==
  LET candidates == Candidates(d, rq)
  IN  {a \in candidates :
         \A b \in candidates :
           b.advertiser_id = a.advertiser_id /\ b # a => Nearer(d, rq, a, b)}

Winners(d, rq) ==
  LET rivals == Representatives(d, rq)
  IN  {a \in rivals :
         \A b \in rivals :
           a.price > b.price \/ (a.price = b.price /\ a.ads_id <= b.ads_id)}

(* The body of the answer: nothing is the answer 204.                       *)
Bid(a) == [ads |-> a.ads_txt, price |-> a.price]
DocumentedAnswer(d, rq) == {Bid(a) : a \in Winners(d, rq)}
=============================================================================
