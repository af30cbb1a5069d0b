------------------------------ MODULE MCDatabases ------------------------------
(***************************************************************************)
(* Small databases and requests for the servers: two advertisers, two or   *)
(* three ads, two sizes, two categories, two domains.  A word that a       *)
(* request blocks is contained in one of the domains; "" is in both.       *)
(***************************************************************************)
EXTENDS AuctionChecks

Advertisers == 1..2

\* The columns as functions of the advertisers and of the ads.
MakeDB(type, categories, owner, size, price, feature, txt) ==
  [advertisers |-> {[advertiser_id |-> i, category_blocking_type |-> type[i],
                     domain |-> IF i = 1 THEN "one" ELSE "two"] : i \in Advertisers},
   ads_sizes |-> {[size_id |-> 1, ads_width |-> 300, ads_height |-> 250],
                  [size_id |-> 2, ads_width |-> 300, ads_height |-> 600]},
   adses |-> {[ads_id |-> i, advertiser_id |-> owner[i], price |-> price[i],
               ads_txt |-> txt[i], size_id |-> size[i]] : i \in DOMAIN owner},
   category_blockings |->
     UNION {{[advertiser_id |-> i, category_id |-> c] : c \in categories[i]} :
              i \in Advertisers},
   ads_features |-> UNION {{[ads_id |-> i, feature |-> f] : f \in feature[i]} :
                             i \in DOMAIN owner}]

MCAdTexts == {"a", "b", "c", "x", "y", "z"}
MCDomains == {"one", "two"}
MCNoAuctionId == ""
MCAuctionIds == {MCNoAuctionId, "full", "short"}
MCBlockWords == {"", "on"}
MCSubstring == {<<"", "one">>, <<"", "two">>, <<"on", "one">>}

\* A full request, and one that lists neither domains nor a feature.
Full == [auction_id |-> "full", category_ids |-> {1}, zone_feature |-> 1,
         zone_width |-> 300, zone_height |-> 250, block_domains |-> {"on"}]
Short == [auction_id |-> "short", category_ids |-> {1}, zone_width |-> 300,
          zone_height |-> 250]
\* The shape test/create_data.py gives a database: every advertiser has a
\* category, every ad a feature, and ads_id grows with advertiser_id.
Generated ==
  {MakeDB(type, categories, owner, size, price, feature, <<"a", "b", "c">>) :
     type \in {<<0, 0>>, <<0, 1>>, <<1, 0>>},
     categories \in {<<{1}, {2}>>, <<{2}, {1, 2}>>},
     owner \in {<<1, 1, 2>>, <<1, 2, 2>>},
     size \in {<<1, 1, 1>>, <<2, 1, 1>>},
     price \in {<<1, 1, 1>>, <<1, 2, 1>>, <<1, 1, 2>>},
     feature \in {<<{0}, {1}, {2}>>, <<{-1}, {1}, {-2}>>}}
MCGenerated == {[old |-> d, fresh |-> d] : d \in Generated}

\* A body whose end is missing: it has no member that a parser could find.
Broken == [cut |-> "off"]

\* Contents that differ in every column: who owns an ad, what it costs, its
\* size, its feature, what an advertiser allows.  In FreshDB a type is neither
\* 0 nor 1, in NullDB there is none and ads of one price are not in the order
\* of their advertisers; in NearDB an advertiser without categories has both
\* ads, equally near to 1.
OldDB ==
  MakeDB(<<0, 1>>, <<{1}, {1}>>, <<1, 2>>, <<1, 1>>, <<1, 2>>, <<{0}, {2}>>,
         <<"a", "b">>)
FreshDB ==
  MakeDB(<<1, 2>>, <<{2}, {1, 2}>>, <<2, 2>>, <<1, 1>>, <<2, 1>>, <<{1}, {0}>>,
         <<"x", "y">>)
NullDB ==
  MakeDB(<<NULL, 1>>, <<{1}, {2}>>, <<2, 1>>, <<1, 1>>, <<1, 1>>, <<{1}, {0}>>,
         <<"c", "z">>)
NearDB ==
  MakeDB(<<0, 1>>, <<{1}, {}>>, <<2, 2>>, <<1, 1>>, <<1, 1>>, <<{0}, {2}>>,
         <<"a", "c">>)

\* What the script replaces by what.
MCReloads ==
  {[old |-> OldDB, fresh |-> FreshDB], [old |-> NearDB, fresh |-> NullDB]}

\* ads_id that does not grow with advertiser_id.
Unordered ==
  {MakeDB(<<1, 1>>, <<{2}, {2}>>, owner, <<1, 1, 1>>, price,
          <<{0}, {1}, {2}>>, <<"a", "b", "c">>) :
     owner \in {<<1, 2, 1>>, <<2, 1, 1>>}, price \in {<<1, 1, 1>>, <<1, 2, 1>>}}
MCUnordered == {[old |-> d, fresh |-> d] : d \in Unordered}

\* An advertiser without a row in category_blockings.
Uncategorised ==
  {MakeDB(type, <<{}, {1}>>, <<1, 1, 2>>, <<1, 1, 1>>, <<1, 2, 1>>,
          <<{0}, {1}, {2}>>, <<"a", "b", "c">>) : type \in {<<0, 0>>, <<0, 1>>}}
MCUncategorised == {[old |-> d, fresh |-> d] : d \in Uncategorised}
=============================================================================
