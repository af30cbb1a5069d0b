------------------------------ MODULE MCGoAuction ------------------------------
(***************************************************************************)
(* The constants of GoAuction for TLC: the databases of MCDatabases, with  *)
(* the empty string as a domain no row has, and three requests for two     *)
(* places.                                                                 *)
(***************************************************************************)
EXTENDS GoAuction, MCDatabases

MCNoDomain == ""
MCGoDomains == MCDomains \cup {MCNoDomain}
MCGoSubstring == MCSubstring \cup {<<"", MCNoDomain>>}
MCGoAuctionIds == MCAuctionIds \cup {"other"}

\* A request of another zone.
Other == [auction_id |-> "other", category_ids |-> {2}, zone_feature |-> -1,
          zone_width |-> 300, zone_height |-> 600]

MCThree == {Full, Short, Other}
MCTwo == {Full, Short}
MCOne == {Full}

\* Databases that differ in every column, of the generator's shape and not.
MCQuiet ==
  LET dbs == Unordered \cup
        {MakeDB(<<0, 1>>, <<{1}, {2}>>, owner, size, price, <<{0}, {1}, {2}>>,
                <<"a", "b", "c">>) :
           owner \in {<<1, 1, 2>>, <<2, 1, 2>>},
           size \in {<<1, 1, 1>>, <<2, 1, 2>>},
           price \in {<<1, 1, 1>>, <<1, 2, 1>>}}
  IN  {[old |-> d, fresh |-> d] : d \in dbs}
=============================================================================
