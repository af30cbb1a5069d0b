------------------------------ MODULE MCPyAuction ------------------------------
(***************************************************************************)
(* The constants of PyAuction for TLC: the databases of MCDatabases, with  *)
(* features moved away from 0 or not, and two requests.                    *)
(***************************************************************************)
EXTENDS PyAuction, MCDatabases

MCTwo == {Full, Short}
MCAny == {Full, Short, Broken}
MCBroken == {Broken}
MCNone == {}

\* The same contents with every feature raised by two.
Raised(d) ==
  [d EXCEPT !["ads_features"] = {[f EXCEPT !.feature = @ + 2] : f \in @}]

\* An advertiser with two ads at the same distance from a feature of 0.
Symmetric ==
  MakeDB(<<0, 1>>, <<{1}, {2}>>, <<1, 1, 2>>, <<1, 1, 1>>, <<1, 2, 1>>,
         <<{-1}, {1}, {-2}>>, <<"a", "b", "c">>)

\* Ads without a feature, one of which is too large for the zone.
Featureless ==
  MakeDB(<<1, 1>>, <<{2}, {2}>>, <<1, 2, 2>>, <<1, 1, 2>>, <<1, 2, 1>>,
         <<{1}, {}, {}>>, <<"a", "b", "c">>)
FeaturelessBlocked ==
  MakeDB(<<0, 0>>, <<{1}, {1}>>, <<1, 2, 2>>, <<1, 1, 2>>, <<1, 2, 1>>,
         <<{1}, {2}, {}>>, <<"a", "b", "c">>)

\* Ads of one price whose ads_id does not grow with advertiser_id.
Tied ==
  MakeDB(<<1, 1>>, <<{2}, {2}>>, <<2, 1, 1>>, <<1, 1, 1>>, <<1, 1, 1>>,
         <<{2}, {3}, {4}>>, <<"a", "b", "c">>)

\* Contents that the script replaces: with ads equally near or of one price,
\* with ads without a feature or with the feature 0, from an advertiser
\* without categories or without a type.
MCPyReloads ==
  {[old |-> Raised(r.old), fresh |-> r.fresh] : r \in MCReloads}
    \cup {[old |-> d, fresh |-> NullDB] : d \in {Symmetric, Featureless, FeaturelessBlocked}}
    \cup {[old |-> Tied, fresh |-> FreshDB], [old |-> NullDB, fresh |-> OldDB]}

\* An ad without a feature, of the advertiser that Full blocks, and one with
\* the feature 0.
MCUnset ==
  LET d == MakeDB(<<1, 1>>, <<{2}, {2}>>, <<1, 2>>, <<1, 1>>, <<1, 1>>, <<{}, {0}>>,
                  <<"a", "b">>)
  IN  {[old |-> d, fresh |-> d]}
=============================================================================
