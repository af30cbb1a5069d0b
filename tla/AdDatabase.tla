------------------------------ MODULE AdDatabase ------------------------------
(***************************************************************************)
(* The MySQL database `geniee` as the auction servers see it: five tables  *)
(* (sql/schema.sql), the queries the servers send, and test/setup_db.sh,   *)
(* which replaces the contents while a server may be running.              *)
(*                                                                         *)
(* A database is a function from the names of the tables that exist to     *)
(* sets of rows; a row is a record.  No server writes: the contents depend *)
(* only on how far the script has come, so the history of the database is  *)
(* the function DBAt from the script's step to the contents.               *)
(***************************************************************************)
EXTENDS Integers, FiniteSets

CONSTANTS
  AdTexts,    \* the values of adses.ads_txt, opaque to the servers
  Domains,    \* the values of advertisers.domain
  Reloads,    \* the pairs [old, fresh] of contents before and after the script
  Reloading   \* whether the script runs at all

VARIABLES
  old,        \* the contents before the script, chosen once
  fresh,      \* the contents of the script's CSV files, chosen once
  step        \* how many commands the script has completed

dbvars == <<old, fresh, step>>
-----------------------------------------------------------------------------
(* The tables, in the order schema.sql creates and setup_db.sh loads them. *)
Position == [advertisers |-> 1, ads_sizes |-> 2, adses |-> 3,
             category_blockings |-> 4, ads_features |-> 5]
Tables == DOMAIN Position

ALLOW == 0
DENY  == 1
NULL  == -1

(* The rows, as schema.sql types them.  The columns no server tells apart   *)
(* are left out (advertiser_name); price is decimal(15,4), so an integer    *)
(* number of ten-thousandths.  category_blocking_type is a tinyint unsigned *)
(* that may be NULL: only doc/db.md:54 promises that it is 0 or 1.          *)
Advertiser == [advertiser_id : Nat, category_blocking_type : 0..255 \cup {NULL},
               domain : Domains]
AdSize == [size_id : Nat, ads_width : Nat, ads_height : Nat]
Ads == [ads_id : Nat, advertiser_id : Nat, price : Nat, ads_txt : AdTexts,
        size_id : Nat]
CategoryBlocking == [advertiser_id : Nat, category_id : Nat]
AdsFeature == [ads_id : Nat, feature : Int]

(* PRIMARY KEY and FOREIGN KEY.                                             *)
Unique(rows, column) ==
  \A r, s \in rows : r[column] = s[column] => r = s
References(rows, column, target) ==
  \A r \in rows : \E s \in target : s[column] = r[column]

(* Contents give each of the five tables its rows, with their keys; those   *)
(* of a database that nobody is loading also refer to rows that exist.      *)
Tabular(d) ==
  /\ d = [t \in Tables |-> d[t]]
  /\ d["advertisers"] \subseteq Advertiser
  /\ d["ads_sizes"] \subseteq AdSize
  /\ d["adses"] \subseteq Ads
  /\ d["category_blockings"] \subseteq CategoryBlocking
  /\ d["ads_features"] \subseteq AdsFeature
  /\ \A t \in Tables : IsFiniteSet(d[t])
  /\ Unique(d["advertisers"], "advertiser_id")
  /\ Unique(d["ads_sizes"], "size_id")
  /\ Unique(d["adses"], "ads_id")
  /\ Unique(d["ads_features"], "ads_id")

IsDatabase(d) ==
  /\ Tabular(d)
  /\ References(d["adses"], "advertiser_id", d["advertisers"])
  /\ References(d["adses"], "size_id", d["ads_sizes"])
  /\ References(d["category_blockings"], "advertiser_id", d["advertisers"])
  /\ References(d["ads_features"], "ads_id", d["adses"])

ASSUME ReloadsAreDatabases ==
  \A r \in Reloads : IsDatabase(r.old) /\ IsDatabase(r.fresh)
ASSUME ReloadingIsBoolean == Reloading \in BOOLEAN
-----------------------------------------------------------------------------
(* The script: command 1 drops the database, commands 2 to 6 create the    *)
(* five tables, commands 7 to 11 load them, each in one transaction.       *)
LastStep == 11

DBAt(v) ==
  IF v = 0
  THEN old
  ELSE [t \in {u \in Tables : Position[u] < v} |->
          IF Position[t] + 6 <= v THEN fresh[t] ELSE {}]

db == DBAt(step)

(* No table is missing, though some may still be empty.                     *)
Whole(v) == DOMAIN DBAt(v) = Tables

DropDatabase ==
  /\ Reloading
  /\ step = 0
  /\ step' = 1
  /\ UNCHANGED <<old, fresh>>

CreateTable ==
  /\ step \in 1..5
  /\ step' = step + 1
  /\ UNCHANGED <<old, fresh>>

\* Mutant of LoadTable: one command too many.
LoadOneMore ==
  /\ step \in 6..11
  /\ step' = step + 1
  /\ UNCHANGED <<old, fresh>>

LoadTable ==
  /\ step \in 6..10
  /\ step' = step + 1
  /\ UNCHANGED <<old, fresh>>

SetupDB == DropDatabase \/ CreateTable \/ LoadTable

DBInit ==
  /\ \E r \in Reloads : old = r.old /\ fresh = r.fresh
  /\ step = 0
-----------------------------------------------------------------------------
(* The SELECTs.  A query on a table that does not exist is an error; each  *)
(* result below is the set of rows returned, of at most one row where the  *)
(* query is by primary key (LIMIT 1).                                       *)
SelectAdses(d) == d["adses"]
SelectAdSize(d, size_id) == {s \in d["ads_sizes"] : s.size_id = size_id}
SelectAdvertiser(d, advertiser_id) ==
  {a \in d["advertisers"] : a.advertiser_id = advertiser_id}
SelectCategories(d, advertiser_id) ==
  {c.category_id : c \in {r \in d["category_blockings"] :
                            r.advertiser_id = advertiser_id}}
SelectAdsFeature(d, ads_id) == {f \in d["ads_features"] : f.ads_id = ads_id}

(* ORDER BY: the first rows of a table by a column; one row when the column *)
(* is a key of the rows.                                                    *)
Least(rows, column) == {r \in rows : \A s \in rows : r[column] <= s[column]}
=============================================================================
