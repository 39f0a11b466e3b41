--------------------------- MODULE MCTenantRecords ---------------------------
(***************************************************************************)
(* Small instances of TenantRecords.  There is one account with a primary  *)
(* contact, an opportunity and a task, and a second account with nothing;  *)
(* a warehouse of which one site and legal entity are known; and parties   *)
(* that buy and sell.                                                      *)
(***************************************************************************)
EXTENDS TenantRecords, TLC

CONSTANTS c1, c2, c3, a1, a2, d1, o1, t1, s1, e1, buyer, seller, k1, k2

Rows(pairs) == [i \in { p[1] : p \in pairs } |-> (CHOOSE p \in pairs : p[1] = i)[2]]

NoNames == [t \in NameTables |-> Rows({})]

RecordsBeginnings ==
  { [parties |-> Rows({<<buyer, [code |-> "P1", type |-> "retailer"]>>,
                       <<seller, [code |-> "P2", type |-> "supplier"]>>}),
     names |-> [NoNames EXCEPT !["entity"] = Rows({<<e1, [code |-> "NL", parent |-> None]>>}),
                               !["site"] = Rows({<<s1, [code |-> "AMS", parent |-> e1]>>})],
     products |-> Rows({}), warehouses |-> Rows({}),
     accounts |-> Rows({<<a1, [code |-> "A1", party |-> buyer]>>,
                        <<a2, [code |-> "A2", party |-> None]>>}),
     contacts |-> Rows({<<d1, [account |-> a1, primary |-> TRUE, version |-> 1]>>}),
     opportunities |-> Rows({<<o1, [account |-> a1, worth |-> <<"lead", 5000>>, version |-> 1]>>}),
     tasks |-> Rows({<<t1, [account |-> a1, opportunity |-> o1, status |-> "open",
                            version |-> 1]>>}),
     settings |-> s]
    : s \in {NoSettings, [version |-> 1, buckets |-> "30-60"]} }

Party(key, code) == [op |-> "party", key |-> key, code |-> code, type |-> "customer"]

Product(key, code, sku, brand) ==
  [op |-> "product", key |-> key, code |-> code, skus |-> {sku},
   names |-> ("unit" :> "EA") @@ ("brand" :> brand) @@ ("category" :> "BEER")]

Warehouse(key, code, entity, site) ==
  [op |-> "warehouse", key |-> key, code |-> code,
   names |-> ("entity" :> entity) @@ ("site" :> site)]

Account(key, code, party) == [op |-> "account", key |-> key, code |-> code, party |-> party]

Contact(key, account, primary) ==
  [op |-> "contact", key |-> key, account |-> account, primary |-> primary]

Opportunity(key, account, stage, chance) ==
  [op |-> "opportunity", key |-> key, account |-> account, stage |-> stage, chance |-> chance]

Stage(key, o, stage, chance) ==
  [op |-> "stage", key |-> key, opportunity |-> o, stage |-> stage, chance |-> chance]

Task(key, account, o) == [op |-> "task", key |-> key, account |-> account, opportunity |-> o]

Activity(key, account, contact, o) ==
  [op |-> "activity", key |-> key, account |-> account, contact |-> contact, opportunity |-> o]

Complete(key, t) == [op |-> "complete", key |-> key, task |-> t]

Update(key, buckets) == [op |-> "update-settings", key |-> key, buckets |-> buckets]

View == [op |-> "view-settings", key |-> None]

\* Two calls may do the same with one key or two, and the third builds on what
\* the others made or changes the same record.
RecordsCommands ==
  (c1 :> {Party(k1, "P3"), Product(k1, "X", "S1", "ACME"), Warehouse(k1, "W1", "BE", "BRU"),
          Account(k1, "A3", c2), Contact(k1, a1, TRUE), Opportunity(k1, a1, "won", 5000),
          Stage(k1, o1, "won", 10000), Task(k1, a1, o1), Complete(k1, t1),
          Update(k1, "10-20")})
    @@ (c2 :> {Party(k2, "P3"), Product(k2, "Y", "S2", "ACME"), Product(k1, "X", "S1", "ACME"),
               Warehouse(k2, "W2", "BE", "BRU"), Account(k2, "A3", seller),
               Contact(k2, a1, TRUE), Stage(k2, o1, "lost", 0), Stage(k1, c1, "lost", 0),
               Complete(k2, t1), Complete(k1, c1), Update(k2, "20-40")})
    @@ (c3 :> {Party(k1, "P3"), Product(k2, "X", "S2", "BETA"), Warehouse(k2, "W1", "DE", "AMS"),
               Account(k1, "A3", None), Contact(k1, a2, TRUE), Contact(k2, a1, FALSE),
               Stage(k2, o1, "won", 5000), Stage(k1, o1, "lead", 5000),
               Activity(k1, a1, c1, o1), Activity(k1, a1, d1, None), Task(k1, a2, o1),
               Task(k2, a1, c1), Complete(k1, t1), Update(k1, "20-40"), Update(k1, "10-20"), View})
==============================================================================
