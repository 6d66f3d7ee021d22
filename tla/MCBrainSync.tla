------------------------------ MODULE MCBrainSync ------------------------------
(***************************************************************************)
(* A small Notion for BrainSync: a root whose children take two requests,  *)
(* a nested list one level too deep, a table, a database, a page outside   *)
(* the boundary and a page that somebody moves into the database.          *)
(***************************************************************************)
EXTENDS BrainSync

B(id, kind) == [id |-> id, kind |-> kind]

MCSize ==
    [i \in {"root", "hub", "spec", "other", "db", "g0", "g1", "g2", "deep", "tab", "row",
            "t1", "t2", "t3", "h"} |->
        CASE i \in {"g2", "h", "t3"} -> 1 [] i = "t2" -> 5 [] OTHER -> 3]

\* Where the page "spec" is: a child of "hub", or a row of the database.
MCNotion(spec) ==
    [i \in DOMAIN MCSize |->
        CASE i = "root" -> <<<<B("t1", "text"), B("g0", "group"), B("hub", "child_page")>>,
                             <<B("db", "child_database"), B("other", "child_page")>>>>
          [] i = "hub"  -> <<IF spec = "hub" THEN <<B("spec", "child_page")>> ELSE <<>>>>
          [] i = "db"   -> <<IF spec = "db" THEN <<B("spec", "child_page")>> ELSE <<>>>>
          [] i = "spec" -> <<<<B("h", "heading"), B("t2", "text"), B("t3", "text"), B("tab", "table")>>>>
          [] i = "g0"   -> <<<<B("g1", "group")>>>>
          [] i = "g1"   -> <<<<B("g2", "group")>>>>
          [] i = "g2"   -> <<<<B("deep", "text")>>>>
          [] i = "tab"  -> <<<<B("row", "text")>>>>
          [] OTHER      -> <<<<>>>>]

MCNotions == {MCNotion("hub"), MCNotion("db")}
=============================================================================
